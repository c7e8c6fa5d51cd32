------------------------ MODULE SessionLifecycle_proofs ------------------------
(***************************************************************************)
(* TargetAgrees, ForwardingWorks and ResourcesOwned for any number of       *)
(* requests and profiles, and DeletedLeavesNothing where a deletion is      *)
(* neither repeated nor followed by a save.                                 *)
(*                                                                          *)
(* What a request opens bears its name, so a fresh name is free (NamesNew). *)
(* A session that is registered belongs to a start that is past its         *)
(* critical section, and has everything it needs (SessionsWhole); who is    *)
(* not in a teardown has nothing to close (TeardownsIdle). With that each   *)
(* step moves a tunnel, channel or client from one holder to the next, and  *)
(* none is held twice.                                                      *)
(***************************************************************************)
EXTENDS SessionLifecycle, FiniteSetTheorems, TLAPS

\* Where the goroutine of a start holds the SSH client.
Pre == {"async", "channel", "portcheck", "commit"}
\* Where a request may hold a proxy channel.
WithChannel == {"retunnel", "install", "portcheck", "commit"}
\* The request opens nothing any more.
Past(t) == req[t].at \in {"end", "done"} \/ (req[t].at = "close" /\ req[t].then # "check")

Registered(s) == sess[s].profile \in Profile /\ sessions[sess[s].profile] = s
NothingToClose(t) ==
  cleanup[t].tunnel = None /\ cleanup[t].channel = None /\ cleanup[t].client = None

\* The map and the sessions name each other; what is not registered is empty.
RegistryAgrees ==
  /\ \A p \in Profile : sessions[p] # None => sess[sessions[p]].profile = p
  /\ \A s \in Task : ~Registered(s) => sess[s] = Emptied(s)

\* A registered session has its client, and a tunnel when it forwards.
SessionsWhole == \A s \in Task : Registered(s) =>
  /\ req[s].at \in {"end", "done"}
  /\ sess[s].client = s /\ NothingToClose(s)
  /\ sess[s].forwarding <=> sess[s].tunnel # None

\* The proxy's target.
TargetRegistered ==
  /\ current = None <=> proxyProfile = None
  /\ current # None => Registered(current) /\ proxyProfile = sess[current].profile

\* Whoever refers to a session refers to one that was registered once.
Known(s) == s \in Task /\ sess[s].profile \in Profile
ReferencesKnown ==
  /\ \A h \in Task : health[h].at # "none" => Known(health[h].session)
  /\ \A s \in Task : watcher[s] # "none" => Known(s)
  /\ \A t \in Task :
       /\ req[t].at # "new" => req[t].profile \in Profile
       /\ req[t].at \in {"resume", "retunnel", "install"} => Known(req[t].session)
       /\ req[t].at = "stopdeleted" /\ req[t].session # None => Known(req[t].session)

\* Who is in no teardown has nothing to close.
TeardownsIdle == \A t \in Task :
  /\ req[t].at \notin {"close", "end", "done"} => NothingToClose(t)
  /\ req[t].at = "close" => req[t].then \in {"check", "done", "end"}
  /\ sess[t].profile # None => req[t].at \in {"end", "done"}

\* A name is used for one tunnel, one channel and one client.
NamesNew == \A t \in Task :
  /\ t \in tunnels  => req[t].at = "install" \/ Past(t)
  /\ t \in channels => req[t].at \in WithChannel \/ Past(t)
  /\ t \in clients  => req[t].at \in Pre \/ Past(t)

\* A tunnel that is held is open and has one holder, and one that is open is held.
SessionTunnels == \A x \in Task : sess[x].tunnel # None =>
  /\ sess[x].tunnel \in tunnels /\ req[sess[x].tunnel].at # "install"
  /\ \A y \in Task : /\ sess[y].tunnel = sess[x].tunnel => y = x
                     /\ cleanup[y].tunnel # sess[x].tunnel
TeardownTunnels == \A x \in Task : cleanup[x].tunnel # None =>
  /\ cleanup[x].tunnel \in tunnels /\ req[cleanup[x].tunnel].at # "install"
  /\ \A y \in Task : cleanup[y].tunnel = cleanup[x].tunnel => y = x
RequestTunnels == \A t \in Task : req[t].at = "install" => t \in tunnels
OpenTunnels == \A r \in tunnels :
  req[r].at = "install" \/ \E x \in Task : sess[x].tunnel = r \/ cleanup[x].tunnel = r

TunnelsHeld == SessionTunnels /\ TeardownTunnels /\ RequestTunnels /\ OpenTunnels

\* The same for the proxy channels, but that one may be replaced.
SessionChannels == \A x \in Task : sess[x].channel # None =>
  /\ sess[x].channel \in channels /\ req[sess[x].channel].channel = None
  /\ \A y \in Task : /\ sess[y].channel = sess[x].channel => y = x
                     /\ cleanup[y].channel # sess[x].channel
TeardownChannels == \A x \in Task : cleanup[x].channel # None =>
  /\ cleanup[x].channel \in channels /\ req[cleanup[x].channel].channel = None
  /\ \A y \in Task : cleanup[y].channel = cleanup[x].channel => y = x
RequestChannels == \A t \in Task : req[t].channel # None =>
  req[t].channel = t /\ req[t].at \in WithChannel /\ t \in channels
OpenChannels == \A r \in channels :
  \/ req[r].channel = r
  \/ \E x \in Task : sess[x].channel = r \/ cleanup[x].channel = r
  \/ req[r].at = "done" /\ req[r].session # None

ChannelsHeld == SessionChannels /\ TeardownChannels /\ RequestChannels /\ OpenChannels

\* A resumption that opens, or holds, a channel of its own.
Resuming(t) ==
  req[t].at = "resume" \/ (req[t].at \in {"retunnel", "install"} /\ req[t].channel # None)

\* A session that has another's channel has it from a resumption that is over;
\* who resumes did not find the start's.
ChannelsFound ==
  /\ \A x \in Task : sess[x].channel \notin {None, x} =>
       req[sess[x].channel].at = "done" /\ req[sess[x].channel].session # None
  /\ \A t \in Task : Resuming(t) => sess[req[t].session].channel # req[t].session

\* An SSH client is held by its start, by the session it became, or by that
\* one's teardown.
ClientsHeld == \A r \in Task :
  /\ cleanup[r].client \in {None, r}
  /\ r \in clients <=> Registered(r) \/ cleanup[r].client = r \/ req[r].at \in Pre

RecordsGone == retired \cap (pendingStart \cup lastFailure) = {}

\* A deletion that is not repeated, with no save that could revive the profile.
OnceDeleted == MaxDeletes <= 1 /\ "save" \notin Kinds

\* Until it erases the profile it holds its only session.
DeletionHolds == OnceDeleted =>
  /\ \A t \in Task : req[t].at \in {"stopdeleted", "erase"} =>
       deletes = 1 /\ req[t].profile \in retired \cap stored
  /\ \A t, u \in Task :
       req[t].at \in {"stopdeleted", "erase"} /\ req[u].at \in {"stopdeleted", "erase"}
         => t = u
  /\ \A t \in Task :
       /\ req[t].at # "revive"
       /\ req[t].at = "stopdeleted" => sessions[req[t].profile] \in {None, req[t].session}
       /\ req[t].at = "erase" => sessions[req[t].profile] = None
  /\ \A p \in Profile \ stored : p \in retired /\ sessions[p] = None

\* Who holds what, and the records it rests on.
Owners ==
  /\ RegistryAgrees /\ SessionsWhole /\ TeardownsIdle /\ NamesNew
  /\ TunnelsHeld /\ ChannelsHeld /\ ChannelsFound /\ ClientsHeld

LifeInv ==
  /\ Types /\ Owners /\ TargetRegistered /\ ReferencesKnown /\ RecordsGone /\ DeletionHolds

-----------------------------------------------------------------------------
(* Types, and what the lookups find.                                        *)

Session  == [profile : Profile \cup {None}, client : Maybe, process : BOOLEAN,
             tunnel : Maybe, channel : Maybe, health : Maybe,
             forwarding : BOOLEAN, ready : BOOLEAN]
Request  == [at : RequestAt, profile : Profile \cup {None}, session : Maybe,
             channel : Maybe, then : RequestAt]
Teardown == [tunnel : Maybe, channel : Maybe, client : Maybe, via : Maybe]
Probe    == [at : HealthAt, session : Maybe]

LEMMA Nil ==
  /\ None \notin Task /\ None \notin Profile
  /\ None \in Maybe /\ Task \subseteq Maybe
  /\ \A s \in Maybe : s # None => s \in Task
  BY LifecycleAssumption DEF Maybe

LEMMA Typed ==
  Types <=>
    /\ sessions \in [Profile -> Maybe] /\ current \in Maybe
    /\ proxyProfile \in Profile \cup {None}
    /\ pendingStart \subseteq Profile /\ lastFailure \subseteq Profile
    /\ retired \subseteq Profile /\ stored \subseteq Profile /\ deletes \in 0..MaxDeletes
    /\ sess \in [Task -> Session] /\ req \in [Task -> Request]
    /\ cleanup \in [Task -> Teardown]
    /\ clients \subseteq Task /\ tunnels \subseteq Task /\ channels \subseteq Task
    /\ bridge \in [Profile -> Maybe]
    /\ health \in [Task -> Probe] /\ watcher \in [Task -> WatcherAt]
  BY DEF Types, Session, Request, Teardown, Probe

LEMMA TypesNext ==
  ASSUME sessions' \in [Profile -> Maybe], current' \in Maybe,
         proxyProfile' \in Profile \cup {None}, pendingStart' \subseteq Profile,
         lastFailure' \subseteq Profile, retired' \subseteq Profile, stored' \subseteq Profile,
         deletes' \in 0..MaxDeletes, sess' \in [Task -> Session], req' \in [Task -> Request],
         cleanup' \in [Task -> Teardown], clients' \subseteq Task, tunnels' \subseteq Task,
         channels' \subseteq Task, bridge' \in [Profile -> Maybe], health' \in [Task -> Probe],
         watcher' \in [Task -> WatcherAt]
  PROVE  Types'
  BY DEF Types, Session, Request, Teardown, Probe

\* A session that was torn down.
LEMMA EmptiedIs ==
  ASSUME NEW s \in Task, sess \in [Task -> Session]
  PROVE  /\ Emptied(s) \in Session /\ Emptied(s).profile = sess[s].profile
         /\ Emptied(s).client = None /\ Emptied(s).tunnel = None /\ Emptied(s).channel = None
         /\ Emptied(s).health = None /\ ~Emptied(s).process
         /\ ~Emptied(s).forwarding /\ ~Emptied(s).ready
<1>1. /\ NoSession \in Session /\ NoSession.client = None /\ NoSession.tunnel = None
      /\ NoSession.channel = None /\ NoSession.health = None /\ ~NoSession.process
      /\ ~NoSession.forwarding /\ ~NoSession.ready
  BY Nil DEF NoSession, Session
<1>2. sess[s].profile \in Profile \cup {None}
  BY DEF Session
<1> QED
  BY <1>1, <1>2 DEF Emptied, Session

\* The fields that matter here.
LEMMA Fields ==
  ASSUME LifeInv
  PROVE  /\ \A x \in Task : /\ sess[x].tunnel \in Maybe /\ sess[x].channel \in Maybe
                            /\ sess[x].client \in Maybe /\ sess[x].forwarding \in BOOLEAN
                            /\ sess[x].profile \in Profile \cup {None}
         /\ \A x \in Task : /\ req[x].at \in RequestAt /\ req[x].then \in RequestAt
                            /\ req[x].profile \in Profile \cup {None}
                            /\ req[x].session \in Maybe /\ req[x].channel \in Maybe
         /\ \A x \in Task : /\ cleanup[x].tunnel \in Maybe /\ cleanup[x].channel \in Maybe
                            /\ cleanup[x].client \in Maybe /\ cleanup[x].via \in Maybe
  BY Typed DEF LifeInv, Session, Request, Teardown

\* The current session is registered, so the lookup finds what the map has.
LEMMA Found ==
  ASSUME LifeInv, NEW p \in Profile
  PROVE  /\ SessionOf(p) = sessions[p]
         /\ sessions[p] # None => /\ sessions[p] \in Task /\ Registered(sessions[p])
                                  /\ sess[sessions[p]].profile = p
<1>1. sessions[p] # None => sessions[p] \in Task /\ sess[sessions[p]].profile = p
  BY Typed, Nil DEF LifeInv, Owners, RegistryAgrees
<1>2. sessions[p] = None => SessionOf(p) = None
  BY DEF SessionOf, LifeInv, TargetRegistered, Registered
<1> QED
  BY <1>1, <1>2 DEF SessionOf, Registered

LEMMA ActiveIs ==
  ASSUME LifeInv, NEW s \in Task, sess[s].profile \in Profile
  PROVE  StillActive(s) <=> Registered(s)
  BY Found DEF StillActive, Registered

-----------------------------------------------------------------------------
(* Steps of a request that touch nothing it holds.                          *)

Calm == {<<"new", "done">>, <<"new", "stopfirst">>, <<"new", "stopdeleted">>,
         <<"new", "revive">>, <<"stopfirst", "check">>, <<"check", "done">>,
         <<"check", "paused">>, <<"paused", "done">>, <<"paused", "dial">>,
         <<"paused", "resume">>, <<"paused", "retunnel">>, <<"resume", "retunnel">>,
         <<"dial", "done">>, <<"async", "channel">>, <<"channel", "portcheck">>,
         <<"portcheck", "commit">>, <<"end", "done">>, <<"stopdeleted", "erase">>,
         <<"erase", "done">>, <<"revive", "done">>}

Moved(t) ==
  /\ req' \in [Task -> Request]
  /\ \A u \in Task : u # t => req'[u] = req[u]
  /\ req'[t].channel = req[t].channel
  /\ <<req[t].at, req'[t].at>> \in Calm

Over(a) == a \in {"end", "done"}

ReqCalm ==
  \A u \in Task :
    /\ req'[u].channel = req[u].channel
    /\ req'[u].at = "install" <=> req[u].at = "install"
    /\ req'[u].at \in Pre <=> req[u].at \in Pre
    /\ req[u].at \in WithChannel => req'[u].at \in WithChannel
    /\ Past(u) => Past(u)'
    /\ Over(req[u].at) => Over(req'[u].at)
    /\ req[u].at = "done" => req'[u].at = "done" /\ req'[u].session = req[u].session
    /\ req'[u].at \notin {"close", "end", "done"} => req[u].at \notin {"close", "end", "done"}
    /\ req'[u].at = "close" => req[u].at = "close" /\ req'[u].then = req[u].then
    /\ Resuming(u)' => /\ req'[u].session \in Task
                       /\ sess[req'[u].session].channel # req'[u].session

LEMMA StaysCalm ==
  ASSUME LifeInv, req' = req
  PROVE  ReqCalm
<1>1. \A u \in Task : Resuming(u) => /\ req[u].session \in Task
                                      /\ sess[req[u].session].channel # req[u].session
  BY DEF LifeInv, Owners, ChannelsFound, ReferencesKnown, Known, Resuming
<1> QED
  BY <1>1 DEF ReqCalm, Past, Resuming

LEMMA MovesCalm ==
  ASSUME LifeInv, NEW t \in Task, Moved(t),
         req'[t].at = "resume" => /\ req'[t].session \in Task
                                  /\ sess[req'[t].session].channel = None
  PROVE  ReqCalm
<1>1. \A u \in Task : Resuming(u) => /\ req[u].session \in Task
                                      /\ sess[req[u].session].channel # req[u].session
  BY DEF LifeInv, Owners, ChannelsFound, ReferencesKnown, Known, Resuming
<1>2. req[t].channel # None => req[t].at \in WithChannel
  BY DEF LifeInv, Owners, ChannelsHeld, RequestChannels
<1>3. /\ req'[t].at # "install" /\ req[t].at # "install"
      /\ req'[t].at \in Pre <=> req[t].at \in Pre
      /\ req[t].at \in WithChannel => req'[t].at \in WithChannel \/ req[t].at = "retunnel"
      /\ req[t].at \notin {"done", "close", "retunnel"} /\ req'[t].at # "close"
      /\ req[t].at = "end" => req'[t].at = "done"
      /\ req'[t].at \notin {"close", "end", "done"} => req[t].at \notin {"close", "end", "done"}
      /\ req'[t].at = "retunnel" => req[t].at \in {"paused", "resume"}
  BY DEF Moved, Calm, Pre, WithChannel
<1>4. Resuming(t)' => /\ req'[t].session \in Task
                      /\ sess[req'[t].session].channel # req'[t].session
  BY <1>2, <1>3, Nil DEF Moved, Resuming, WithChannel
<1>5. Past(t) => Past(t)'
  BY <1>3 DEF Past
<1>6. \A u \in Task : u # t => (Past(u) => Past(u)') /\ (Resuming(u)' => Resuming(u))
  BY DEF Moved, Past, Resuming
<1> QED
  BY <1>1, <1>3, <1>4, <1>5, <1>6 DEF ReqCalm, Moved, Over

\* Nothing the holders are told by has changed in the sessions.
SessCalm ==
  \A x \in Task : /\ sess'[x].profile = sess[x].profile /\ sess'[x].client = sess[x].client
                  /\ sess'[x].tunnel = sess[x].tunnel /\ sess'[x].channel = sess[x].channel
                  /\ sess'[x].forwarding = sess[x].forwarding
                  /\ ~Registered(x) => sess'[x] = sess[x]

\* Each kind of holder stays as it is while its part of the state does.
LEMMA SessionsCalm ==
  ASSUME LifeInv, SessCalm, sessions' = sessions,
         \A x \in Task : NothingToClose(x) => NothingToClose(x)',
         \A u \in Task :
           /\ Over(req[u].at) => Over(req'[u].at)
           /\ req'[u].at \notin {"close", "end", "done"} =>
                req[u].at \notin {"close", "end", "done"} \/ NothingToClose(u)'
           /\ req'[u].at = "close" => req'[u].then \in {"check", "done", "end"}
  PROVE  RegistryAgrees' /\ SessionsWhole' /\ TeardownsIdle'
<1>1. \A x \in Task : Registered(x)' <=> Registered(x)
  BY DEF SessCalm, Registered
<1>2. RegistryAgrees'
  <2>1. \A p \in Profile : sessions'[p] # None => sess'[sessions'[p]].profile = p
    BY Typed, Nil DEF LifeInv, Owners, RegistryAgrees, SessCalm
  <2>2. \A x \in Task : ~Registered(x)' => sess'[x] = Emptied(x)'
    BY <1>1 DEF LifeInv, Owners, RegistryAgrees, SessCalm, Emptied
  <2> QED
    BY <2>1, <2>2 DEF RegistryAgrees
<1>3. SessionsWhole'
  BY <1>1 DEF LifeInv, Owners, SessionsWhole, SessCalm, Over
<1>4. TeardownsIdle'
  BY DEF LifeInv, Owners, TeardownsIdle, SessCalm, Over
<1> QED
  BY <1>2, <1>3, <1>4

LEMMA TunnelsCalm ==
  ASSUME LifeInv, tunnels' = tunnels,
         \A x \in Task : /\ sess'[x].tunnel = sess[x].tunnel
                         /\ cleanup'[x].tunnel = cleanup[x].tunnel
                         /\ req'[x].at = "install" <=> req[x].at = "install"
  PROVE  TunnelsHeld'
<1>1. SessionTunnels'
  BY Fields, Nil DEF LifeInv, Owners, TunnelsHeld, SessionTunnels
<1>2. TeardownTunnels'
  BY Fields, Nil DEF LifeInv, Owners, TunnelsHeld, TeardownTunnels
<1>3. RequestTunnels'
  BY DEF LifeInv, Owners, TunnelsHeld, RequestTunnels
<1>4. \A r \in tunnels : r \in Task
  BY Typed DEF LifeInv
<1>5. OpenTunnels'
  BY <1>4 DEF LifeInv, Owners, TunnelsHeld, OpenTunnels
<1> QED
  BY <1>1, <1>2, <1>3, <1>5 DEF TunnelsHeld

LEMMA ChannelsCalm ==
  ASSUME LifeInv, channels' = channels,
         \A x \in Task : /\ sess'[x].channel = sess[x].channel
                         /\ cleanup'[x].channel = cleanup[x].channel,
         \A u \in Task :
           /\ req'[u].channel = req[u].channel
           /\ req[u].channel # None => req'[u].at \in WithChannel
           /\ req[u].at = "done" => req'[u].at = "done" /\ req'[u].session = req[u].session
           /\ Resuming(u)' => /\ req'[u].session \in Task
                              /\ sess[req'[u].session].channel # req'[u].session
  PROVE  ChannelsHeld' /\ ChannelsFound'
<1>1. SessionChannels'
  BY Fields, Nil DEF LifeInv, Owners, ChannelsHeld, SessionChannels
<1>2. TeardownChannels'
  BY Fields, Nil DEF LifeInv, Owners, ChannelsHeld, TeardownChannels
<1>3. RequestChannels'
  BY DEF LifeInv, Owners, ChannelsHeld, RequestChannels
<1>4. \A r \in channels : r \in Task
  BY Typed DEF LifeInv
<1>5. OpenChannels'
  BY <1>4 DEF LifeInv, Owners, ChannelsHeld, OpenChannels
<1>6. ChannelsFound'
  BY Fields, Nil DEF LifeInv, Owners, ChannelsFound
<1> QED
  BY <1>1, <1>2, <1>3, <1>5, <1>6 DEF ChannelsHeld

LEMMA ClientsCalm ==
  ASSUME LifeInv, clients' = clients,
         \A x \in Task : /\ Registered(x)' <=> Registered(x)
                         /\ cleanup'[x].client = cleanup[x].client
                         /\ req'[x].at \in Pre <=> req[x].at \in Pre
  PROVE  ClientsHeld'
  BY DEF LifeInv, Owners, ClientsHeld

LEMMA NamesCalm ==
  ASSUME LifeInv, tunnels' \subseteq tunnels, channels' \subseteq channels,
         clients' \subseteq clients,
         \A u \in Task :
           /\ Past(u) => Past(u)'
           /\ u \in tunnels' /\ req[u].at = "install" => req'[u].at = "install" \/ Past(u)'
           /\ req[u].at \in WithChannel => req'[u].at \in WithChannel \/ Past(u)'
           /\ req[u].at \in Pre => req'[u].at \in Pre \/ Past(u)'
  PROVE  NamesNew'
  BY DEF LifeInv, Owners, NamesNew

LEMMA CalmOwners ==
  ASSUME LifeInv, ReqCalm, SessCalm,
         UNCHANGED <<sessions, cleanup, clients, tunnels, channels>>
  PROVE  Owners'
<1>1. \A x \in Task : Registered(x)' <=> Registered(x)
  BY DEF SessCalm, Registered
<1>2. \A x \in Task : NothingToClose(x)' <=> NothingToClose(x)
  BY DEF NothingToClose
<1>3. \A u \in Task : req'[u].at = "close" => req'[u].then \in {"check", "done", "end"}
  BY DEF ReqCalm, LifeInv, Owners, TeardownsIdle
<1>4. RegistryAgrees' /\ SessionsWhole' /\ TeardownsIdle'
  BY <1>2, <1>3, SessionsCalm DEF ReqCalm
<1>5. NamesNew'
  BY NamesCalm DEF ReqCalm
<1>6. TunnelsHeld'
  BY TunnelsCalm DEF SessCalm, ReqCalm
<1>7. \A u \in Task : req[u].channel # None => req[u].at \in WithChannel
  BY DEF LifeInv, Owners, ChannelsHeld, RequestChannels
<1>8. ChannelsHeld' /\ ChannelsFound'
  BY <1>7, ChannelsCalm DEF SessCalm, ReqCalm
<1>9. ClientsHeld'
  BY <1>1, ClientsCalm DEF ReqCalm
<1> QED
  BY <1>4, <1>5, <1>6, <1>8, <1>9 DEF Owners

-----------------------------------------------------------------------------
(* What is not about owners.                                                *)

LEMMA TargetStays ==
  ASSUME LifeInv, UNCHANGED <<sessions, current, proxyProfile>>,
         \A x \in Task : sess'[x].profile = sess[x].profile
  PROVE  TargetRegistered'
<1>1. current # None => current \in Task
  BY Typed, Nil DEF LifeInv
<1> QED
  BY <1>1 DEF LifeInv, TargetRegistered, Registered

\* References stay known while request t moves on.
LEMMA ReferencesStay ==
  ASSUME LifeInv, NEW t \in Task,
         \A x \in Task : sess[x].profile \in Profile => sess'[x].profile = sess[x].profile,
         \A u \in Task : u # t => req'[u] = req[u],
         \A h \in Task : health'[h].at # "none" => Known(health'[h].session),
         \A s \in Task : watcher'[s] # "none" => Known(s),
         req'[t].at # "new" => req'[t].profile \in Profile,
         req'[t].at \in {"resume", "retunnel", "install"} => Known(req'[t].session),
         req'[t].at = "stopdeleted" /\ req'[t].session # None => Known(req'[t].session)
  PROVE  ReferencesKnown'
<1>1. \A x : Known(x) => x \in Task /\ sess'[x].profile \in Profile
  BY DEF Known
<1>2. /\ \A h \in Task : health'[h].at # "none" =>
           health'[h].session \in Task /\ sess'[health'[h].session].profile \in Profile
      /\ \A s \in Task : watcher'[s] # "none" => sess'[s].profile \in Profile
  BY <1>1
<1>3. \A u \in Task :
        /\ req[u].at # "new" => req[u].profile \in Profile
        /\ req[u].at \in {"resume", "retunnel", "install"} => Known(req[u].session)
        /\ req[u].at = "stopdeleted" /\ req[u].session # None => Known(req[u].session)
  BY DEF LifeInv, ReferencesKnown
<1>4. \A u \in Task :
        /\ req'[u].at # "new" => req'[u].profile \in Profile
        /\ req'[u].at \in {"resume", "retunnel", "install"} => Known(req'[u].session)
        /\ req'[u].at = "stopdeleted" /\ req'[u].session # None => Known(req'[u].session)
  BY <1>3
<1>5. \A u \in Task :
        /\ req'[u].at \in {"resume", "retunnel", "install"} =>
             req'[u].session \in Task /\ sess'[req'[u].session].profile \in Profile
        /\ req'[u].at = "stopdeleted" /\ req'[u].session # None =>
             req'[u].session \in Task /\ sess'[req'[u].session].profile \in Profile
  BY <1>1, <1>4
<1> QED
  BY <1>2, <1>4, <1>5 DEF ReferencesKnown, Known

\* A deletion under way keeps what it has found; sessions only end.
LEMMA DeletionStays ==
  ASSUME LifeInv, UNCHANGED <<retired, stored, deletes>>,
         \A p \in Profile : sessions'[p] \in {None, sessions[p]},
         \A u \in Task : req'[u].at \in {"stopdeleted", "erase", "revive"} => req'[u] = req[u]
  PROVE  DeletionHolds'
<1>1. \A u \in Task : req'[u].at \in {"stopdeleted", "erase"} => req'[u].profile \in Profile
  BY DEF LifeInv, ReferencesKnown
<1> QED
  BY <1>1 DEF LifeInv, DeletionHolds

\* A step of a request that reads only.
LEMMA QuietKeeps ==
  ASSUME LifeInv, NEW t \in Task, Moved(t),
         UNCHANGED <<sessions, current, proxyProfile, sess, cleanup, open, health, watcher>>,
         req'[t].profile \in Profile,
         req'[t].at = "resume" => sess[req'[t].session].channel = None,
         req'[t].at \in {"resume", "retunnel"} => Known(req'[t].session),
         req'[t].at = "stopdeleted" /\ req'[t].session # None => Known(req'[t].session),
         pendingStart' \subseteq Profile, lastFailure' \subseteq Profile,
         retired' \subseteq Profile, stored' \subseteq Profile, deletes' \in 0..MaxDeletes,
         RecordsGone', DeletionHolds'
  PROVE  LifeInv'
<1>1. ReqCalm
  BY MovesCalm DEF Known
<1>2. SessCalm
  BY DEF SessCalm
<1>3. Owners'
  BY <1>1, <1>2, CalmOwners DEF open
<1>4. Types'
  BY Typed, TypesNext DEF LifeInv, Moved, open
<1>5. TargetRegistered'
  BY TargetStays
<1>6. req'[t].at # "install"
  BY DEF Moved, Calm
<1>7. ReferencesKnown'
  <2>1. /\ \A h \in Task : health'[h].at # "none" => Known(health'[h].session)
        /\ \A s \in Task : watcher'[s] # "none" => Known(s)
    BY DEF LifeInv, ReferencesKnown
  <2> QED
    BY <1>6, <2>1, ReferencesStay DEF Moved
<1> QED
  BY <1>3, <1>4, <1>5, <1>7 DEF LifeInv

\* A request that goes from one place to another, its local variables kept.
LEMMA Goes ==
  ASSUME LifeInv, NEW t \in Task, NEW at \in RequestAt, Go(t, at)
  PROVE  /\ req' \in [Task -> Request] /\ \A u \in Task : u # t => req'[u] = req[u]
         /\ req'[t].at = at /\ req'[t].channel = req[t].channel
         /\ req'[t].profile = req[t].profile /\ req'[t].session = req[t].session
         /\ req'[t].then = req[t].then
<1>1. req \in [Task -> Request]
  BY Typed DEF LifeInv
<1> QED
  BY <1>1 DEF Go, Request

\* The same for a step from a known place.
LEMMA GoesQuietly ==
  ASSUME LifeInv, NEW t \in Task, NEW at \in RequestAt, Go(t, at), <<req[t].at, at>> \in Calm,
         req[t].at # "new",
         at \notin {"stopdeleted", "erase", "revive", "resume", "retunnel"},
         UNCHANGED <<sessions, current, proxyProfile, sess, cleanup, open, health, watcher, store>>,
         pendingStart' \subseteq Profile, lastFailure' \subseteq Profile, RecordsGone'
  PROVE  LifeInv'
<1>1. Moved(t)
  BY Goes DEF Moved
<1>2. /\ req'[t].at = at /\ req'[t].profile = req[t].profile
      /\ \A u \in Task : u # t => req'[u] = req[u]
  BY Goes
<1>4. req'[t].profile \in Profile
  BY <1>2 DEF LifeInv, ReferencesKnown
<1>5. DeletionHolds'
  BY <1>2, DeletionStays DEF store
<1>6. /\ retired' \subseteq Profile /\ stored' \subseteq Profile /\ deletes' \in 0..MaxDeletes
  BY Typed DEF LifeInv, store
<1> QED
  BY <1>1, <1>2, <1>4, <1>5, <1>6, QuietKeeps

-----------------------------------------------------------------------------
(* The requests that only read, or write records.                           *)

LEMMA KeepsDialFails ==
  ASSUME LifeInv, NEW t \in Task, DialFails(t)
  PROVE  LifeInv'
<1>1. <<req[t].at, "done">> \in Calm /\ "done" \in RequestAt
  BY DEF DialFails, Calm, RequestAt
<1>2. RecordsGone' /\ pendingStart' \subseteq Profile /\ lastFailure' \subseteq Profile
  BY Typed DEF DialFails, LifeInv, RecordsGone, server, store
<1> QED
  BY <1>1, <1>2, GoesQuietly DEF DialFails, server

LEMMA KeepsCheck ==
  ASSUME LifeInv, NEW t \in Task, Check(t)
  PROVE  LifeInv'
<1>1. PICK at \in {"done", "paused"} : Go(t, at)
  BY DEF Check
<1>2. <<req[t].at, at>> \in Calm /\ at \in RequestAt
  BY <1>1 DEF Check, Calm, RequestAt
<1>3. RecordsGone' /\ pendingStart' \subseteq Profile /\ lastFailure' \subseteq Profile
  BY Typed DEF Check, LifeInv, RecordsGone, server, store
<1> QED
  BY <1>1, <1>2, <1>3, GoesQuietly DEF Check, server

LEMMA KeepsStartEnds ==
  ASSUME LifeInv, NEW t \in Task, StartEnds(t)
  PROVE  LifeInv'
<1>1. <<req[t].at, "done">> \in Calm /\ "done" \in RequestAt
  BY DEF StartEnds, Calm, RequestAt
<1>2. RecordsGone' /\ pendingStart' \subseteq Profile /\ lastFailure' \subseteq Profile
  BY Typed DEF StartEnds, Unpended, LifeInv, RecordsGone, store
<1> QED
  BY <1>1, <1>2, GoesQuietly DEF StartEnds

\* A new request: its place and its profile.
Begun(t, p, at) == req' = [req EXCEPT ![t].profile = p, ![t].at = at]

LEMMA Begins ==
  ASSUME LifeInv, NEW t \in Task, NEW p \in Profile, NEW at \in RequestAt, Begun(t, p, at)
  PROVE  /\ req' \in [Task -> Request] /\ \A u \in Task : u # t => req'[u] = req[u]
         /\ req'[t].at = at /\ req'[t].profile = p /\ req'[t].channel = req[t].channel
         /\ req'[t].session = req[t].session /\ req'[t].then = req[t].then
<1>1. req \in [Task -> Request]
  BY Typed DEF LifeInv
<1> QED
  BY <1>1 DEF Begun, Request

LEMMA KeepsStartRequest ==
  ASSUME LifeInv, NEW t \in Task, NEW p \in Profile, StartRequest(t, p)
  PROVE  LifeInv'
<1>1. /\ "stopfirst" \in RequestAt /\ <<"new", "stopfirst">> \in Calm
  BY DEF RequestAt, Calm
<1>2. /\ req' \in [Task -> Request] /\ \A u \in Task : u # t => req'[u] = req[u]
      /\ req'[t].at = "stopfirst" /\ req'[t].profile = p /\ req'[t].channel = req[t].channel
  <2>1. Begun(t, p, "stopfirst")
    BY DEF StartRequest, Begun
  <2> QED
    BY <1>1, <2>1, Begins
<1>3. Moved(t)
  BY <1>1, <1>2 DEF Moved, StartRequest
<1>4. DeletionHolds'
  BY <1>2, DeletionStays DEF StartRequest, store, server
<1>5. /\ pendingStart' \subseteq Profile /\ lastFailure' \subseteq Profile
      /\ retired' \subseteq Profile /\ stored' \subseteq Profile /\ deletes' \in 0..MaxDeletes
      /\ RecordsGone'
  BY Typed DEF StartRequest, LifeInv, RecordsGone, store, server
<1> QED
  BY <1>2, <1>3, <1>4, <1>5, QuietKeeps DEF StartRequest, server

LEMMA KeepsPaused ==
  ASSUME LifeInv, NEW t \in Task, Paused(t)
  PROVE  LifeInv'
<1> DEFINE p == req[t].profile
<1> DEFINE s == sessions[p]
<1> DEFINE at == IF s = None THEN "dial" ELSE IF sess[s].forwarding THEN "done"
                 ELSE IF sess[s].channel = None THEN "resume" ELSE "retunnel"
<1>1. p \in Profile
  BY DEF Paused, LifeInv, ReferencesKnown
<1>2. SessionOf(p) = s /\ (s # None => s \in Task /\ Known(s))
  BY <1>1, Found DEF Registered, Known
<1>3. req' = [req EXCEPT ![t].session = s, ![t].at = at]
  BY <1>2 DEF Paused
<1>4. s \in Maybe /\ at \in RequestAt /\ req \in [Task -> Request]
  BY <1>1, Typed DEF LifeInv, RequestAt
<1>5. /\ req' \in [Task -> Request] /\ \A u \in Task : u # t => req'[u] = req[u]
      /\ req'[t].at = at /\ req'[t].profile = p /\ req'[t].channel = req[t].channel
      /\ req'[t].session = s
  <2> HIDE DEF s, at
  <2> QED
    BY <1>3, <1>4 DEF Request
<1>6. Moved(t)
  BY <1>5 DEF Moved, Calm, Paused
<1>7. DeletionHolds'
  BY <1>5, DeletionStays DEF Paused, store, server
<1>8. /\ pendingStart' \subseteq Profile /\ lastFailure' \subseteq Profile
      /\ retired' \subseteq Profile /\ stored' \subseteq Profile /\ deletes' \in 0..MaxDeletes
      /\ RecordsGone'
  BY Typed DEF Paused, LifeInv, RecordsGone, store, server
<1>9. /\ at = "resume" => sess[s].channel = None
      /\ at \in {"resume", "retunnel"} => Known(s)
      /\ at # "stopdeleted"
  BY <1>2
<1> HIDE DEF s, at
<1> QED
  BY <1>1, <1>5, <1>6, <1>7, <1>8, <1>9, QuietKeeps DEF Paused, server

LEMMA KeepsDelete ==
  ASSUME LifeInv, NEW t \in Task, NEW p \in Profile, Delete(t, p)
  PROVE  LifeInv'
<1> DEFINE s == sessions[p]
<1>1. SessionOf(p) = s /\ (s # None => s \in Task /\ Known(s)) /\ s \in Maybe
  BY Found, Typed DEF LifeInv, Registered, Known
<1>2. /\ req' \in [Task -> Request] /\ \A u \in Task : u # t => req'[u] = req[u]
      /\ req'[t].at = "stopdeleted" /\ req'[t].profile = p /\ req'[t].session = s
      /\ req'[t].channel = req[t].channel
  <2>1. req' = [req EXCEPT ![t].profile = p, ![t].session = s, ![t].at = "stopdeleted"]
    BY <1>1 DEF Delete
  <2>2. req \in [Task -> Request] /\ "stopdeleted" \in RequestAt
    BY Typed DEF LifeInv, RequestAt
  <2> HIDE DEF s
  <2> QED
    BY <1>1, <2>1, <2>2 DEF Request
<1>3. Moved(t)
  BY <1>2 DEF Moved, Delete, Calm
<1>4. /\ retired' = retired \cup {p} /\ stored' = stored /\ deletes' = deletes + 1
      /\ sessions' = sessions /\ p \in stored /\ deletes < MaxDeletes
      /\ MaxDeletes \in Nat /\ deletes \in 0..MaxDeletes
  BY Typed, LifecycleAssumption DEF Delete, Retired, LifeInv
<1>5. DeletionHolds'
  <2> SUFFICES ASSUME OnceDeleted
               PROVE  DeletionHolds'
    BY DEF DeletionHolds, OnceDeleted
  <2>1. deletes = 0 /\ deletes' = 1
    BY <1>4 DEF OnceDeleted
  <2>2. \A u \in Task : req[u].at \notin {"stopdeleted", "erase"}
    BY <2>1 DEF LifeInv, DeletionHolds
  <2>3. \A u \in Task : req'[u].at # "revive"
    BY <1>2 DEF LifeInv, DeletionHolds
  <2>4. \A q \in Profile \ stored' : q \in retired' /\ sessions'[q] = None
    BY <1>4 DEF LifeInv, DeletionHolds
  <2>5. \A u \in Task : req'[u].at \in {"stopdeleted", "erase"} => u = t
    BY <1>2, <2>2
  <2> HIDE DEF s
  <2>6. p \in retired' \cap stored' /\ sessions'[p] = s
    BY <1>4 DEF s
  <2> QED
    BY <1>2, <2>1, <2>3, <2>4, <2>5, <2>6 DEF DeletionHolds
<1>6. /\ pendingStart' \subseteq Profile /\ lastFailure' \subseteq Profile
      /\ retired' \subseteq Profile /\ stored' \subseteq Profile /\ deletes' \in 0..MaxDeletes
      /\ RecordsGone'
  <2>1. pendingStart' = pendingStart \ {p} /\ lastFailure' = lastFailure \ {p}
    BY DEF Delete
  <2> QED
    BY <1>4, <2>1, Typed DEF LifeInv, RecordsGone
<1> HIDE DEF s
<1> QED
  BY <1>1, <1>2, <1>3, <1>5, <1>6, QuietKeeps DEF Delete

LEMMA KeepsErase ==
  ASSUME LifeInv, NEW t \in Task, Erase(t)
  PROVE  LifeInv'
<1> DEFINE p == req[t].profile
<1>1. p \in Profile
  BY DEF Erase, LifeInv, ReferencesKnown
<1>2. "done" \in RequestAt
  BY DEF RequestAt
<1>3. /\ req' \in [Task -> Request] /\ \A u \in Task : u # t => req'[u] = req[u]
      /\ req'[t].at = "done" /\ req'[t].profile = p /\ req'[t].channel = req[t].channel
  BY <1>2, Goes DEF Erase
<1>4. Moved(t)
  BY <1>3 DEF Moved, Erase, Calm
<1>5. \/ p \in stored /\ stored' = stored \ {p} /\ retired' = retired
      \/ retired' = retired \ {p} /\ stored' = stored
  BY DEF Erase
<1>6. DeletionHolds'
  <2> SUFFICES ASSUME OnceDeleted
               PROVE  DeletionHolds'
    BY DEF DeletionHolds, OnceDeleted
  <2>1. p \in retired \cap stored /\ sessions[p] = None
    BY DEF LifeInv, DeletionHolds, Erase
  <2>2. \A u \in Task : req'[u].at \notin {"stopdeleted", "erase", "revive"}
    BY <1>3 DEF LifeInv, DeletionHolds, Erase
  <2>3. \A q \in Profile \ stored' : q \in retired' /\ sessions'[q] = None
    BY <1>5, <2>1 DEF LifeInv, DeletionHolds, Erase, server
  <2> QED
    BY <2>2, <2>3 DEF DeletionHolds
<1>7. /\ pendingStart' \subseteq Profile /\ lastFailure' \subseteq Profile
      /\ retired' \subseteq Profile /\ stored' \subseteq Profile /\ deletes' \in 0..MaxDeletes
      /\ RecordsGone'
  BY <1>5, Typed DEF Erase, server, LifeInv, RecordsGone
<1> HIDE DEF p
<1> QED
  BY <1>1, <1>3, <1>4, <1>6, <1>7, QuietKeeps DEF Erase, server

LEMMA KeepsSave ==
  ASSUME LifeInv, NEW t \in Task, NEW p \in Profile, Save(t, p)
  PROVE  LifeInv'
<1>1. /\ "revive" \in RequestAt /\ Begun(t, p, "revive")
  BY DEF RequestAt, Begun, Save
<1>2. /\ req' \in [Task -> Request] /\ \A u \in Task : u # t => req'[u] = req[u]
      /\ req'[t].at = "revive" /\ req'[t].profile = p /\ req'[t].channel = req[t].channel
  BY <1>1, Begins
<1>3. Moved(t)
  BY <1>2 DEF Moved, Calm, Save
<1>4. DeletionHolds'
  BY DEF DeletionHolds, OnceDeleted, Save
<1>5. /\ pendingStart' \subseteq Profile /\ lastFailure' \subseteq Profile
      /\ retired' \subseteq Profile /\ stored' \subseteq Profile /\ deletes' \in 0..MaxDeletes
      /\ RecordsGone'
  BY Typed DEF Save, LifeInv, RecordsGone, server
<1> QED
  BY <1>2, <1>3, <1>4, <1>5, QuietKeeps DEF Save, server

LEMMA KeepsRevive ==
  ASSUME LifeInv, NEW t \in Task, Revive(t)
  PROVE  LifeInv'
<1>1. "done" \in RequestAt
  BY DEF RequestAt
<1>2. /\ req' \in [Task -> Request] /\ \A u \in Task : u # t => req'[u] = req[u]
      /\ req'[t].at = "done" /\ req'[t].profile = req[t].profile
      /\ req'[t].channel = req[t].channel
  BY <1>1, Goes DEF Revive
<1>3. Moved(t)
  BY <1>2 DEF Moved, Calm, Revive
<1>4. req'[t].profile \in Profile
  BY <1>2 DEF Revive, LifeInv, ReferencesKnown
<1>5. DeletionHolds'
  BY DEF LifeInv, DeletionHolds, OnceDeleted, Revive
<1>6. /\ pendingStart' \subseteq Profile /\ lastFailure' \subseteq Profile
      /\ retired' \subseteq Profile /\ stored' \subseteq Profile /\ deletes' \in 0..MaxDeletes
      /\ RecordsGone'
  BY Typed DEF Revive, LifeInv, RecordsGone, server
<1> QED
  BY <1>2, <1>3, <1>4, <1>5, <1>6, QuietKeeps DEF Revive, server

LEMMA KeepsActivate ==
  ASSUME LifeInv, NEW t \in Task, NEW p \in Profile, Activate(t, p)
  PROVE  LifeInv'
<1> DEFINE s == sessions[p]
<1>1. SessionOf(p) = s /\ s # None /\ s \in Task /\ Registered(s) /\ sess[s].profile = p
  BY Found DEF Activate
<1>2. /\ "done" \in RequestAt /\ Begun(t, p, "done")
  BY DEF RequestAt, Begun, Activate
<1>3. /\ req' \in [Task -> Request] /\ \A u \in Task : u # t => req'[u] = req[u]
      /\ req'[t].at = "done" /\ req'[t].profile = p /\ req'[t].channel = req[t].channel
  BY <1>2, Begins
<1>4. Moved(t)
  BY <1>3 DEF Moved, Calm, Activate
<1>5. current' = s /\ proxyProfile' = p
  BY <1>1 DEF Activate, Promote
<1>6. Owners'
  <2>1. ReqCalm
    BY <1>3, <1>4, MovesCalm
  <2>2. SessCalm
    BY DEF SessCalm, Activate
  <2> QED
    BY <2>1, <2>2, CalmOwners DEF Activate, open
<1>7. Types'
  BY <1>1, <1>3, <1>5, Typed, TypesNext, Nil DEF LifeInv, Activate, open, store
<1>8. TargetRegistered'
  <2>1. sess' = sess /\ sessions' = sessions
    BY DEF Activate
  <2> QED
    BY <1>1, <1>5, <2>1, Nil DEF TargetRegistered, Registered
<1>9. ReferencesKnown'
  <2>1. /\ \A h \in Task : health'[h].at # "none" => Known(health'[h].session)
        /\ \A x \in Task : watcher'[x] # "none" => Known(x)
    BY DEF LifeInv, ReferencesKnown, Activate
  <2> QED
    BY <1>3, <2>1, ReferencesStay DEF Activate
<1>10. RecordsGone' /\ DeletionHolds'
  BY <1>3, DeletionStays DEF LifeInv, RecordsGone, Activate, store
<1> QED
  BY <1>6, <1>7, <1>8, <1>9, <1>10 DEF LifeInv

-----------------------------------------------------------------------------
(* Health checks and watchers that leave the session where it is.           *)

LEMMA ObservedKeeps ==
  ASSUME LifeInv, NEW t \in Task, SessCalm,
         UNCHANGED <<req, sessions, current, proxyProfile, cleanup, open, store, pendingStart>>,
         sess' \in [Task -> Session], health' \in [Task -> Probe],
         watcher' \in [Task -> WatcherAt],
         lastFailure' \subseteq lastFailure \cup (Profile \ retired),
         \A h \in Task : health'[h].at # "none" =>
            health[h].at # "none" /\ health'[h].session = health[h].session,
         \A s \in Task : watcher'[s] # "none" => watcher[s] # "none"
  PROVE  LifeInv'
<1>1. Owners'
  BY StaysCalm, CalmOwners DEF open
<1>2. Types'
  BY Typed, TypesNext DEF LifeInv, open, store
<1>3. TargetRegistered'
  BY TargetStays DEF SessCalm
<1>4. ReferencesKnown'
  <2>1. /\ \A h \in Task : health'[h].at # "none" => Known(health'[h].session)
        /\ \A x \in Task : watcher'[x] # "none" => Known(x)
    BY DEF LifeInv, ReferencesKnown
  <2>2. /\ req[t].at # "new" => req[t].profile \in Profile
        /\ req[t].at \in {"resume", "retunnel", "install"} => Known(req[t].session)
        /\ req[t].at = "stopdeleted" /\ req[t].session # None => Known(req[t].session)
    BY DEF LifeInv, ReferencesKnown
  <2> QED
    BY <2>1, <2>2, ReferencesStay DEF SessCalm
<1>5. RecordsGone' /\ DeletionHolds'
  BY DeletionStays DEF LifeInv, RecordsGone, store
<1> QED
  BY <1>1, <1>2, <1>3, <1>4, <1>5 DEF LifeInv

LEMMA KeepsHealthAnswers ==
  ASSUME LifeInv, NEW h \in Task, HealthAnswers(h)
  PROVE  LifeInv'
<1>1. PICK at \in {"ok", "failed"} : health' = [health EXCEPT ![h].at = at]
  BY DEF HealthAnswers
<1>2. health \in [Task -> Probe] /\ at \in HealthAt
  BY Typed DEF LifeInv, HealthAt
<1>3. /\ health' \in [Task -> Probe]
      /\ \A x \in Task : /\ health'[x].session = health[x].session
                         /\ x # h => health'[x] = health[x]
  BY <1>1, <1>2 DEF Probe
<1>4. SessCalm
  BY DEF SessCalm, HealthAnswers
<1>5. sess' \in [Task -> Session] /\ watcher' \in [Task -> WatcherAt]
  BY Typed DEF LifeInv, HealthAnswers
<1> QED
  BY <1>3, <1>4, <1>5, ObservedKeeps DEF HealthAnswers, server

LEMMA KeepsMarkReady ==
  ASSUME LifeInv, NEW h \in Task, MarkReady(h)
  PROVE  LifeInv'
<1> DEFINE s == health[h].session
<1>1. Known(s)
  BY DEF MarkReady, LifeInv, ReferencesKnown
<1>2. /\ health' = [health EXCEPT ![h].at = "ready"] /\ health \in [Task -> Probe]
      /\ "ready" \in HealthAt
  BY Typed DEF LifeInv, MarkReady, HealthAt
<1>3. /\ health' \in [Task -> Probe]
      /\ \A x \in Task : /\ health'[x].session = health[x].session
                         /\ x # h => health'[x] = health[x]
  BY <1>2 DEF Probe
<1>4. SessCalm /\ sess' \in [Task -> Session]
  <2>1. sess \in [Task -> Session]
    BY Typed DEF LifeInv
  <2>2. CASE sess' = sess
    BY <2>1, <2>2 DEF SessCalm
  <2>3. CASE StillActive(s) /\ sess' = [sess EXCEPT ![s].ready = TRUE]
    <3>1. s \in Task /\ Registered(s)
      BY <1>1, <2>3, ActiveIs DEF Known
    <3> HIDE DEF s
    <3> QED
      BY <2>1, <2>3, <3>1 DEF SessCalm, Session
  <2> QED
    BY <2>2, <2>3 DEF MarkReady
<1>5. lastFailure' \subseteq lastFailure \cup (Profile \ retired)
  BY DEF MarkReady
<1>6. watcher' \in [Task -> WatcherAt]
  BY Typed DEF LifeInv, MarkReady
<1>7. health[h].at # "none"
  BY DEF MarkReady
<1> QED
  BY <1>3, <1>4, <1>5, <1>6, <1>7, ObservedKeeps DEF MarkReady

LEMMA KeepsWatcherStarts ==
  ASSUME LifeInv, NEW s \in Task, WatcherStarts(s)
  PROVE  LifeInv'
<1>1. watcher' \in [Task -> WatcherAt] /\ \A x \in Task : x # s => watcher'[x] = watcher[x]
  BY Typed DEF LifeInv, WatcherStarts, WatcherAt
<1>2. SessCalm
  BY DEF SessCalm, WatcherStarts
<1>3. sess' \in [Task -> Session] /\ health' \in [Task -> Probe] /\ watcher[s] # "none"
  BY Typed DEF LifeInv, WatcherStarts
<1> QED
  BY <1>1, <1>2, <1>3, ObservedKeeps DEF WatcherStarts, server

LEMMA KeepsCommandExits ==
  ASSUME LifeInv, NEW s \in Task, CommandExits(s)
  PROVE  LifeInv'
<1>1. watcher' \in [Task -> WatcherAt] /\ \A x \in Task : x # s => watcher'[x] = watcher[x]
  BY Typed DEF LifeInv, CommandExits, WatcherAt
<1>2. /\ sess \in [Task -> Session] /\ sess' = [sess EXCEPT ![s].process = FALSE]
      /\ health' \in [Task -> Probe] /\ watcher[s] # "none"
  BY Typed DEF LifeInv, CommandExits
<1>3. /\ sess' \in [Task -> Session]
      /\ \A x \in Task : x # s => sess'[x] = sess[x]
      /\ sess'[s] = [sess[s] EXCEPT !.process = FALSE]
  BY <1>2 DEF Session
<1>4. ~Registered(s) => sess'[s] = sess[s]
  <2> SUFFICES ASSUME ~Registered(s)
               PROVE  sess'[s] = sess[s]
    OBVIOUS
  <2>1. ~sess[s].process /\ sess[s] \in Session
    BY <1>2, EmptiedIs DEF LifeInv, Owners, RegistryAgrees
  <2> QED
    BY <1>3, <2>1 DEF Session
<1>5. SessCalm
  BY <1>2, <1>3, <1>4 DEF SessCalm, Session
<1> QED
  BY <1>1, <1>2, <1>3, <1>5, ObservedKeeps DEF CommandExits, server

-----------------------------------------------------------------------------
(* The end of a teardown.                                                   *)

LEMMA ClosingKeeps ==
  ASSUME LifeInv, NEW o \in Task, Owners',
         UNCHANGED <<server, store, sess, req, health, watcher>>,
         cleanup' \in [Task -> Teardown], clients' \subseteq Task, tunnels' \subseteq Task,
         channels' \subseteq Task, bridge' \in [Profile -> Maybe]
  PROVE  LifeInv'
<1>1. Types'
  BY Typed, TypesNext DEF LifeInv, server, store
<1>2. TargetRegistered'
  BY TargetStays DEF server
<1>3. ReferencesKnown'
  BY DEF LifeInv, ReferencesKnown, Known
<1>4. RecordsGone' /\ DeletionHolds'
  BY DeletionStays DEF LifeInv, RecordsGone, store, server
<1> QED
  BY <1>1, <1>2, <1>3, <1>4 DEF LifeInv

\* A teardown that has closed something, and the sessions it does not touch.
LEMMA ClosingSessions ==
  ASSUME LifeInv, UNCHANGED <<server, sess, req>>,
         \A x \in Task : NothingToClose(x) => NothingToClose(x)'
  PROVE  RegistryAgrees' /\ SessionsWhole' /\ TeardownsIdle'
<1>1. SessCalm
  BY DEF SessCalm
<1>2. \A u \in Task : req'[u].at = "close" => req'[u].then \in {"check", "done", "end"}
  BY DEF LifeInv, Owners, TeardownsIdle
<1> QED
  BY <1>1, <1>2, SessionsCalm DEF server

LEMMA KeepsCloseTunnel ==
  ASSUME LifeInv, NEW o \in Task, CloseTunnel(o)
  PROVE  LifeInv'
<1> DEFINE c == cleanup[o].tunnel
<1>1. /\ c # None /\ c \in Task /\ c \in Maybe /\ tunnels' = tunnels \ {c}
      /\ UNCHANGED <<server, store, sess, req, clients, channels, bridge, health, watcher>>
  BY Fields, Nil DEF CloseTunnel
<1>2. /\ cleanup' \in [Task -> Teardown]
      /\ \A x \in Task : x # o => cleanup'[x] = cleanup[x]
      /\ cleanup'[o].tunnel = None /\ cleanup'[o].channel = cleanup[o].channel
      /\ cleanup'[o].client = cleanup[o].client
  <2>1. cleanup \in [Task -> Teardown] /\ cleanup' = [cleanup EXCEPT ![o].tunnel = None]
    BY Typed DEF LifeInv, CloseTunnel
  <2> QED
    BY <2>1, Nil DEF Teardown
<1>3. RegistryAgrees' /\ SessionsWhole' /\ TeardownsIdle'
  BY <1>1, <1>2, ClosingSessions DEF NothingToClose
<1>4. ReqCalm
  BY <1>1, StaysCalm
<1>5. NamesNew'
  BY <1>1, <1>4, NamesCalm DEF ReqCalm
<1>6. /\ \A x \in Task : sess[x].tunnel # c
      /\ \A x \in Task : x # o => cleanup[x].tunnel # c
      /\ req[c].at # "install"
  BY <1>1 DEF LifeInv, Owners, TunnelsHeld, SessionTunnels, TeardownTunnels
<1>7. TunnelsHeld'
  <2>1. SessionTunnels'
    BY <1>1, <1>2, <1>6, Nil DEF LifeInv, Owners, TunnelsHeld, SessionTunnels
  <2>2. TeardownTunnels'
    BY <1>1, <1>2, <1>6, Nil DEF LifeInv, Owners, TunnelsHeld, TeardownTunnels
  <2>3. RequestTunnels'
    BY <1>1, <1>6 DEF LifeInv, Owners, TunnelsHeld, RequestTunnels
  <2>4. OpenTunnels'
    BY <1>1, <1>2 DEF LifeInv, Owners, TunnelsHeld, OpenTunnels
  <2> QED
    BY <2>1, <2>2, <2>3, <2>4 DEF TunnelsHeld
<1>8. \A u \in Task : req[u].channel # None => req[u].at \in WithChannel
  BY DEF LifeInv, Owners, ChannelsHeld, RequestChannels
<1>9. ChannelsHeld' /\ ChannelsFound'
  BY <1>1, <1>2, <1>4, <1>8, ChannelsCalm DEF ReqCalm
<1>10. ClientsHeld'
  BY <1>1, <1>2, ClientsCalm DEF Registered, server
<1>11. Owners'
  BY <1>3, <1>5, <1>7, <1>9, <1>10 DEF Owners
<1>12. clients' \subseteq Task /\ tunnels' \subseteq Task /\ channels' \subseteq Task
       /\ bridge' \in [Profile -> Maybe]
  BY <1>1, Typed DEF LifeInv
<1> HIDE DEF c
<1> QED
  BY <1>1, <1>2, <1>11, <1>12, ClosingKeeps

LEMMA KeepsCloseChannel ==
  ASSUME LifeInv, NEW o \in Task, CloseChannel(o)
  PROVE  LifeInv'
<1> DEFINE c == cleanup[o].channel
<1>1. /\ c # None /\ c \in Task /\ c \in Maybe /\ channels' = channels \ {c}
      /\ UNCHANGED <<server, store, sess, req, clients, tunnels, health, watcher>>
  BY Fields, Nil DEF CloseChannel
<1>2. /\ cleanup' \in [Task -> Teardown]
      /\ \A x \in Task : x # o => cleanup'[x] = cleanup[x]
      /\ cleanup'[o].channel = None /\ cleanup'[o].tunnel = cleanup[o].tunnel
      /\ cleanup'[o].client = cleanup[o].client
  <2>1. cleanup \in [Task -> Teardown] /\ cleanup' = [cleanup EXCEPT ![o].channel = None]
    BY Typed DEF LifeInv, CloseChannel
  <2> QED
    BY <2>1, Nil DEF Teardown
<1>3. RegistryAgrees' /\ SessionsWhole' /\ TeardownsIdle'
  BY <1>1, <1>2, ClosingSessions DEF NothingToClose
<1>4. ReqCalm
  BY <1>1, StaysCalm
<1>5. NamesNew'
  BY <1>1, <1>4, NamesCalm DEF ReqCalm
<1>6. TunnelsHeld'
  BY <1>1, <1>2, TunnelsCalm
<1>7. /\ \A x \in Task : sess[x].channel # c
      /\ \A x \in Task : x # o => cleanup[x].channel # c
      /\ req[c].channel = None
  BY <1>1 DEF LifeInv, Owners, ChannelsHeld, SessionChannels, TeardownChannels
<1>8. ChannelsHeld'
  <2>1. SessionChannels'
    BY <1>1, <1>2, <1>7, Nil DEF LifeInv, Owners, ChannelsHeld, SessionChannels
  <2>2. TeardownChannels'
    BY <1>1, <1>2, <1>7, Nil DEF LifeInv, Owners, ChannelsHeld, TeardownChannels
  <2>3. RequestChannels'
    BY <1>1, <1>7 DEF LifeInv, Owners, ChannelsHeld, RequestChannels
  <2>4. OpenChannels'
    BY <1>1, <1>2 DEF LifeInv, Owners, ChannelsHeld, OpenChannels
  <2> QED
    BY <2>1, <2>2, <2>3, <2>4 DEF ChannelsHeld
<1>9. ChannelsFound'
  BY <1>1 DEF LifeInv, Owners, ChannelsFound, Resuming
<1>10. ClientsHeld'
  BY <1>1, <1>2, ClientsCalm DEF Registered, server
<1>11. Owners'
  BY <1>3, <1>5, <1>6, <1>8, <1>9, <1>10 DEF Owners
<1>12. clients' \subseteq Task /\ tunnels' \subseteq Task /\ channels' \subseteq Task
  BY <1>1, Typed DEF LifeInv
<1>13. bridge' \in [Profile -> Maybe]
  BY Typed, Nil DEF LifeInv, CloseChannel
<1> HIDE DEF c
<1> QED
  BY <1>1, <1>2, <1>11, <1>12, <1>13, ClosingKeeps

LEMMA KeepsCloseClient ==
  ASSUME LifeInv, NEW o \in Task, CloseClient(o)
  PROVE  LifeInv'
<1>1. cleanup[o].client = o
  BY DEF CloseClient, LifeInv, Owners, ClientsHeld
<1>2. /\ clients' = clients \ {o}
      /\ UNCHANGED <<server, store, sess, req, tunnels, channels, bridge, health, watcher>>
  BY <1>1 DEF CloseClient, DropClient
<1>3. /\ cleanup' \in [Task -> Teardown]
      /\ \A x \in Task : x # o => cleanup'[x] = cleanup[x]
      /\ cleanup'[o].client = None /\ cleanup'[o].tunnel = cleanup[o].tunnel
      /\ cleanup'[o].channel = cleanup[o].channel
  <2>1. cleanup \in [Task -> Teardown] /\ cleanup' = [cleanup EXCEPT ![o].client = None]
    BY Typed DEF LifeInv, CloseClient
  <2> QED
    BY <2>1, Nil DEF Teardown
<1>4. RegistryAgrees' /\ SessionsWhole' /\ TeardownsIdle'
  BY <1>2, <1>3, ClosingSessions DEF NothingToClose
<1>5. ReqCalm
  BY <1>2, StaysCalm
<1>6. NamesNew'
  BY <1>2, <1>5, NamesCalm DEF ReqCalm
<1>7. TunnelsHeld'
  BY <1>2, <1>3, TunnelsCalm
<1>8. \A u \in Task : req[u].channel # None => req[u].at \in WithChannel
  BY DEF LifeInv, Owners, ChannelsHeld, RequestChannels
<1>9. ChannelsHeld' /\ ChannelsFound'
  BY <1>2, <1>3, <1>5, <1>8, ChannelsCalm DEF ReqCalm
<1>10. ClientsHeld'
  <2>1. ~NothingToClose(o)
    BY <1>1, Nil DEF NothingToClose
  <2>2. ~Registered(o) /\ req[o].at \notin Pre
    BY <2>1 DEF LifeInv, Owners, SessionsWhole, TeardownsIdle, Pre
  <2>3. \A x \in Task : Registered(x)' <=> Registered(x)
    BY <1>2 DEF Registered, server
  <2> QED
    BY <1>2, <1>3, <2>2, <2>3, Nil DEF LifeInv, Owners, ClientsHeld
<1>11. Owners'
  BY <1>4, <1>6, <1>7, <1>9, <1>10 DEF Owners
<1>12. clients' \subseteq Task /\ tunnels' \subseteq Task /\ channels' \subseteq Task
       /\ bridge' \in [Profile -> Maybe]
  BY <1>2, Typed DEF LifeInv
<1> QED
  BY <1>2, <1>3, <1>11, <1>12, ClosingKeeps

LEMMA KeepsClosed ==
  ASSUME LifeInv, NEW t \in Task, Closed(t)
  PROVE  LifeInv'
<1>1. /\ req[t].at = "close" /\ req[t].then \in {"check", "done", "end"} /\ NothingToClose(t)
      /\ req[t].then \in RequestAt
      /\ UNCHANGED <<server, store, sess, open, health, watcher>>
  BY Fields DEF Closed, Closing, NothingToClose, LifeInv, Owners, TeardownsIdle
<1>2. /\ req' \in [Task -> Request] /\ \A u \in Task : u # t => req'[u] = req[u]
      /\ req'[t].at = req[t].then /\ req'[t].channel = req[t].channel
      /\ req'[t].profile = req[t].profile /\ req'[t].session = req[t].session
  <2>1. Go(t, req[t].then)
    BY DEF Closed
  <2> QED
    BY <1>1, <2>1, Goes
<1>3. /\ cleanup' \in [Task -> Teardown]
      /\ \A x \in Task : /\ cleanup'[x].tunnel = cleanup[x].tunnel
                         /\ cleanup'[x].channel = cleanup[x].channel
                         /\ cleanup'[x].client = cleanup[x].client
  <2>1. cleanup \in [Task -> Teardown] /\ cleanup' = [cleanup EXCEPT ![t] = Nothing]
    BY Typed DEF LifeInv, Closed
  <2>2. /\ Nothing \in Teardown /\ Nothing.tunnel = None /\ Nothing.channel = None
        /\ Nothing.client = None
    BY Nil DEF Nothing, Teardown
  <2> QED
    BY <1>1, <2>1, <2>2 DEF NothingToClose
<1>4. SessCalm
  BY <1>1 DEF SessCalm
<1>5. \A x \in Task : NothingToClose(x) => NothingToClose(x)'
  BY <1>3 DEF NothingToClose
<1>6. \A u \in Task :
        /\ Over(req[u].at) => Over(req'[u].at)
        /\ req'[u].at \notin {"close", "end", "done"} =>
             req[u].at \notin {"close", "end", "done"} \/ NothingToClose(u)'
        /\ req'[u].at = "close" => req'[u].then \in {"check", "done", "end"}
  BY <1>1, <1>2, <1>5 DEF Over, LifeInv, Owners, TeardownsIdle
<1>7. RegistryAgrees' /\ SessionsWhole' /\ TeardownsIdle'
  BY <1>1, <1>4, <1>5, <1>6, SessionsCalm DEF server
<1>8. /\ req'[t].at \notin {"install", "new", "resume", "retunnel", "stopdeleted", "erase",
                           "revive"}
      /\ req'[t].at \notin Pre \cup WithChannel
      /\ Past(t) => Past(t)'
      /\ req[t].at \notin {"install", "done", "new"} \cup Pre \cup WithChannel
  BY <1>1, <1>2 DEF Past, Pre, WithChannel
<1>9. TunnelsHeld'
  <2>1. \A x \in Task : req'[x].at = "install" <=> req[x].at = "install"
    BY <1>2, <1>8
  <2> QED
    BY <1>1, <1>3, <2>1, TunnelsCalm DEF open
<1>10. NamesNew'
  BY <1>1, <1>2, <1>8, NamesCalm DEF open, Past
<1>11. ChannelsHeld' /\ ChannelsFound'
  <2>1. \A u \in Task : /\ req[u].channel # None => req[u].at \in WithChannel
                        /\ Resuming(u) => /\ req[u].session \in Task
                                          /\ sess[req[u].session].channel # req[u].session
    BY DEF LifeInv, Owners, ChannelsHeld, RequestChannels, ChannelsFound, ReferencesKnown,
      Known, Resuming
  <2>2. \A u \in Task :
          /\ req'[u].channel = req[u].channel
          /\ req[u].channel # None => req'[u].at \in WithChannel
          /\ req[u].at = "done" => req'[u].at = "done" /\ req'[u].session = req[u].session
          /\ Resuming(u)' => /\ req'[u].session \in Task
                             /\ sess[req'[u].session].channel # req'[u].session
    BY <1>2, <1>8, <2>1 DEF Resuming
  <2> QED
    BY <1>1, <1>3, <2>2, ChannelsCalm DEF open
<1>12. ClientsHeld'
  <2>1. \A x \in Task : /\ Registered(x)' <=> Registered(x)
                        /\ req'[x].at \in Pre <=> req[x].at \in Pre
    BY <1>1, <1>2, <1>8 DEF Registered, server
  <2> QED
    BY <1>1, <1>3, <2>1, ClientsCalm DEF open
<1>13. Types'
  BY <1>1, <1>2, <1>3, Typed, TypesNext DEF LifeInv, server, store, open
<1>14. TargetRegistered'
  BY <1>1, TargetStays DEF server
<1>15. ReferencesKnown'
  <2>1. /\ \A h \in Task : health'[h].at # "none" => Known(health'[h].session)
        /\ \A x \in Task : watcher'[x] # "none" => Known(x)
    BY <1>1 DEF LifeInv, ReferencesKnown
  <2>2. req[t].profile \in Profile
    BY <1>1 DEF LifeInv, ReferencesKnown
  <2> QED
    BY <1>1, <1>2, <1>8, <2>1, <2>2, ReferencesStay
<1>16. RecordsGone' /\ DeletionHolds'
  BY <1>1, <1>2, <1>8, DeletionStays DEF LifeInv, RecordsGone, store, server
<1> QED
  BY <1>7, <1>9, <1>10, <1>11, <1>12, <1>13, <1>14, <1>15, <1>16 DEF LifeInv, Owners

-----------------------------------------------------------------------------
(* Pause.                                                                   *)

\* Cancelling a health check leaves it the check of its session.
LEMMA Cancels ==
  ASSUME LifeInv, NEW h, NEW over, Cancel(h, over)
  PROVE  /\ health' \in [Task -> Probe]
         /\ \A x \in Task : /\ health'[x].session = health[x].session
                            /\ x # over /\ health'[x].at # "none" => health[x].at # "none"
<1>1. health \in [Task -> Probe] /\ {"over", "cancelled"} \subseteq HealthAt
  BY Typed DEF LifeInv, HealthAt
<1>2. health' = [x \in Task |->
        CASE x = over -> [health[x] EXCEPT !.at = "over"]
          [] x = h /\ x # over /\ health[x].at = "waiting" -> [health[x] EXCEPT !.at = "cancelled"]
          [] OTHER -> health[x]]
  BY DEF Cancel
<1>3. \A x \in Task :
        /\ health'[x] \in Probe /\ health'[x].session = health[x].session
        /\ x # over /\ health'[x].at # "none" => health[x].at # "none"
  <2> TAKE x \in Task
  <2>1. CASE x = over
    BY <1>1, <1>2, <2>1 DEF Probe
  <2>2. CASE x # over /\ x = h /\ health[x].at = "waiting"
    <3>1. health'[x] = [health[x] EXCEPT !.at = "cancelled"]
      BY <1>2, <2>2
    <3> QED
      BY <1>1, <2>2, <3>1 DEF Probe
  <2>3. CASE x # over /\ ~(x = h /\ health[x].at = "waiting")
    BY <1>1, <1>2, <2>3
  <2> QED
    BY <2>1, <2>2, <2>3
<1> QED
  BY <1>2, <1>3

LEMMA PauseOwners ==
  ASSUME LifeInv, NEW t \in Task, NEW s \in Task, Registered(s), sess[s].tunnel # None,
         req[t].at \in {"new", "stopfirst"},
         UNCHANGED <<sessions, clients, tunnels, channels>>,
         \A x \in Task : x # s => sess'[x] = sess[x],
         sess'[s].profile = sess[s].profile, sess'[s].client = sess[s].client,
         sess'[s].channel = sess[s].channel, sess'[s].tunnel = None, sess'[s].forwarding = FALSE,
         \A x \in Task : x # t => cleanup'[x] = cleanup[x] /\ req'[x] = req[x],
         cleanup'[t].tunnel = sess[s].tunnel, cleanup'[t].channel = None,
         cleanup'[t].client = None, req'[t].at = "close", req'[t].then \in {"check", "done"},
         req'[t].channel = req[t].channel
  PROVE  Owners'
<1> DEFINE k == sess[s].tunnel
<1>1. NothingToClose(t) /\ ~Registered(t)
  BY DEF LifeInv, Owners, TeardownsIdle, SessionsWhole
<1>2. \A x \in Task : /\ Registered(x)' <=> Registered(x)
                      /\ sess'[x].profile = sess[x].profile
                      /\ sess'[x].client = sess[x].client
                      /\ sess'[x].channel = sess[x].channel
  BY DEF Registered
<1>3. RegistryAgrees'
  <2>1. \A p \in Profile : sessions'[p] # None => sess'[sessions'[p]].profile = p
    BY <1>2, Typed, Nil DEF LifeInv, Owners, RegistryAgrees
  <2>2. \A x \in Task : ~Registered(x)' => sess'[x] = Emptied(x)'
    BY <1>2 DEF LifeInv, Owners, RegistryAgrees, Emptied
  <2> QED
    BY <2>1, <2>2 DEF RegistryAgrees
<1>4. SessionsWhole'
  <2>1. \A x \in Task : Registered(x) => NothingToClose(x)' /\ req'[x].at \in {"end", "done"}
    BY <1>1 DEF LifeInv, Owners, SessionsWhole, NothingToClose
  <2>2. \A x \in Task : Registered(x) =>
          sess'[x].client = x /\ (sess'[x].forwarding <=> sess'[x].tunnel # None)
    BY <1>2 DEF LifeInv, Owners, SessionsWhole
  <2> QED
    BY <1>2, <2>1, <2>2 DEF SessionsWhole
<1>5. TeardownsIdle'
  BY <1>2 DEF LifeInv, Owners, TeardownsIdle, NothingToClose
<1>6. ~Past(t) /\ req[t].at \notin WithChannel \cup Pre /\ req'[t].at \notin WithChannel \cup Pre
  BY DEF Past, WithChannel, Pre
<1>7. NamesNew'
  BY <1>6, NamesCalm DEF Past
<1>8. k \in Task /\ k \in tunnels /\ req[k].at # "install"
  BY Fields, Nil DEF LifeInv, Owners, TunnelsHeld, SessionTunnels
<1>9. /\ \A x \in Task : x # s => sess[x].tunnel # k
      /\ \A x \in Task : cleanup[x].tunnel # k
  BY DEF LifeInv, Owners, TunnelsHeld, SessionTunnels
<1>10. \A x \in Task : req'[x].at = "install" <=> req[x].at = "install"
  OBVIOUS
<1>11. \A x \in Task : /\ sess'[x].tunnel = IF x = s THEN None ELSE sess[x].tunnel
                       /\ cleanup'[x].tunnel = IF x = t THEN k ELSE cleanup[x].tunnel
                       /\ cleanup[t].tunnel = None
  BY <1>1 DEF NothingToClose
<1> HIDE DEF k
<1>12. TunnelsHeld'
  <2>1. SessionTunnels'
    BY <1>8, <1>9, <1>10, <1>11, Fields, Nil DEF LifeInv, Owners, TunnelsHeld, SessionTunnels
  <2>2. TeardownTunnels'
    BY <1>8, <1>9, <1>10, <1>11, Fields, Nil DEF LifeInv, Owners, TunnelsHeld, TeardownTunnels
  <2>3. RequestTunnels'
    BY <1>10 DEF LifeInv, Owners, TunnelsHeld, RequestTunnels
  <2>4. \A r \in tunnels : r \in Task /\ r # None
    BY Typed, Nil DEF LifeInv
  <2>5. OpenTunnels'
    <3> SUFFICES ASSUME NEW r \in tunnels, req[r].at # "install"
                 PROVE  \E x \in Task : sess'[x].tunnel = r \/ cleanup'[x].tunnel = r
      BY <1>10, <2>4 DEF OpenTunnels
    <3>1. PICK x \in Task : sess[x].tunnel = r \/ cleanup[x].tunnel = r
      BY DEF LifeInv, Owners, TunnelsHeld, OpenTunnels
    <3>2. CASE r = k
      BY <1>11, <3>2
    <3>3. CASE r # k
      BY <1>11, <2>4, <3>1, <3>3 DEF k
    <3> QED
      BY <3>2, <3>3
  <2> QED
    BY <2>1, <2>2, <2>3, <2>5 DEF TunnelsHeld
<1>13. ChannelsHeld' /\ ChannelsFound'
  <2>1. \A u \in Task : /\ req[u].channel # None => req[u].at \in WithChannel
                        /\ Resuming(u) => /\ req[u].session \in Task
                                          /\ sess[req[u].session].channel # req[u].session
    BY DEF LifeInv, Owners, ChannelsHeld, RequestChannels, ChannelsFound, ReferencesKnown,
      Known, Resuming
  <2>2. \A u \in Task :
          /\ req'[u].channel = req[u].channel
          /\ req[u].channel # None => req'[u].at \in WithChannel
          /\ req[u].at = "done" => req'[u].at = "done" /\ req'[u].session = req[u].session
          /\ Resuming(u)' => /\ req'[u].session \in Task
                             /\ sess[req'[u].session].channel # req'[u].session
    BY <1>6, <2>1 DEF Resuming
  <2>3. \A x \in Task : cleanup'[x].channel = cleanup[x].channel
    BY <1>1 DEF NothingToClose
  <2> QED
    BY <1>2, <2>2, <2>3, ChannelsCalm
<1>14. ClientsHeld'
  <2>1. \A x \in Task : /\ cleanup'[x].client = cleanup[x].client
                        /\ req'[x].at \in Pre <=> req[x].at \in Pre
    BY <1>1, <1>6 DEF NothingToClose
  <2> QED
    BY <1>2, <2>1, ClientsCalm
<1> QED
  BY <1>3, <1>4, <1>5, <1>7, <1>12, <1>13, <1>14 DEF Owners

LEMMA StopForwardingKeeps ==
  ASSUME LifeInv, NEW t \in Task, NEW p \in Profile, NEW at \in {"check", "done"},
         StopForwarding(t, p, at), UNCHANGED <<server, store, open, watcher>>,
         req[t].at = IF at = "done" THEN "new" ELSE "stopfirst"
  PROVE  LifeInv'
<1> DEFINE s == sessions[p]
<1>1. SessionOf(p) = s /\ (s # None => s \in Task /\ Registered(s) /\ sess[s].profile = p)
  BY Found
<1>2. at \in RequestAt /\ "close" \in RequestAt
  BY DEF RequestAt
<1>3. CASE s = None \/ ~sess[s].forwarding
  <2>1. Begun(t, p, at) /\ UNCHANGED <<sess, cleanup, health>>
    BY <1>1, <1>3 DEF StopForwarding, Begun
  <2>2. /\ req' \in [Task -> Request] /\ \A u \in Task : u # t => req'[u] = req[u]
        /\ req'[t].at = at /\ req'[t].profile = p /\ req'[t].channel = req[t].channel
    BY <1>2, <2>1, Begins
  <2>3. Moved(t)
    BY <2>2 DEF Moved, Calm
  <2>4. DeletionHolds'
    BY <2>2, DeletionStays DEF store, server
  <2>5. /\ pendingStart' \subseteq Profile /\ lastFailure' \subseteq Profile
        /\ retired' \subseteq Profile /\ stored' \subseteq Profile /\ deletes' \in 0..MaxDeletes
        /\ RecordsGone'
    BY Typed DEF LifeInv, RecordsGone, store, server
  <2> QED
    BY <2>1, <2>2, <2>3, <2>4, <2>5, QuietKeeps DEF server
<1>4. CASE s # None /\ sess[s].forwarding
  <2>1. /\ sess' = [sess EXCEPT ![s] = PausedSession(s)]
        /\ cleanup' = [cleanup EXCEPT ![t] = [Nothing EXCEPT !.tunnel = sess[s].tunnel]]
        /\ req' = [req EXCEPT ![t].profile = p, ![t].at = "close", ![t].then = at]
        /\ Cancel(sess[s].health, None)
    BY <1>1, <1>4 DEF StopForwarding
  <2>2. s \in Task /\ Registered(s) /\ sess[s].profile = p /\ sess[s].tunnel # None
    BY <1>1, <1>4 DEF LifeInv, Owners, SessionsWhole
  <2> HIDE DEF s
  <2>3. /\ sess' \in [Task -> Session] /\ \A x \in Task : x # s => sess'[x] = sess[x]
        /\ sess'[s].profile = sess[s].profile /\ sess'[s].client = sess[s].client
        /\ sess'[s].channel = sess[s].channel /\ sess'[s].tunnel = None
        /\ sess'[s].forwarding = FALSE
    <3>1. sess \in [Task -> Session] /\ sess[s] \in Session
      BY <2>2, Typed DEF LifeInv
    <3>2. /\ PausedSession(s) \in Session /\ PausedSession(s).profile = sess[s].profile
          /\ PausedSession(s).client = sess[s].client /\ PausedSession(s).tunnel = None
          /\ PausedSession(s).channel = sess[s].channel /\ PausedSession(s).forwarding = FALSE
      BY <3>1, Nil DEF PausedSession, Session
    <3> QED
      BY <2>1, <2>2, <3>1, <3>2
  <2>4. /\ cleanup' \in [Task -> Teardown] /\ \A x \in Task : x # t => cleanup'[x] = cleanup[x]
        /\ cleanup'[t].tunnel = sess[s].tunnel /\ cleanup'[t].channel = None
        /\ cleanup'[t].client = None
    <3>1. cleanup \in [Task -> Teardown] /\ sess[s].tunnel \in Maybe
      BY <2>2, Typed, Fields DEF LifeInv
    <3>2. /\ [Nothing EXCEPT !.tunnel = sess[s].tunnel] \in Teardown
          /\ [Nothing EXCEPT !.tunnel = sess[s].tunnel].tunnel = sess[s].tunnel
          /\ [Nothing EXCEPT !.tunnel = sess[s].tunnel].channel = None
          /\ [Nothing EXCEPT !.tunnel = sess[s].tunnel].client = None
      BY <3>1, Nil DEF Nothing, Teardown
    <3> QED
      BY <2>1, <3>1, <3>2
  <2>5. /\ req' \in [Task -> Request] /\ \A u \in Task : u # t => req'[u] = req[u]
        /\ req'[t].at = "close" /\ req'[t].then = at /\ req'[t].profile = p
        /\ req'[t].channel = req[t].channel
    <3>1. req \in [Task -> Request]
      BY Typed DEF LifeInv
    <3> QED
      BY <1>2, <2>1, <3>1 DEF Request
  <2>6. /\ health' \in [Task -> Probe]
        /\ \A x \in Task : /\ health'[x].session = health[x].session
                           /\ health'[x].at # "none" => health[x].at # "none"
    BY <2>1, Cancels, Nil
  <2>7. Owners'
    BY <2>2, <2>3, <2>4, <2>5, PauseOwners DEF server, open
  <2>8. Types'
    BY <2>3, <2>4, <2>5, <2>6, Typed, TypesNext DEF LifeInv, server, store, open
  <2>9. \A x \in Task : sess'[x].profile = sess[x].profile
    BY <2>3
  <2>10. TargetRegistered'
    BY <2>9, TargetStays DEF server
  <2>11. ReferencesKnown'
    <3>1. /\ \A h \in Task : health'[h].at # "none" => Known(health'[h].session)
          /\ \A x \in Task : watcher'[x] # "none" => Known(x)
      BY <2>6 DEF LifeInv, ReferencesKnown
    <3> QED
      BY <2>5, <2>9, <3>1, ReferencesStay
  <2>12. RecordsGone' /\ DeletionHolds'
    BY <2>5, DeletionStays DEF LifeInv, RecordsGone, store, server
  <2> QED
    BY <2>7, <2>8, <2>10, <2>11, <2>12 DEF LifeInv
<1> QED
  BY <1>3, <1>4

LEMMA KeepsPause ==
  ASSUME LifeInv, NEW t \in Task, NEW p \in Profile, Pause(t, p)
  PROVE  LifeInv'
  BY StopForwardingKeeps DEF Pause

LEMMA KeepsStopFirst ==
  ASSUME LifeInv, NEW t \in Task, StopFirst(t)
  PROVE  LifeInv'
<1>1. req[t].profile \in Profile
  BY DEF StopFirst, LifeInv, ReferencesKnown
<1> QED
  BY <1>1, StopForwardingKeeps DEF StopFirst

-----------------------------------------------------------------------------
(* Something is opened.                                                     *)

\* What is not about owners, for a step of request t alone.
LEMMA OpeningKeeps ==
  ASSUME LifeInv, NEW t \in Task, Owners', RecordsGone',
         UNCHANGED <<sessions, current, proxyProfile, store, sess, health, watcher>>,
         req' \in [Task -> Request], \A u \in Task : u # t => req'[u] = req[u],
         req'[t].profile \in Profile,
         req'[t].at \in {"resume", "retunnel", "install"} => Known(req'[t].session),
         req'[t].at \notin {"stopdeleted", "erase", "revive"},
         pendingStart' \subseteq Profile, lastFailure' \subseteq Profile,
         cleanup' \in [Task -> Teardown], clients' \subseteq Task, tunnels' \subseteq Task,
         channels' \subseteq Task, bridge' \in [Profile -> Maybe]
  PROVE  LifeInv'
<1>1. Types'
  BY Typed, TypesNext DEF LifeInv, store
<1>2. TargetRegistered'
  BY TargetStays
<1>3. ReferencesKnown'
  <2>1. /\ \A h \in Task : health'[h].at # "none" => Known(health'[h].session)
        /\ \A x \in Task : watcher'[x] # "none" => Known(x)
    BY DEF LifeInv, ReferencesKnown
  <2> QED
    BY <2>1, ReferencesStay
<1>4. DeletionHolds'
  BY DeletionStays DEF store
<1> QED
  BY <1>1, <1>2, <1>3, <1>4 DEF LifeInv

\* A request that has opened something goes on.
LEMMA OpeningSessions ==
  ASSUME LifeInv, NEW t \in Task, UNCHANGED <<sessions, sess, cleanup>>,
         \A u \in Task : u # t => req'[u] = req[u],
         ~Over(req[t].at), req[t].at # "close", req'[t].at # "close"
  PROVE  RegistryAgrees' /\ SessionsWhole' /\ TeardownsIdle'
<1>1. SessCalm
  BY DEF SessCalm
<1>2. \A x \in Task : NothingToClose(x) => NothingToClose(x)'
  BY DEF NothingToClose
<1>3. \A u \in Task :
        /\ Over(req[u].at) => Over(req'[u].at)
        /\ req'[u].at \notin {"close", "end", "done"} =>
             req[u].at \notin {"close", "end", "done"} \/ NothingToClose(u)'
        /\ req'[u].at = "close" => req'[u].then \in {"check", "done", "end"}
  BY DEF Over, LifeInv, Owners, TeardownsIdle
<1> QED
  BY <1>1, <1>2, <1>3, SessionsCalm

\* Who holds a proxy channel, and what a resumption knows.
LEMMA ChannelFacts ==
  ASSUME LifeInv, NEW u \in Task
  PROVE  /\ req[u].channel # None =>
              req[u].channel = u /\ req[u].at \in WithChannel /\ u \in channels
         /\ Resuming(u) => /\ req[u].session \in Task
                           /\ sess[req[u].session].channel # req[u].session
  BY DEF LifeInv, Owners, ChannelsHeld, RequestChannels, ChannelsFound, ReferencesKnown,
    Known, Resuming

LEMMA OpenChannelOwners ==
  ASSUME LifeInv, NEW t \in Task, req[t].at \in {"resume", "channel"},
         UNCHANGED <<sessions, sess, cleanup, clients, tunnels>>,
         channels' = channels \cup {t},
         \A u \in Task : u # t => req'[u] = req[u],
         req'[t].at = IF req[t].at = "resume" THEN "retunnel" ELSE "portcheck",
         req'[t].channel = t, req'[t].session = req[t].session
  PROVE  Owners'
<1>1. t \notin channels
  BY DEF LifeInv, Owners, NamesNew, Past, WithChannel
<1>2. RegistryAgrees' /\ SessionsWhole' /\ TeardownsIdle'
  BY OpeningSessions DEF Over
<1>3. NamesNew'
  BY DEF LifeInv, Owners, NamesNew, Past, WithChannel, Pre
<1>4. TunnelsHeld'
  BY TunnelsCalm
<1>5. ChannelsHeld'
  <2>1. /\ \A x \in Task : sess[x].channel # t /\ cleanup[x].channel # t
        /\ t # None
    BY <1>1, Nil DEF LifeInv, Owners, ChannelsHeld, SessionChannels, TeardownChannels
  <2>2. SessionChannels'
    BY <2>1, Fields, Nil DEF LifeInv, Owners, ChannelsHeld, SessionChannels
  <2>3. TeardownChannels'
    BY <2>1, Fields, Nil DEF LifeInv, Owners, ChannelsHeld, TeardownChannels
  <2>4. RequestChannels'
    BY DEF LifeInv, Owners, ChannelsHeld, RequestChannels, WithChannel
  <2>5. \A r \in channels : r \in Task
    BY Typed DEF LifeInv
  <2>6. OpenChannels'
    BY <1>1, <2>5 DEF LifeInv, Owners, ChannelsHeld, OpenChannels
  <2> QED
    BY <2>2, <2>3, <2>4, <2>6 DEF ChannelsHeld
<1>6. ChannelsFound'
  <2>1. \A x \in Task : sess[x].channel \notin {None, x} =>
          /\ sess[x].channel \in Task /\ sess[x].channel # t
          /\ req[sess[x].channel].at = "done" /\ req[sess[x].channel].session # None
    BY Fields, Nil DEF LifeInv, Owners, ChannelsFound
  <2>2. \A u \in Task : Resuming(u)' => sess[req'[u].session].channel # req'[u].session
    BY ChannelFacts DEF Resuming
  <2> QED
    BY <2>1, <2>2 DEF ChannelsFound
<1>7. ClientsHeld'
  BY ClientsCalm DEF Registered, Pre
<1> QED
  BY <1>2, <1>3, <1>4, <1>5, <1>6, <1>7 DEF Owners

LEMMA OpenChannelKeeps ==
  ASSUME LifeInv, NEW t \in Task, NEW client, OpenChannel(t, client),
         req[t].at \in {"resume", "channel"},
         UNCHANGED <<server, store, sess, cleanup, clients, tunnels, health, watcher>>
  PROVE  LifeInv'
<1> DEFINE at == IF req[t].at = "resume" THEN "retunnel" ELSE "portcheck"
<1> DEFINE p == req[t].profile
<1>1. p \in Profile /\ at \in RequestAt /\ (at = "retunnel" => Known(req[t].session))
  BY DEF LifeInv, ReferencesKnown, RequestAt
<1>2. RecordsGone' /\ pendingStart' \subseteq Profile /\ lastFailure' \subseteq Profile
  BY Typed DEF LifeInv, RecordsGone, store, server
<1>3. cleanup' \in [Task -> Teardown] /\ clients' \subseteq Task /\ tunnels' \subseteq Task
  BY Typed DEF LifeInv
<1>4. CASE /\ channels' = channels \cup {t} /\ bridge' = [bridge EXCEPT ![p] = t]
           /\ req' = [req EXCEPT ![t].channel = t, ![t].at = at]
  <2>1. req \in [Task -> Request] /\ t \in Maybe
    BY Typed, Nil DEF LifeInv
  <2>2. /\ req' \in [Task -> Request] /\ \A u \in Task : u # t => req'[u] = req[u]
        /\ req'[t].at = at /\ req'[t].channel = t /\ req'[t].profile = p
        /\ req'[t].session = req[t].session
    <3> HIDE DEF at
    <3> QED
      BY <1>1, <1>4, <2>1 DEF Request
  <2>3. Owners'
    BY <1>4, <2>2, OpenChannelOwners DEF server
  <2>4. channels' \subseteq Task /\ bridge' \in [Profile -> Maybe]
    BY <1>1, <1>4, <2>1, Typed DEF LifeInv
  <2>5. at \notin {"stopdeleted", "erase", "revive", "install"}
    OBVIOUS
  <2> HIDE DEF at, p
  <2> QED
    BY <1>1, <1>2, <1>3, <2>2, <2>3, <2>4, <2>5, OpeningKeeps DEF server, at
<1>5. CASE UNCHANGED <<channels, bridge>> /\ Go(t, at)
  <2>1. /\ req' \in [Task -> Request] /\ \A u \in Task : u # t => req'[u] = req[u]
        /\ req'[t].at = at /\ req'[t].channel = req[t].channel /\ req'[t].profile = p
        /\ req'[t].session = req[t].session
    <3> HIDE DEF at
    <3> QED
      BY <1>1, <1>5, Goes
  <2>2. Moved(t)
    BY <2>1 DEF Moved, Calm
  <2>3. DeletionHolds'
    BY <2>1, DeletionStays DEF store, server
  <2>4. /\ retired' \subseteq Profile /\ stored' \subseteq Profile /\ deletes' \in 0..MaxDeletes
    BY Typed DEF LifeInv, store
  <2> QED
    BY <1>1, <1>2, <1>5, <2>1, <2>2, <2>3, <2>4, QuietKeeps DEF server, open
<1> QED
  BY <1>4, <1>5 DEF OpenChannel

LEMMA KeepsResumeChannel ==
  ASSUME LifeInv, NEW t \in Task, ResumeChannel(t)
  PROVE  LifeInv'
  BY OpenChannelKeeps DEF ResumeChannel

LEMMA KeepsStartChannel ==
  ASSUME LifeInv, NEW t \in Task, StartChannel(t)
  PROVE  LifeInv'
  BY OpenChannelKeeps DEF StartChannel

LEMMA KeepsDial ==
  ASSUME LifeInv, NEW t \in Task, Dial(t)
  PROVE  LifeInv'
<1> DEFINE p == req[t].profile
<1>1. p \in Profile /\ "async" \in RequestAt
  BY DEF Dial, LifeInv, ReferencesKnown, RequestAt
<1>2. /\ req' \in [Task -> Request] /\ \A u \in Task : u # t => req'[u] = req[u]
      /\ req'[t].at = "async" /\ req'[t].channel = req[t].channel /\ req'[t].profile = p
      /\ req'[t].session = req[t].session
  BY <1>1, Goes DEF Dial
<1>3. /\ clients' = clients \cup {t} /\ req[t].at = "dial"
      /\ UNCHANGED <<sessions, sess, cleanup, tunnels, channels, bridge>>
  BY DEF Dial
<1>4. RegistryAgrees' /\ SessionsWhole' /\ TeardownsIdle'
  BY <1>2, <1>3, OpeningSessions DEF Over
<1>5. NamesNew'
  BY <1>2, <1>3 DEF LifeInv, Owners, NamesNew, Past, WithChannel, Pre
<1>6. TunnelsHeld'
  BY <1>2, <1>3, TunnelsCalm
<1>7. ChannelsHeld' /\ ChannelsFound'
  <2>1. \A u \in Task :
          /\ req'[u].channel = req[u].channel
          /\ req[u].channel # None => req'[u].at \in WithChannel
          /\ req[u].at = "done" => req'[u].at = "done" /\ req'[u].session = req[u].session
          /\ Resuming(u)' => /\ req'[u].session \in Task
                             /\ sess[req'[u].session].channel # req'[u].session
    BY <1>2, <1>3, ChannelFacts DEF Resuming, WithChannel
  <2> QED
    BY <1>3, <2>1, ChannelsCalm
<1>8. ClientsHeld'
  <2>1. \A x \in Task : Registered(x)' <=> Registered(x)
    BY <1>3 DEF Registered
  <2> QED
    BY <1>2, <1>3, <2>1 DEF LifeInv, Owners, ClientsHeld, Pre
<1>9. Owners'
  BY <1>4, <1>5, <1>6, <1>7, <1>8 DEF Owners
<1>10. RecordsGone' /\ pendingStart' \subseteq Profile /\ lastFailure' \subseteq Profile
  <2>1. /\ pendingStart' = pendingStart \cup ({p} \ retired)
        /\ lastFailure' = lastFailure \ ({p} \ retired) /\ retired' = retired
    BY DEF Dial, store
  <2> QED
    BY <1>1, <2>1, Typed DEF LifeInv, RecordsGone
<1>11. /\ cleanup' \in [Task -> Teardown] /\ clients' \subseteq Task /\ tunnels' \subseteq Task
       /\ channels' \subseteq Task /\ bridge' \in [Profile -> Maybe]
  BY <1>3, Typed DEF LifeInv
<1> HIDE DEF p
<1> QED
  BY <1>1, <1>2, <1>9, <1>10, <1>11, OpeningKeeps DEF Dial

-----------------------------------------------------------------------------
(* A request gives up what it has opened.                                   *)

LEMMA GiveUpOwners ==
  ASSUME LifeInv, NEW t \in Task,
         req[t].at \in {"retunnel", "install", "async", "portcheck", "commit"},
         UNCHANGED <<sessions, sess, clients, tunnels, channels>>,
         \A u \in Task : u # t => req'[u] = req[u] /\ cleanup'[u] = cleanup[u],
         req'[t].at = "close", req'[t].then \in {"done", "end"}, req'[t].channel = None,
         cleanup'[t].tunnel = IF req[t].at = "install" THEN t ELSE None,
         cleanup'[t].channel = req[t].channel,
         cleanup'[t].client = IF req[t].at \in Pre THEN t ELSE None
  PROVE  Owners'
<1>1. NothingToClose(t) /\ ~Registered(t) /\ sess[t].profile = None /\ t # None
  BY Nil DEF LifeInv, Owners, TeardownsIdle, SessionsWhole
<1>2. SessCalm
  BY DEF SessCalm
<1>3. RegistryAgrees' /\ SessionsWhole' /\ TeardownsIdle'
  <2>1. RegistryAgrees'
    BY DEF LifeInv, Owners, RegistryAgrees, Registered, Emptied
  <2>2. SessionsWhole'
    BY <1>1 DEF LifeInv, Owners, SessionsWhole, Registered, NothingToClose
  <2>3. TeardownsIdle'
    BY <1>1 DEF LifeInv, Owners, TeardownsIdle, NothingToClose
  <2> QED
    BY <2>1, <2>2, <2>3
<1>4. NamesNew'
  BY NamesCalm DEF Past, Over
<1>5. TunnelsHeld'
  <2>1. req[t].at = "install" => /\ t \in tunnels
                                 /\ \A x \in Task : sess[x].tunnel # t /\ cleanup[x].tunnel # t
    BY <1>1 DEF LifeInv, Owners, TunnelsHeld, SessionTunnels, TeardownTunnels, RequestTunnels
  <2>2. SessionTunnels'
    BY <1>1, <2>1, Fields, Nil DEF LifeInv, Owners, TunnelsHeld, SessionTunnels
  <2>3. TeardownTunnels'
    BY <1>1, <2>1, Fields, Nil DEF LifeInv, Owners, TunnelsHeld, TeardownTunnels
  <2>4. RequestTunnels'
    BY DEF LifeInv, Owners, TunnelsHeld, RequestTunnels
  <2>5. \A r \in tunnels : r \in Task /\ r # None
    BY Typed, Nil DEF LifeInv
  <2>6. cleanup[t].tunnel = None
    BY <1>1 DEF NothingToClose
  <2>7. OpenTunnels'
    BY <2>5, <2>6 DEF LifeInv, Owners, TunnelsHeld, OpenTunnels
  <2> QED
    BY <2>2, <2>3, <2>4, <2>7 DEF TunnelsHeld
<1>6. ChannelsHeld'
  <2> DEFINE c == req[t].channel
  <2>1. c # None => /\ c = t /\ t \in channels
                    /\ \A x \in Task : sess[x].channel # t /\ cleanup[x].channel # t
    BY <1>1 DEF LifeInv, Owners, ChannelsHeld, SessionChannels, TeardownChannels, RequestChannels
  <2>2. SessionChannels'
    BY <1>1, <2>1, Fields, Nil DEF LifeInv, Owners, ChannelsHeld, SessionChannels
  <2>3. TeardownChannels'
    BY <1>1, <2>1, Fields, Nil DEF LifeInv, Owners, ChannelsHeld, TeardownChannels
  <2>4. RequestChannels'
    BY DEF LifeInv, Owners, ChannelsHeld, RequestChannels
  <2>5. \A r \in channels : r \in Task /\ r # None
    BY Typed, Nil DEF LifeInv
  <2>6. cleanup[t].channel = None
    BY <1>1 DEF NothingToClose
  <2>7. OpenChannels'
    BY <2>5, <2>6 DEF LifeInv, Owners, ChannelsHeld, OpenChannels
  <2> QED
    BY <2>2, <2>3, <2>4, <2>7 DEF ChannelsHeld
<1>7. ChannelsFound'
  <2>1. \A x \in Task : sess[x].channel \notin {None, x} =>
          /\ sess[x].channel \in Task /\ sess[x].channel # t
          /\ req[sess[x].channel].at = "done" /\ req[sess[x].channel].session # None
    BY Fields, Nil DEF LifeInv, Owners, ChannelsFound
  <2>2. \A u \in Task : Resuming(u)' => sess[req'[u].session].channel # req'[u].session
    BY ChannelFacts DEF Resuming
  <2> QED
    BY <2>1, <2>2 DEF ChannelsFound
<1>8. ClientsHeld'
  <2>1. \A x \in Task : Registered(x)' <=> Registered(x)
    BY DEF Registered
  <2>2. cleanup[t].client = None
    BY <1>1 DEF NothingToClose
  <2> QED
    BY <1>1, <2>1, <2>2 DEF LifeInv, Owners, ClientsHeld, Pre
<1> QED
  BY <1>3, <1>4, <1>5, <1>6, <1>7, <1>8 DEF Owners

LEMMA GiveUpKeeps ==
  ASSUME LifeInv, NEW t \in Task, NEW tunnel, NEW client, NEW via \in Maybe,
         NEW at \in {"done", "end"}, GiveUp(t, tunnel, client, via, at),
         req[t].at \in {"retunnel", "install", "async", "portcheck", "commit"},
         tunnel = IF req[t].at = "install" THEN t ELSE None,
         client = IF req[t].at \in Pre THEN t ELSE None,
         UNCHANGED <<sessions, current, proxyProfile, pendingStart, store, sess, open, health,
                     watcher>>,
         lastFailure' \in {lastFailure, lastFailure \cup ({req[t].profile} \ retired)}
  PROVE  LifeInv'
<1> DEFINE what == [tunnel |-> tunnel, channel |-> req[t].channel, client |-> client,
                    via |-> via]
<1>1. /\ cleanup' = [cleanup EXCEPT ![t] = what]
      /\ req' = [req EXCEPT ![t].at = "close", ![t].then = at, ![t].channel = None]
  BY DEF GiveUp, CloseThen
<1>2. req \in [Task -> Request] /\ cleanup \in [Task -> Teardown]
  BY Typed DEF LifeInv
<1>3. at \in RequestAt /\ "close" \in RequestAt
  BY DEF RequestAt
<1>4. /\ req' \in [Task -> Request] /\ \A u \in Task : u # t => req'[u] = req[u]
      /\ req'[t].at = "close" /\ req'[t].then = at /\ req'[t].channel = None
      /\ req'[t].profile = req[t].profile
  BY <1>1, <1>2, <1>3, Nil DEF Request
<1>5. what \in Teardown
  BY Fields, Nil DEF Teardown
<1>6. /\ cleanup' \in [Task -> Teardown] /\ \A u \in Task : u # t => cleanup'[u] = cleanup[u]
      /\ cleanup'[t].tunnel = tunnel /\ cleanup'[t].channel = req[t].channel
      /\ cleanup'[t].client = client
  BY <1>1, <1>2, <1>5
<1>7. Owners'
  BY <1>4, <1>6, GiveUpOwners DEF open
<1>8. req[t].profile \in Profile
  BY DEF LifeInv, ReferencesKnown
<1>9. RecordsGone' /\ pendingStart' \subseteq Profile /\ lastFailure' \subseteq Profile
  BY <1>8, Typed DEF LifeInv, RecordsGone, store
<1>10. /\ clients' \subseteq Task /\ tunnels' \subseteq Task
       /\ channels' \subseteq Task /\ bridge' \in [Profile -> Maybe]
  BY Typed DEF LifeInv, open
<1> HIDE DEF what
<1> QED
  BY <1>4, <1>6, <1>7, <1>8, <1>9, <1>10, OpeningKeeps

LEMMA KeepsResumeTunnel ==
  ASSUME LifeInv, NEW t \in Task, ResumeTunnel(t)
  PROVE  LifeInv'
<1>1. /\ req[t].profile \in Profile /\ Known(req[t].session) /\ "install" \in RequestAt
      /\ req[t].at = "retunnel"
  BY DEF ResumeTunnel, LifeInv, ReferencesKnown, RequestAt
<1>2. CASE PortFree(req[t].profile)
  <2>1. /\ tunnels' = tunnels \cup {t} /\ Go(t, "install")
        /\ UNCHANGED <<server, store, sess, cleanup, clients, channels, bridge, health, watcher>>
    BY <1>2 DEF ResumeTunnel
  <2>2. /\ req' \in [Task -> Request] /\ \A u \in Task : u # t => req'[u] = req[u]
        /\ req'[t].at = "install" /\ req'[t].channel = req[t].channel
        /\ req'[t].profile = req[t].profile /\ req'[t].session = req[t].session
    BY <1>1, <2>1, Goes
  <2>3. RegistryAgrees' /\ SessionsWhole' /\ TeardownsIdle'
    BY <1>1, <2>1, <2>2, OpeningSessions DEF Over, server
  <2>4. t \notin tunnels
    BY <1>1 DEF LifeInv, Owners, NamesNew, Past
  <2>5. NamesNew'
    BY <1>1, <2>1, <2>2 DEF LifeInv, Owners, NamesNew, Past, WithChannel, Pre
  <2>6. TunnelsHeld'
    <3>1. \A x \in Task : sess[x].tunnel # t /\ cleanup[x].tunnel # t
      BY <2>4, Nil DEF LifeInv, Owners, TunnelsHeld, SessionTunnels, TeardownTunnels
    <3>2. SessionTunnels'
      BY <2>1, <2>2, <3>1, Fields, Nil DEF LifeInv, Owners, TunnelsHeld, SessionTunnels
    <3>3. TeardownTunnels'
      BY <2>1, <2>2, <3>1, Fields, Nil DEF LifeInv, Owners, TunnelsHeld, TeardownTunnels
    <3>4. RequestTunnels'
      BY <2>1, <2>2 DEF LifeInv, Owners, TunnelsHeld, RequestTunnels
    <3>5. \A r \in tunnels : r \in Task
      BY Typed DEF LifeInv
    <3>6. OpenTunnels'
      BY <1>1, <2>1, <2>2, <3>5 DEF LifeInv, Owners, TunnelsHeld, OpenTunnels
    <3> QED
      BY <3>2, <3>3, <3>4, <3>6 DEF TunnelsHeld
  <2>7. ChannelsHeld' /\ ChannelsFound'
    <3>1. \A u \in Task :
            /\ req'[u].channel = req[u].channel
            /\ req[u].channel # None => req'[u].at \in WithChannel
            /\ req[u].at = "done" => req'[u].at = "done" /\ req'[u].session = req[u].session
            /\ Resuming(u)' => /\ req'[u].session \in Task
                               /\ sess[req'[u].session].channel # req'[u].session
      BY <1>1, <2>1, <2>2, ChannelFacts DEF Resuming, WithChannel
    <3> QED
      BY <2>1, <3>1, ChannelsCalm
  <2>8. ClientsHeld'
    BY <1>1, <2>1, <2>2, ClientsCalm DEF Registered, Pre, server
  <2>9. Owners'
    BY <2>3, <2>5, <2>6, <2>7, <2>8 DEF Owners
  <2>10. RecordsGone' /\ pendingStart' \subseteq Profile /\ lastFailure' \subseteq Profile
    BY <2>1, Typed DEF LifeInv, RecordsGone, store, server
  <2>11. /\ cleanup' \in [Task -> Teardown] /\ clients' \subseteq Task /\ tunnels' \subseteq Task
         /\ channels' \subseteq Task /\ bridge' \in [Profile -> Maybe]
    BY <2>1, Typed DEF LifeInv
  <2> QED
    BY <1>1, <2>1, <2>2, <2>9, <2>10, <2>11, OpeningKeeps DEF server
<1>3. CASE ~PortFree(req[t].profile)
  <2>1. req[t].session \in Maybe /\ req[t].at \notin Pre
    BY <1>1, Fields DEF Pre
  <2>2. GiveUp(t, None, None, req[t].session, "done") /\ UNCHANGED tunnels
    BY <1>3 DEF ResumeTunnel
  <2> QED
    BY <1>1, <2>1, <2>2, GiveUpKeeps DEF ResumeTunnel, server, open
<1> QED
  BY <1>2, <1>3

LEMMA KeepsStartAsync ==
  ASSUME LifeInv, NEW t \in Task, StartAsync(t)
  PROVE  LifeInv'
<1>1. CASE GiveUp(t, None, t, t, "end")
  <2>1. req[t].at = "async" /\ req[t].at \in Pre /\ t \in Maybe
    BY Nil DEF StartAsync, Pre
  <2> QED
    BY <1>1, <2>1, GiveUpKeeps DEF StartAsync, server
<1>2. CASE Go(t, "channel") /\ UNCHANGED cleanup
  <2>1. <<req[t].at, "channel">> \in Calm /\ "channel" \in RequestAt /\ req[t].at # "new"
    BY DEF StartAsync, Calm, RequestAt
  <2>2. RecordsGone' /\ pendingStart' \subseteq Profile /\ lastFailure' \subseteq Profile
    BY Typed DEF StartAsync, LifeInv, RecordsGone, server, store
  <2> QED
    BY <1>2, <2>1, <2>2, GoesQuietly DEF StartAsync, server
<1> QED
  BY <1>1, <1>2 DEF StartAsync

LEMMA KeepsPortCheck ==
  ASSUME LifeInv, NEW t \in Task, PortCheck(t)
  PROVE  LifeInv'
<1>1. CASE RecordFailure(req[t].profile) /\ GiveUp(t, None, t, t, "end")
  <2>1. req[t].at = "portcheck" /\ req[t].at \in Pre /\ t \in Maybe
    BY Nil DEF PortCheck, Pre
  <2>2. lastFailure' = lastFailure \cup ({req[t].profile} \ retired)
    BY <1>1 DEF RecordFailure
  <2> QED
    BY <1>1, <2>1, <2>2, GiveUpKeeps DEF PortCheck
<1>2. CASE Go(t, "commit") /\ UNCHANGED <<lastFailure, cleanup>>
  <2>1. <<req[t].at, "commit">> \in Calm /\ "commit" \in RequestAt /\ req[t].at # "new"
    BY DEF PortCheck, Calm, RequestAt
  <2>2. RecordsGone' /\ pendingStart' \subseteq Profile /\ lastFailure' \subseteq Profile
    BY <1>2, Typed DEF PortCheck, LifeInv, RecordsGone, store
  <2> QED
    BY <1>2, <2>1, <2>2, GoesQuietly DEF PortCheck
<1> QED
  BY <1>1, <1>2 DEF PortCheck

LEMMA KeepsCommitFails ==
  ASSUME LifeInv, NEW t \in Task, CommitFails(t)
  PROVE  LifeInv'
<1>1. req[t].at = "commit" /\ req[t].at \in Pre /\ t \in Maybe
  BY Nil DEF CommitFails, Pre
<1>2. lastFailure' \in {lastFailure, lastFailure \cup ({req[t].profile} \ retired)}
  BY DEF CommitFails, RecordFailure
<1> QED
  BY <1>1, <1>2, GiveUpKeeps DEF CommitFails

-----------------------------------------------------------------------------
(* A session is resumed, or registered.                                     *)

LEMMA InstallOwners ==
  ASSUME LifeInv, NEW t \in Task, NEW s \in Task, req[t].at = "install",
         Registered(s), ~sess[s].forwarding, req[t].session = s,
         UNCHANGED <<sessions, cleanup, clients, tunnels, channels>>,
         \A x \in Task : x # s => sess'[x] = sess[x],
         sess'[s].profile = sess[s].profile, sess'[s].client = sess[s].client,
         sess'[s].tunnel = t, sess'[s].forwarding = TRUE,
         sess'[s].channel = IF req[t].channel = None THEN sess[s].channel ELSE t,
         \A u \in Task : u # t => req'[u] = req[u],
         req'[t].at = "done", req'[t].channel = None, req'[t].session = s
  PROVE  Owners'
<1>1. /\ NothingToClose(t) /\ ~Registered(t) /\ t # s /\ t # None /\ s # None
      /\ sess[s].tunnel = None
  BY Fields, Nil DEF LifeInv, Owners, TeardownsIdle, SessionsWhole
<1>2. \A x \in Task : /\ Registered(x)' <=> Registered(x)
                      /\ sess'[x].profile = sess[x].profile
                      /\ sess'[x].client = sess[x].client
  BY DEF Registered
<1>3. RegistryAgrees' /\ SessionsWhole' /\ TeardownsIdle'
  <2>1. RegistryAgrees'
    <3>1. \A p \in Profile : sessions'[p] # None => sess'[sessions'[p]].profile = p
      BY <1>2, Typed, Nil DEF LifeInv, Owners, RegistryAgrees
    <3>2. \A x \in Task : ~Registered(x)' => sess'[x] = Emptied(x)'
      BY <1>2 DEF LifeInv, Owners, RegistryAgrees, Emptied
    <3> QED
      BY <3>1, <3>2 DEF RegistryAgrees
  <2>2. SessionsWhole'
    <3>1. \A x \in Task : Registered(x) =>
            NothingToClose(x)' /\ req'[x].at \in {"end", "done"}
      BY <1>1 DEF LifeInv, Owners, SessionsWhole, NothingToClose
    <3>2. \A x \in Task : Registered(x) =>
            sess'[x].client = x /\ (sess'[x].forwarding <=> sess'[x].tunnel # None)
      BY <1>1, <1>2 DEF LifeInv, Owners, SessionsWhole
    <3> QED
      BY <1>2, <3>1, <3>2 DEF SessionsWhole
  <2>3. TeardownsIdle'
    BY <1>2 DEF LifeInv, Owners, TeardownsIdle, NothingToClose
  <2> QED
    BY <2>1, <2>2, <2>3
<1>4. NamesNew'
  BY NamesCalm DEF Past
<1>5. \A x \in Task : sess'[x].tunnel = IF x = s THEN t ELSE sess[x].tunnel
  OBVIOUS
<1>6. TunnelsHeld'
  <2>1. t \in tunnels /\ \A x \in Task : sess[x].tunnel # t /\ cleanup[x].tunnel # t
    BY <1>1 DEF LifeInv, Owners, TunnelsHeld, SessionTunnels, TeardownTunnels, RequestTunnels
  <2>2. SessionTunnels'
    BY <1>1, <1>5, <2>1, Fields, Nil DEF LifeInv, Owners, TunnelsHeld, SessionTunnels
  <2>3. TeardownTunnels'
    BY <1>1, <2>1, Fields, Nil DEF LifeInv, Owners, TunnelsHeld, TeardownTunnels
  <2>4. RequestTunnels'
    BY DEF LifeInv, Owners, TunnelsHeld, RequestTunnels
  <2>5. \A r \in tunnels : r \in Task /\ r # None
    BY Typed, Nil DEF LifeInv
  <2>6. OpenTunnels'
    BY <1>1, <1>5, <2>5 DEF LifeInv, Owners, TunnelsHeld, OpenTunnels
  <2> QED
    BY <2>2, <2>3, <2>4, <2>6 DEF TunnelsHeld
<1> DEFINE c == req[t].channel
<1>7. c # None => /\ c = t /\ t \in channels /\ sess[s].channel # s
                  /\ \A x \in Task : sess[x].channel # t /\ cleanup[x].channel # t
  BY <1>1, ChannelFacts DEF LifeInv, Owners, ChannelsHeld, SessionChannels, TeardownChannels,
    Resuming
<1>8. \A x \in Task : sess[x].channel \notin {None, x} =>
        /\ sess[x].channel \in Task /\ sess[x].channel # t
        /\ req[sess[x].channel].at = "done" /\ req[sess[x].channel].session # None
  BY Fields, Nil DEF LifeInv, Owners, ChannelsFound
<1>9. ChannelsHeld'
  <2>1. \A x \in Task : sess'[x].channel = IF x = s /\ c # None THEN t ELSE sess[x].channel
    OBVIOUS
  <2>2. SessionChannels'
    BY <1>1, <1>7, <2>1, Fields, Nil DEF LifeInv, Owners, ChannelsHeld, SessionChannels
  <2>3. TeardownChannels'
    BY <1>1, <1>7, Fields, Nil DEF LifeInv, Owners, ChannelsHeld, TeardownChannels
  <2>4. RequestChannels'
    BY DEF LifeInv, Owners, ChannelsHeld, RequestChannels
  <2>5. \A r \in channels : r \in Task /\ r # None
    BY Typed, Nil DEF LifeInv
  <2>6. OpenChannels'
    <3> SUFFICES ASSUME NEW r \in channels
                 PROVE  \/ req'[r].channel = r
                        \/ \E x \in Task : sess'[x].channel = r \/ cleanup'[x].channel = r
                        \/ req'[r].at = "done" /\ req'[r].session # None
      BY DEF OpenChannels
    <3>1. CASE r = t /\ c # None
      BY <1>1, <2>1, <3>1
    <3>2. CASE r = sess[s].channel /\ c # None
      BY <1>7, <1>8, <2>5, <3>2
    <3>3. CASE c = None \/ r \notin {t, sess[s].channel}
      <4>1. \/ req[r].channel = r
            \/ \E x \in Task : sess[x].channel = r \/ cleanup[x].channel = r
            \/ req[r].at = "done" /\ req[r].session # None
        BY DEF LifeInv, Owners, ChannelsHeld, OpenChannels
      <4>2. req[r].channel = r => req'[r].channel = r
        BY <2>5, <3>3
      <4>3. \A x \in Task : sess[x].channel = r => sess'[x].channel = r
        BY <2>1, <3>3
      <4>4. req[r].at = "done" => req'[r].at = "done" /\ req'[r].session = req[r].session
        BY <2>5
      <4> QED
        BY <4>1, <4>2, <4>3, <4>4
    <3> QED
      BY <3>1, <3>2, <3>3
  <2> QED
    BY <2>2, <2>3, <2>4, <2>6 DEF ChannelsHeld
<1>10. ChannelsFound'
  <2>1. \A x \in Task : sess'[x].channel \notin {None, x} =>
          /\ req'[sess'[x].channel].at = "done" /\ req'[sess'[x].channel].session # None
    BY <1>1, <1>8
  <2>2. \A u \in Task : Resuming(u)' => sess'[req'[u].session].channel # req'[u].session
    <3> SUFFICES ASSUME NEW u \in Task, Resuming(u)'
                 PROVE  sess'[req'[u].session].channel # req'[u].session
      OBVIOUS
    <3>1. u # t /\ req'[u] = req[u] /\ Resuming(u)
      BY DEF Resuming
    <3>2. req[u].session \in Task /\ sess[req[u].session].channel # req[u].session
      BY <3>1, ChannelFacts
    <3>3. CASE req[u].session = s
      BY <1>1, <3>1, <3>2, <3>3
    <3>4. CASE req[u].session # s
      BY <3>1, <3>2, <3>4
    <3> QED
      BY <3>3, <3>4
  <2> QED
    BY <2>1, <2>2 DEF ChannelsFound
<1>11. ClientsHeld'
  BY <1>2, ClientsCalm DEF Pre
<1> QED
  BY <1>3, <1>4, <1>6, <1>9, <1>10, <1>11 DEF Owners

LEMMA KeepsInstall ==
  ASSUME LifeInv, NEW t \in Task, Install(t)
  PROVE  LifeInv'
<1> DEFINE s == req[t].session
<1>1. /\ req[t].at = "install" /\ Known(s) /\ s \in Task /\ s \in Maybe
      /\ req[t].profile \in Profile
  BY Nil DEF Install, LifeInv, ReferencesKnown, Known
<1>2. CASE MayInstall(s)
  <2>1. Registered(s) /\ ~sess[s].forwarding
    BY <1>1, <1>2, ActiveIs DEF MayInstall, Known
  <2>2. /\ sess' = [sess EXCEPT ![s].tunnel = t, ![s].health = t,
             ![s].channel = IF req[t].channel = None THEN @ ELSE t,
             ![s].forwarding = TRUE, ![s].ready = FALSE]
        /\ current' = s /\ proxyProfile' = sess[s].profile
        /\ health' = [health EXCEPT ![t] = [at |-> "waiting", session |-> s]]
        /\ req' = [req EXCEPT ![t].at = "done", ![t].channel = None]
        /\ UNCHANGED <<cleanup, sessions, pendingStart, lastFailure, store, open, watcher>>
    BY <1>2 DEF Install, Promote
  <2> DEFINE k == IF req[t].channel = None THEN sess[s].channel ELSE t
  <2>3. t \in Maybe /\ k \in Maybe
    BY <1>1, Fields, Nil
  <2>4. /\ sess' \in [Task -> Session] /\ \A x \in Task : x # s => sess'[x] = sess[x]
        /\ sess'[s].profile = sess[s].profile /\ sess'[s].client = sess[s].client
        /\ sess'[s].tunnel = t /\ sess'[s].forwarding = TRUE /\ sess'[s].channel = k
    <3>1. sess \in [Task -> Session]
      BY Typed DEF LifeInv
    <3>2. sess' = [sess EXCEPT ![s].tunnel = t, ![s].health = t, ![s].channel = k,
                               ![s].forwarding = TRUE, ![s].ready = FALSE]
      BY <1>1, <2>2, <3>1
    <3> HIDE DEF k, s
    <3> DEFINE r == [sess[s] EXCEPT !.tunnel = t, !.health = t, !.channel = k,
                                    !.forwarding = TRUE, !.ready = FALSE]
    <3>3. sess' = [sess EXCEPT ![s] = r] /\ sess[s] \in Session
      BY <1>1, <3>1, <3>2
    <3>4. /\ r.profile = sess[s].profile /\ r.client = sess[s].client
          /\ r.tunnel = t /\ r.forwarding = TRUE /\ r.channel = k
      BY <3>3 DEF Session
    <3>5. r \in Session
      BY <2>3, <3>3 DEF Session
    <3> HIDE DEF r
    <3> QED
      BY <1>1, <3>1, <3>3, <3>4, <3>5
  <2>5. /\ req' \in [Task -> Request] /\ \A u \in Task : u # t => req'[u] = req[u]
        /\ req'[t].at = "done" /\ req'[t].channel = None /\ req'[t].session = s
        /\ req'[t].profile = req[t].profile
    <3>1. req \in [Task -> Request] /\ "done" \in RequestAt
      BY Typed DEF LifeInv, RequestAt
    <3> QED
      BY <2>2, <3>1, Nil DEF Request
  <2>6. /\ health' \in [Task -> Probe] /\ health'[t].session = s
        /\ \A x \in Task : x # t => health'[x] = health[x]
    BY <1>1, <2>2, Typed DEF LifeInv, Probe, HealthAt
  <2>7. Owners'
    <3> HIDE DEF s
    <3>1. req[t].session = s
      BY DEF s
    <3> QED
      BY <1>1, <2>1, <2>2, <2>4, <2>5, <3>1, InstallOwners DEF open
  <2>8. sess[s].profile \in Profile
    BY <1>1 DEF Known
  <2> HIDE DEF s, k
  <2>9. Types'
    BY <1>1, <2>2, <2>4, <2>5, <2>6, <2>8, Typed, TypesNext DEF LifeInv, store, open
  <2>10. TargetRegistered'
    BY <1>1, <2>1, <2>2, <2>4, <2>8, Nil DEF TargetRegistered, Registered
  <2>11. ReferencesKnown'
    <3>1. /\ \A h \in Task : health'[h].at # "none" => Known(health'[h].session)
          /\ \A x \in Task : watcher'[x] # "none" => Known(x)
      BY <1>1, <2>2, <2>6 DEF LifeInv, ReferencesKnown
    <3> QED
      BY <1>1, <2>4, <2>5, <3>1, ReferencesStay
  <2>12. RecordsGone' /\ DeletionHolds'
    BY <2>2, <2>5, DeletionStays DEF LifeInv, RecordsGone, store
  <2> QED
    BY <2>7, <2>9, <2>10, <2>11, <2>12 DEF LifeInv
<1>3. CASE ~MayInstall(s)
  <2>1. /\ GiveUp(t, t, None, s, "done")
        /\ UNCHANGED <<sess, current, proxyProfile, health, sessions, pendingStart, lastFailure,
                       store, open, watcher>>
    BY <1>3 DEF Install
  <2>2. req[t].at \notin Pre
    BY <1>1 DEF Pre
  <2> HIDE DEF s
  <2> QED
    BY <1>1, <2>1, <2>2, GiveUpKeeps
<1> QED
  BY <1>2, <1>3

LEMMA CommitOwners ==
  ASSUME LifeInv, NEW t \in Task, NEW p \in Profile, req[t].at = "commit",
         sessions[p] = None, sessions' = [sessions EXCEPT ![p] = t],
         UNCHANGED <<cleanup, clients, channels>>, tunnels' = tunnels \cup {t},
         \A x \in Task : x # t => sess'[x] = sess[x] /\ req'[x] = req[x],
         sess'[t].profile = p, sess'[t].client = t, sess'[t].tunnel = t,
         sess'[t].channel = req[t].channel, sess'[t].forwarding = TRUE,
         req'[t].at = "end", req'[t].channel = None
  PROVE  Owners'
<1>1. /\ NothingToClose(t) /\ ~Registered(t) /\ sess[t].profile = None
      /\ t # None /\ t \notin tunnels
  BY Nil DEF LifeInv, Owners, TeardownsIdle, SessionsWhole, NamesNew, Past
<1>2. sess[t].tunnel = None /\ sess[t].channel = None
  BY <1>1, EmptiedIs, Typed DEF LifeInv, Owners, RegistryAgrees
<1>3. \A q \in Profile : sessions'[q] = IF q = p THEN t ELSE sessions[q]
  BY Typed DEF LifeInv
<1>4. \A q \in Profile : sessions[q] # t
  BY <1>1, Nil DEF LifeInv, Owners, RegistryAgrees
<1>5. Registered(t)' /\ \A x \in Task : x # t => (Registered(x)' <=> Registered(x))
  BY <1>3, Nil DEF Registered
<1>6. RegistryAgrees' /\ SessionsWhole' /\ TeardownsIdle'
  <2>1. RegistryAgrees'
    <3>1. \A q \in Profile : sessions'[q] # None => sess'[sessions'[q]].profile = q
      BY <1>3, <1>4, Typed, Nil DEF LifeInv, Owners, RegistryAgrees
    <3>2. \A x \in Task : ~Registered(x)' => sess'[x] = Emptied(x)'
      BY <1>5 DEF LifeInv, Owners, RegistryAgrees, Emptied
    <3> QED
      BY <3>1, <3>2 DEF RegistryAgrees
  <2>2. SessionsWhole'
    <3>1. /\ req'[t].at \in {"end", "done"} /\ sess'[t].client = t /\ NothingToClose(t)'
          /\ sess'[t].forwarding <=> sess'[t].tunnel # None
      BY <1>1 DEF NothingToClose
    <3>2. \A x \in Task : x # t /\ Registered(x) =>
            /\ req'[x].at \in {"end", "done"} /\ sess'[x].client = x /\ NothingToClose(x)'
            /\ sess'[x].forwarding <=> sess'[x].tunnel # None
      BY DEF LifeInv, Owners, SessionsWhole, NothingToClose
    <3> QED
      BY <1>5, <3>1, <3>2 DEF SessionsWhole
  <2>3. TeardownsIdle'
    BY DEF LifeInv, Owners, TeardownsIdle, NothingToClose
  <2> QED
    BY <2>1, <2>2, <2>3
<1>7. NamesNew'
  BY DEF LifeInv, Owners, NamesNew, Past, WithChannel, Pre
<1>8. TunnelsHeld'
  <2>1. \A x \in Task : sess[x].tunnel # t /\ cleanup[x].tunnel # t
    BY <1>1 DEF LifeInv, Owners, TunnelsHeld, SessionTunnels, TeardownTunnels
  <2>2. SessionTunnels'
    BY <1>1, <2>1, Fields, Nil DEF LifeInv, Owners, TunnelsHeld, SessionTunnels
  <2>3. TeardownTunnels'
    BY <1>1, <2>1, Fields, Nil DEF LifeInv, Owners, TunnelsHeld, TeardownTunnels
  <2>4. RequestTunnels'
    BY DEF LifeInv, Owners, TunnelsHeld, RequestTunnels
  <2>5. \A r \in tunnels : r \in Task /\ r # None
    BY Typed, Nil DEF LifeInv
  <2>6. OpenTunnels'
    BY <1>1, <1>2, <2>5 DEF LifeInv, Owners, TunnelsHeld, OpenTunnels
  <2> QED
    BY <2>2, <2>3, <2>4, <2>6 DEF TunnelsHeld
<1> DEFINE c == req[t].channel
<1>9. c # None => /\ c = t /\ t \in channels
                  /\ \A x \in Task : sess[x].channel # t /\ cleanup[x].channel # t
  BY <1>1, ChannelFacts DEF LifeInv, Owners, ChannelsHeld, SessionChannels, TeardownChannels
<1>10. ChannelsHeld'
  <2>1. SessionChannels'
    BY <1>1, <1>9, Fields, Nil DEF LifeInv, Owners, ChannelsHeld, SessionChannels
  <2>2. TeardownChannels'
    BY <1>1, <1>9, Fields, Nil DEF LifeInv, Owners, ChannelsHeld, TeardownChannels
  <2>3. RequestChannels'
    BY DEF LifeInv, Owners, ChannelsHeld, RequestChannels
  <2>4. \A r \in channels : r \in Task /\ r # None
    BY Typed, Nil DEF LifeInv
  <2>5. OpenChannels'
    BY <1>1, <1>2, <2>4 DEF LifeInv, Owners, ChannelsHeld, OpenChannels
  <2> QED
    BY <2>1, <2>2, <2>3, <2>5 DEF ChannelsHeld
<1>11. ChannelsFound'
  <2>1. \A x \in Task : x # t /\ sess[x].channel \notin {None, x} =>
          /\ sess[x].channel \in Task /\ sess[x].channel # t
          /\ req[sess[x].channel].at = "done" /\ req[sess[x].channel].session # None
    BY Fields, Nil DEF LifeInv, Owners, ChannelsFound
  <2>2. \A x \in Task : sess'[x].channel \notin {None, x} =>
          /\ req'[sess'[x].channel].at = "done" /\ req'[sess'[x].channel].session # None
    BY <1>9, <2>1
  <2>3. \A u \in Task : Resuming(u)' => sess'[req'[u].session].channel # req'[u].session
    <3> SUFFICES ASSUME NEW u \in Task, Resuming(u)'
                 PROVE  sess'[req'[u].session].channel # req'[u].session
      OBVIOUS
    <3>1. u # t /\ req'[u] = req[u] /\ Resuming(u)
      BY DEF Resuming
    <3>2. Known(req[u].session) /\ req[u].session # t
      BY <1>1, <3>1, Nil DEF LifeInv, ReferencesKnown, Resuming, Known
    <3> QED
      BY <3>1, <3>2, ChannelFacts DEF Known
  <2> QED
    BY <2>2, <2>3 DEF ChannelsFound
<1>12. ClientsHeld'
  BY <1>1, <1>5 DEF LifeInv, Owners, ClientsHeld, Pre
<1> QED
  BY <1>6, <1>7, <1>8, <1>10, <1>11, <1>12 DEF Owners

LEMMA KeepsCommit ==
  ASSUME LifeInv, NEW t \in Task, Commit(t)
  PROVE  LifeInv'
<1> DEFINE p == req[t].profile
<1>1. /\ p \in Profile /\ req[t].at = "commit" /\ sess[t].profile = None /\ t \in Maybe
      /\ req[t].channel \in Maybe
  BY Fields, Nil DEF Commit, LifeInv, ReferencesKnown, Owners, TeardownsIdle
<1>2. sessions[p] = None /\ p \notin retired
  BY <1>1, Found DEF Commit, MayCommit
<1>3. /\ tunnels' = tunnels \cup {t} /\ sessions' = [sessions EXCEPT ![p] = t]
      /\ current' = t /\ proxyProfile' = p
      /\ health' = [health EXCEPT ![t] = [at |-> "waiting", session |-> t]]
      /\ req' = [req EXCEPT ![t].at = "end", ![t].channel = None]
      /\ UNCHANGED <<pendingStart, lastFailure, store, cleanup, clients, channels, bridge>>
  BY DEF Commit
<1>4. PICK command \in BOOLEAN :
        /\ sess' = [sess EXCEPT ![t] = [profile |-> p, client |-> t, process |-> command,
             tunnel |-> t, channel |-> req[t].channel, health |-> t,
             forwarding |-> TRUE, ready |-> FALSE]]
        /\ watcher' = [watcher EXCEPT ![t] = IF command THEN "spawned" ELSE "none"]
  BY DEF Commit
<1>5. /\ sess' \in [Task -> Session] /\ \A x \in Task : x # t => sess'[x] = sess[x]
      /\ sess'[t].profile = p /\ sess'[t].client = t /\ sess'[t].tunnel = t
      /\ sess'[t].channel = req[t].channel /\ sess'[t].forwarding = TRUE
  <2> DEFINE new == [profile |-> p, client |-> t, process |-> command,
             tunnel |-> t, channel |-> req[t].channel, health |-> t,
             forwarding |-> TRUE, ready |-> FALSE]
  <2>1. new \in Session
    BY <1>1 DEF Session
  <2>2. sess \in [Task -> Session]
    BY Typed DEF LifeInv
  <2> QED
    BY <1>4, <2>1, <2>2
<1>6. /\ req' \in [Task -> Request] /\ \A u \in Task : u # t => req'[u] = req[u]
      /\ req'[t].at = "end" /\ req'[t].channel = None /\ req'[t].profile = p
  <2>1. req \in [Task -> Request] /\ "end" \in RequestAt
    BY Typed DEF LifeInv, RequestAt
  <2> QED
    BY <1>3, <2>1, Nil DEF Request
<1>7. /\ health' \in [Task -> Probe] /\ health'[t].session = t
      /\ \A x \in Task : x # t => health'[x] = health[x]
  BY <1>1, <1>3, Typed DEF LifeInv, Probe, HealthAt
<1>8. watcher' \in [Task -> WatcherAt] /\ \A x \in Task : x # t => watcher'[x] = watcher[x]
  BY <1>4, Typed DEF LifeInv, WatcherAt
<1> HIDE DEF p
<1>9. Owners'
  <2>1. /\ \A x \in Task : x # t => sess'[x] = sess[x] /\ req'[x] = req[x]
        /\ UNCHANGED <<cleanup, clients, channels>>
    BY <1>3, <1>5, <1>6
  <2>2. p \in Profile /\ sessions[p] = None /\ req[t].at = "commit"
    BY <1>1, <1>2
  <2>3. sessions' = [sessions EXCEPT ![p] = t] /\ tunnels' = tunnels \cup {t}
    BY <1>3
  <2> QED
    BY <1>5, <1>6, <2>1, <2>2, <2>3, CommitOwners
<1>10. Types'
  <2>1. sessions' \in [Profile -> Maybe] /\ bridge' \in [Profile -> Maybe]
    BY <1>1, <1>3, Typed DEF LifeInv
  <2>2. tunnels' \subseteq Task
    BY <1>3, Typed DEF LifeInv
  <2> QED
    BY <1>1, <1>3, <1>5, <1>6, <1>7, <1>8, <2>1, <2>2, Typed, TypesNext DEF LifeInv, store
<1>11. TargetRegistered'
  <2>1. sessions'[p] = t
    BY <1>1, <1>3, Typed DEF LifeInv
  <2> QED
    BY <1>1, <1>3, <1>5, <2>1, Nil DEF TargetRegistered, Registered
<1>12. ReferencesKnown'
  <2>1. \A x : Known(x) => x \in Task /\ x # t /\ sess'[x].profile \in Profile
    BY <1>1, <1>5, Nil DEF Known
  <2>2. /\ \A h \in Task : h # t /\ health[h].at # "none" => Known(health[h].session)
        /\ \A x \in Task : x # t /\ watcher[x] # "none" => Known(x)
        /\ \A u \in Task :
             /\ req[u].at # "new" => req[u].profile \in Profile
             /\ req[u].at \in {"resume", "retunnel", "install"} => Known(req[u].session)
             /\ req[u].at = "stopdeleted" /\ req[u].session # None => Known(req[u].session)
    BY DEF LifeInv, ReferencesKnown
  <2>3. /\ \A h \in Task : health'[h].at # "none" =>
             health'[h].session \in Task /\ sess'[health'[h].session].profile \in Profile
        /\ \A x \in Task : watcher'[x] # "none" => sess'[x].profile \in Profile
    BY <1>1, <1>5, <1>7, <1>8, <2>1, <2>2
  <2>4. \A u \in Task :
          /\ req'[u].at # "new" => req'[u].profile \in Profile
          /\ req'[u].at \in {"resume", "retunnel", "install"} =>
               req'[u].session \in Task /\ sess'[req'[u].session].profile \in Profile
          /\ req'[u].at = "stopdeleted" /\ req'[u].session # None =>
               req'[u].session \in Task /\ sess'[req'[u].session].profile \in Profile
    <3> SUFFICES ASSUME NEW u \in Task
                 PROVE  /\ req'[u].at # "new" => req'[u].profile \in Profile
                        /\ req'[u].at \in {"resume", "retunnel", "install"} =>
                             /\ req'[u].session \in Task
                             /\ sess'[req'[u].session].profile \in Profile
                        /\ req'[u].at = "stopdeleted" /\ req'[u].session # None =>
                             /\ req'[u].session \in Task
                             /\ sess'[req'[u].session].profile \in Profile
      OBVIOUS
    <3>1. CASE u = t
      BY <1>1, <1>6, <3>1
    <3>2. CASE u # t
      BY <1>6, <2>1, <2>2, <3>2
    <3> QED
      BY <3>1, <3>2
  <2> QED
    BY <2>3, <2>4 DEF ReferencesKnown, Known
<1>13. RecordsGone'
  BY <1>3 DEF LifeInv, RecordsGone, store
<1>14. DeletionHolds'
  <2> SUFFICES ASSUME OnceDeleted
               PROVE  DeletionHolds'
    BY DEF DeletionHolds, OnceDeleted
  <2>1. \A q \in Profile : q \in retired => sessions'[q] = sessions[q]
    BY <1>2, <1>3, Typed DEF LifeInv
  <2>2. \A u \in Task : req'[u].at \in {"stopdeleted", "erase", "revive"} =>
          u # t /\ req'[u] = req[u]
    BY <1>6
  <2>3. \A u \in Task : req[u].at \in {"stopdeleted", "erase"} =>
          /\ deletes = 1 /\ req[u].profile \in retired \cap stored /\ req[u].profile \in Profile
          /\ req[u].at = "stopdeleted" => sessions[req[u].profile] \in {None, req[u].session}
          /\ req[u].at = "erase" => sessions[req[u].profile] = None
    BY DEF LifeInv, DeletionHolds, ReferencesKnown
  <2>4. \A q \in Profile \ stored : q \in retired /\ sessions'[q] = None
    BY <2>1 DEF LifeInv, DeletionHolds
  <2>5. \A u \in Task : req[u].at # "revive"
    BY DEF LifeInv, DeletionHolds
  <2>6. \A u, v \in Task :
          req[u].at \in {"stopdeleted", "erase"} /\ req[v].at \in {"stopdeleted", "erase"} => u = v
    BY DEF LifeInv, DeletionHolds
  <2>7. retired' = retired /\ stored' = stored /\ deletes' = deletes
    BY <1>3 DEF store
  <2>8. \A u \in Task :
          /\ req'[u].at \in {"stopdeleted", "erase"} =>
               deletes' = 1 /\ req'[u].profile \in retired' \cap stored'
          /\ req'[u].at # "revive"
          /\ req'[u].at = "stopdeleted" => sessions'[req'[u].profile] \in {None, req'[u].session}
          /\ req'[u].at = "erase" => sessions'[req'[u].profile] = None
    BY <2>1, <2>2, <2>3, <2>5, <2>7
  <2>9. \A u, v \in Task :
          req'[u].at \in {"stopdeleted", "erase"} /\ req'[v].at \in {"stopdeleted", "erase"}
            => u = v
    BY <2>2, <2>6
  <2> QED
    BY <2>4, <2>7, <2>8, <2>9 DEF DeletionHolds
<1> QED
  BY <1>9, <1>10, <1>11, <1>12, <1>13, <1>14 DEF LifeInv


-----------------------------------------------------------------------------
(* The teardown of a session: stop, deletion, a failed health check, a      *)
(* remote command that failed.                                              *)

LEMMA TearDownOwners ==
  ASSUME LifeInv, NEW s \in Task, Registered(s), ReqCalm,
         sessions' = [sessions EXCEPT ![sess[s].profile] = None],
         UNCHANGED <<clients, tunnels, channels>>,
         \A x \in Task : x # s => sess'[x] = sess[x] /\ cleanup'[x] = cleanup[x],
         sess'[s] = Emptied(s), cleanup'[s].tunnel = sess[s].tunnel,
         cleanup'[s].channel = sess[s].channel, cleanup'[s].client = sess[s].client
  PROVE  Owners'
<1> DEFINE p == sess[s].profile
<1>1. /\ p \in Profile /\ sessions[p] = s /\ s # None
      /\ sess[s].client = s /\ NothingToClose(s) /\ Over(req[s].at)
  BY Nil DEF Registered, LifeInv, Owners, SessionsWhole, Over
<1>2. /\ sess'[s].profile = p /\ sess'[s].client = None /\ sess'[s].tunnel = None
      /\ sess'[s].channel = None
  BY EmptiedIs, Typed DEF LifeInv
<1>3. \A q \in Profile : sessions'[q] = IF q = p THEN None ELSE sessions[q]
  BY Typed DEF LifeInv
<1>4. \A x \in Task : Registered(x)' <=> Registered(x) /\ x # s
  BY <1>1, <1>2, <1>3, Nil DEF Registered
<1>5. RegistryAgrees'
  <2>1. \A q \in Profile : sessions'[q] # None => sess'[sessions'[q]].profile = q
    BY <1>1, <1>2, <1>3, Typed, Nil DEF LifeInv, Owners, RegistryAgrees
  <2>2. \A x \in Task : ~Registered(x)' => sess'[x] = Emptied(x)'
    BY <1>2, <1>4 DEF LifeInv, Owners, RegistryAgrees, Emptied
  <2> QED
    BY <2>1, <2>2 DEF RegistryAgrees
<1>6. SessionsWhole'
  BY <1>4 DEF LifeInv, Owners, SessionsWhole, ReqCalm, Over, NothingToClose
<1>7. TeardownsIdle'
  BY <1>1, <1>2 DEF LifeInv, Owners, TeardownsIdle, ReqCalm, Over, NothingToClose
<1>8. NamesNew'
  BY NamesCalm DEF ReqCalm
<1>9. /\ cleanup[s].tunnel = None /\ cleanup[s].channel = None /\ cleanup[s].client = None
  BY <1>1 DEF NothingToClose
<1>10. TunnelsHeld'
  <2>1. SessionTunnels'
    BY <1>2, <1>9, Fields, Nil DEF LifeInv, Owners, TunnelsHeld, SessionTunnels, ReqCalm
  <2>2. TeardownTunnels'
    BY <1>2, <1>9, Fields, Nil DEF LifeInv, Owners, TunnelsHeld, SessionTunnels, TeardownTunnels,
      ReqCalm
  <2>3. RequestTunnels'
    BY DEF LifeInv, Owners, TunnelsHeld, RequestTunnels, ReqCalm
  <2>4. \A r \in tunnels : r \in Task /\ r # None
    BY Typed, Nil DEF LifeInv
  <2>5. OpenTunnels'
    BY <1>9, <2>4 DEF LifeInv, Owners, TunnelsHeld, OpenTunnels, ReqCalm
  <2> QED
    BY <2>1, <2>2, <2>3, <2>5 DEF TunnelsHeld
<1>11. ChannelsHeld'
  <2>1. SessionChannels'
    BY <1>2, <1>9, Fields, Nil DEF LifeInv, Owners, ChannelsHeld, SessionChannels, ReqCalm
  <2>2. TeardownChannels'
    BY <1>2, <1>9, Fields, Nil DEF LifeInv, Owners, ChannelsHeld, SessionChannels,
      TeardownChannels, ReqCalm
  <2>3. RequestChannels'
    BY DEF LifeInv, Owners, ChannelsHeld, RequestChannels, ReqCalm
  <2>4. \A r \in channels : r \in Task /\ r # None
    BY Typed, Nil DEF LifeInv
  <2>5. OpenChannels'
    BY <1>9, <2>4 DEF LifeInv, Owners, ChannelsHeld, OpenChannels, ReqCalm
  <2> QED
    BY <2>1, <2>2, <2>3, <2>5 DEF ChannelsHeld
<1>12. ChannelsFound'
  BY <1>1, <1>2, Fields, Nil DEF LifeInv, Owners, ChannelsFound, ReqCalm
<1>13. ClientsHeld'
  BY <1>1, <1>4, <1>9, Nil DEF LifeInv, Owners, ClientsHeld, ReqCalm
<1> QED
  BY <1>5, <1>6, <1>7, <1>8, <1>10, <1>11, <1>12, <1>13 DEF Owners

\* Another session takes the proxy's target, or nobody.
LEMMA TearDownTarget ==
  ASSUME LifeInv, NEW s \in Task, Registered(s), Remove(s),
         \A x \in Task : x # s => sess'[x] = sess[x]
  PROVE  /\ sessions' = [sessions EXCEPT ![sess[s].profile] = None]
         /\ current' \in Maybe /\ proxyProfile' \in Profile \cup {None}
         /\ TargetRegistered'
<1> DEFINE p == sess[s].profile
<1> DEFINE left == [sessions EXCEPT ![p] = None]
<1> DEFINE candidates == {c \in Task : sess[c].forwarding /\ \E q \in Profile : left[q] = c}
<1>1. p \in Profile /\ sessions[p] = s /\ s # None /\ s \in Maybe
  BY Nil DEF Registered
<1>2. \A q \in Profile : left[q] = IF q = p THEN None ELSE sessions[q]
  BY Typed DEF LifeInv
<1>3. /\ sessions' = left
      /\ IF current \in {s, None} /\ candidates # {}
           THEN \E c \in candidates : Promote(c)
           ELSE /\ current' = IF current = s THEN None ELSE current
                /\ proxyProfile' = IF proxyProfile = p THEN None ELSE proxyProfile
  BY <1>1 DEF Remove
<1>4. \A x \in Task : x # s /\ Registered(x) => Registered(x)' /\ sess'[x] = sess[x]
  BY <1>1, <1>2, <1>3 DEF Registered
<1>5. CASE current \in {s, None} /\ candidates # {}
  <2>1. PICK c \in candidates : Promote(c)
    BY <1>3, <1>5
  <2>2. PICK q \in Profile : left[q] = c
    BY <2>1
  <2>3. c \in Task /\ c # None /\ q # p /\ sessions[q] = c
    BY <1>2, <2>1, <2>2, Nil
  <2>4. sess[c].profile = q /\ c # s
    BY <1>1, <2>3 DEF LifeInv, Owners, RegistryAgrees
  <2>5. Registered(c)' /\ sess'[c] = sess[c]
    BY <1>4, <2>3, <2>4 DEF Registered
  <2>6. current' = c /\ proxyProfile' = q
    BY <2>1, <2>4 DEF Promote
  <2>7. TargetRegistered'
    BY <2>3, <2>4, <2>5, <2>6, Nil DEF TargetRegistered
  <2> QED
    BY <1>3, <2>3, <2>6, <2>7, Nil
<1>6. CASE ~(current \in {s, None} /\ candidates # {})
  <2>1. /\ current' = IF current = s THEN None ELSE current
        /\ proxyProfile' = IF proxyProfile = p THEN None ELSE proxyProfile
    BY <1>3, <1>6
  <2>2. /\ current = None <=> proxyProfile = None
        /\ current # None => /\ current \in Task /\ Registered(current)
                             /\ proxyProfile = sess[current].profile
    BY Typed, Nil DEF LifeInv, TargetRegistered
  <2>3. current # None /\ current # s => proxyProfile # p
    BY <1>1, <2>2 DEF Registered
  <2>4. current = s => proxyProfile = p
    BY <1>1, <2>2
  <2>5. ASSUME current \in {s, None}
        PROVE  TargetRegistered'
    <3>1. current' = None
      BY <1>1, <2>1, <2>5
    <3>2. proxyProfile' = None
      BY <1>1, <2>1, <2>2, <2>4, <2>5
    <3> QED
      BY <3>1, <3>2 DEF TargetRegistered
  <2>6. ASSUME current # None /\ current # s
        PROVE  TargetRegistered'
    <3>1. current' = current /\ proxyProfile' = proxyProfile
      BY <2>1, <2>3, <2>6
    <3>2. Registered(current)' /\ sess'[current] = sess[current]
      BY <1>4, <2>2, <2>6, <3>1
    <3>3. current' # None /\ proxyProfile' # None /\ proxyProfile' = sess'[current'].profile
      BY <2>2, <2>6, <3>1, <3>2, Nil DEF Registered
    <3> QED
      BY <3>1, <3>2, <3>3 DEF TargetRegistered, Registered
  <2>7. TargetRegistered'
    BY <2>5, <2>6
  <2>8. current' \in Maybe /\ proxyProfile' \in Profile \cup {None}
    BY <2>1, Nil, Typed DEF LifeInv
  <2> QED
    BY <1>3, <2>7, <2>8
<1> QED
  BY <1>5, <1>6

LEMMA TearDownKeeps ==
  ASSUME LifeInv, NEW s \in Task, Registered(s), NEW over \in Maybe, TearDown(s, over),
         over # None => health[over].at # "none",
         ReqCalm, req' \in [Task -> Request],
         \A u \in Task : req'[u] = req[u]
                           \/ (req'[u].at \in {"done", "erase"} /\ req'[u].profile \in Profile),
         watcher' \in [Task -> WatcherAt],
         \A x \in Task : watcher'[x] # "none" => watcher[x] # "none",
         lastFailure' \subseteq lastFailure \cup (Profile \ retired),
         UNCHANGED <<pendingStart, store, open>>, DeletionHolds'
  PROVE  LifeInv'
<1>1. /\ Remove(s) /\ Cancel(sess[s].health, over)
      /\ sess' = [sess EXCEPT ![s] = Emptied(s)]
      /\ cleanup' = [cleanup EXCEPT ![s] = [tunnel |-> sess[s].tunnel,
           channel |-> sess[s].channel, client |-> sess[s].client, via |-> sess[s].client]]
  BY DEF TearDown
<1>2. /\ sess' \in [Task -> Session] /\ \A x \in Task : x # s => sess'[x] = sess[x]
      /\ sess'[s] = Emptied(s) /\ sess'[s].profile = sess[s].profile
  <2>1. sess \in [Task -> Session] /\ Emptied(s) \in Session
    BY Typed, EmptiedIs DEF LifeInv
  <2> QED
    BY <1>1, <2>1, EmptiedIs
<1>3. /\ cleanup' \in [Task -> Teardown] /\ \A x \in Task : x # s => cleanup'[x] = cleanup[x]
      /\ cleanup'[s].tunnel = sess[s].tunnel /\ cleanup'[s].channel = sess[s].channel
      /\ cleanup'[s].client = sess[s].client
  <2> DEFINE left == [tunnel |-> sess[s].tunnel, channel |-> sess[s].channel,
                      client |-> sess[s].client, via |-> sess[s].client]
  <2>1. left \in Teardown
    BY Fields DEF Teardown
  <2>2. cleanup \in [Task -> Teardown]
    BY Typed DEF LifeInv
  <2> QED
    BY <1>1, <2>1, <2>2
<1>4. /\ health' \in [Task -> Probe]
      /\ \A x \in Task : /\ health'[x].session = health[x].session
                         /\ health'[x].at # "none" => health[x].at # "none"
  BY <1>1, Cancels, Nil
<1>5. /\ sessions' = [sessions EXCEPT ![sess[s].profile] = None]
      /\ current' \in Maybe /\ proxyProfile' \in Profile \cup {None} /\ TargetRegistered'
  BY <1>1, <1>2, TearDownTarget
<1>6. Owners'
  BY <1>2, <1>3, <1>5, TearDownOwners DEF open
<1>7. Types'
  <2>1. sessions' \in [Profile -> Maybe]
    BY <1>5, Nil, Typed DEF LifeInv
  <2> QED
    BY <1>2, <1>3, <1>4, <1>5, <2>1, Typed, TypesNext DEF LifeInv, store, open
<1>8. ReferencesKnown'
  <2>1. \A x : Known(x)' <=> Known(x)
    BY <1>2 DEF Known
  <2>2. /\ \A h \in Task : health'[h].at # "none" => Known(health[h].session)
        /\ \A x \in Task : watcher'[x] # "none" => Known(x)
    BY <1>4 DEF LifeInv, ReferencesKnown
  <2>3. /\ \A h \in Task : health'[h].at # "none" =>
             health'[h].session \in Task /\ sess'[health'[h].session].profile \in Profile
        /\ \A x \in Task : watcher'[x] # "none" => sess'[x].profile \in Profile
    BY <1>2, <1>4, <2>2 DEF Known
  <2>4. \A u \in Task :
          /\ req[u].at # "new" => req[u].profile \in Profile
          /\ req[u].at \in {"resume", "retunnel", "install"} => Known(req[u].session)
          /\ req[u].at = "stopdeleted" /\ req[u].session # None => Known(req[u].session)
    BY DEF LifeInv, ReferencesKnown
  <2>5. \A u \in Task :
          /\ req'[u].at # "new" => req'[u].profile \in Profile
          /\ req'[u].at \in {"resume", "retunnel", "install"} =>
               req'[u].session \in Task /\ sess'[req'[u].session].profile \in Profile
          /\ req'[u].at = "stopdeleted" /\ req'[u].session # None =>
               req'[u].session \in Task /\ sess'[req'[u].session].profile \in Profile
    <3> TAKE u \in Task
    <3>1. CASE req'[u] = req[u]
      BY <1>2, <2>4, <3>1 DEF Known
    <3>2. CASE req'[u].at \in {"done", "erase"} /\ req'[u].profile \in Profile
      BY <3>2
    <3> QED
      BY <3>1, <3>2
  <2> QED
    BY <2>3, <2>5 DEF ReferencesKnown, Known
<1>9. RecordsGone'
  BY DEF LifeInv, RecordsGone, store
<1> QED
  BY <1>5, <1>6, <1>7, <1>8, <1>9 DEF LifeInv

\* A teardown ends a session; it moves no deletion on.
LEMMA TearDownDeletion ==
  ASSUME LifeInv, NEW s \in Task, Registered(s), Remove(s), UNCHANGED store,
         \A u \in Task : req'[u].at \in {"stopdeleted", "erase", "revive"} => req'[u] = req[u]
  PROVE  DeletionHolds'
<1>1. sessions' = [sessions EXCEPT ![sess[s].profile] = None]
  BY DEF Remove, Registered
<1>2. \A p \in Profile : sessions'[p] \in {None, sessions[p]}
  BY <1>1, Typed DEF LifeInv
<1> QED
  BY <1>2, DeletionStays DEF store

LEMMA KeepsStop ==
  ASSUME LifeInv, NEW t \in Task, NEW p \in Profile, Stop(t, p)
  PROVE  LifeInv'
<1> DEFINE s == sessions[p]
<1>1. s \in Task /\ Registered(s) /\ TearDown(s, None)
  BY Found DEF Stop
<1>2. /\ "done" \in RequestAt /\ Begun(t, p, "done")
  BY DEF RequestAt, Begun, Stop
<1>3. /\ req' \in [Task -> Request] /\ \A u \in Task : u # t => req'[u] = req[u]
      /\ req'[t].at = "done" /\ req'[t].profile = p /\ req'[t].channel = req[t].channel
  BY <1>2, Begins
<1>4. ReqCalm
  <2>1. Moved(t)
    BY <1>3 DEF Moved, Calm, Stop
  <2> QED
    BY <1>3, <2>1, MovesCalm
<1>5. \A u \in Task : req'[u] = req[u]
                        \/ (req'[u].at \in {"done", "erase"} /\ req'[u].profile \in Profile)
  BY <1>3
<1>6. /\ watcher' \in [Task -> WatcherAt] /\ watcher' = watcher
      /\ lastFailure' \subseteq lastFailure \cup (Profile \ retired)
      /\ UNCHANGED <<pendingStart, store, open>>
  BY Typed DEF LifeInv, Stop
<1> HIDE DEF s
<1>7. DeletionHolds'
  BY <1>1, <1>3, <1>6, TearDownDeletion DEF TearDown
<1> QED
  BY <1>1, <1>3, <1>4, <1>5, <1>6, <1>7, TearDownKeeps, Nil

LEMMA KeepsHealthFails ==
  ASSUME LifeInv, NEW h \in Task, HealthFails(h)
  PROVE  LifeInv'
<1> DEFINE s == health[h].session
<1>1. Known(s) /\ health[h].at # "none"
  BY DEF HealthFails, LifeInv, ReferencesKnown
<1>2. /\ lastFailure' \subseteq lastFailure \cup (Profile \ retired)
      /\ UNCHANGED <<pendingStart, store, req, open, watcher>>
  BY <1>1 DEF HealthFails, RecordFailure, Known
<1>3. /\ req' \in [Task -> Request] /\ watcher' \in [Task -> WatcherAt]
  BY <1>2, Typed DEF LifeInv
<1>4. ReqCalm
  BY <1>2, StaysCalm
<1>5. CASE StillActive(s)
  <2>1. s \in Task /\ Registered(s) /\ TearDown(s, h)
    BY <1>1, <1>5, ActiveIs DEF HealthFails, Known
  <2> HIDE DEF s
  <2>2. DeletionHolds'
    BY <1>2, <2>1, TearDownDeletion DEF TearDown
  <2> QED
    BY <1>1, <1>2, <1>3, <1>4, <2>1, <2>2, TearDownKeeps, Nil
<1>6. CASE ~StillActive(s)
  <2>1. Cancel(None, h) /\ UNCHANGED <<sessions, current, proxyProfile, sess, cleanup>>
    BY <1>6 DEF HealthFails
  <2>2. /\ health' \in [Task -> Probe]
        /\ \A x \in Task : /\ health'[x].session = health[x].session
                           /\ health'[x].at # "none" => health[x].at # "none"
    BY <1>1, <2>1, Cancels
  <2>3. SessCalm /\ sess' \in [Task -> Session]
    BY <2>1, Typed DEF LifeInv, SessCalm
  <2> QED
    BY <1>2, <1>3, <2>1, <2>2, <2>3, ObservedKeeps
<1> QED
  BY <1>5, <1>6

LEMMA KeepsCommandFails ==
  ASSUME LifeInv, NEW s \in Task, CommandFails(s)
  PROVE  LifeInv'
<1>1. Known(s) /\ watcher[s] # "none"
  BY DEF CommandFails, LifeInv, ReferencesKnown
<1>2. /\ watcher' \in [Task -> WatcherAt]
      /\ \A x \in Task : watcher'[x] # "none" => watcher[x] # "none"
  BY <1>1, Typed DEF LifeInv, CommandFails, WatcherAt
<1>3. /\ UNCHANGED <<pendingStart, store, req, open>> /\ req' \in [Task -> Request]
  BY Typed DEF LifeInv, CommandFails
<1>4. ReqCalm
  BY <1>3, StaysCalm
<1>5. CASE StillActive(s)
  <2>1. Registered(s) /\ TearDown(s, None) /\ RecordFailure(sess[s].profile)
    BY <1>1, <1>5, ActiveIs DEF CommandFails, Known
  <2>2. lastFailure' \subseteq lastFailure \cup (Profile \ retired)
    BY <1>1, <2>1 DEF RecordFailure, Known
  <2>3. DeletionHolds'
    BY <1>3, <2>1, TearDownDeletion DEF TearDown
  <2> QED
    BY <1>2, <1>3, <1>4, <2>1, <2>2, <2>3, TearDownKeeps, Nil
<1>6. CASE ~StillActive(s)
  <2>1. UNCHANGED <<sessions, current, proxyProfile, sess, cleanup, health, lastFailure>>
    BY <1>6 DEF CommandFails
  <2>2. SessCalm /\ sess' \in [Task -> Session] /\ health' \in [Task -> Probe]
    BY <2>1, Typed DEF LifeInv, SessCalm
  <2> QED
    BY <1>2, <1>3, <2>1, <2>2, ObservedKeeps
<1> QED
  BY <1>5, <1>6

LEMMA KeepsDeleteStops ==
  ASSUME LifeInv, NEW t \in Task, DeleteStops(t)
  PROVE  LifeInv'
<1> DEFINE s == req[t].session
<1> DEFINE p == req[t].profile
<1>1. p \in Profile /\ s \in Maybe /\ (s # None => Known(s))
  BY Fields DEF DeleteStops, LifeInv, ReferencesKnown
<1>2. /\ "erase" \in RequestAt /\ Go(t, "erase")
  BY DEF RequestAt, DeleteStops
<1>3. /\ req' \in [Task -> Request] /\ \A u \in Task : u # t => req'[u] = req[u]
      /\ req'[t].at = "erase" /\ req'[t].profile = p /\ req'[t].channel = req[t].channel
  BY <1>2, Goes
<1>4. Moved(t) /\ ReqCalm
  <2>1. Moved(t)
    BY <1>3 DEF Moved, Calm, DeleteStops
  <2> QED
    BY <1>3, <2>1, MovesCalm
<1>5. /\ UNCHANGED <<pendingStart, lastFailure, store, open, watcher>>
      /\ watcher' \in [Task -> WatcherAt] /\ req[t].at = "stopdeleted"
  BY Typed DEF LifeInv, DeleteStops
\* The session that the deletion found is gone, and the profile has no other.
<1>6. ASSUME \A q \in Profile : sessions'[q] \in {None, sessions[q]},
             s # None /\ sessions[p] = s => sessions'[p] = None
      PROVE  DeletionHolds'
  <2> SUFFICES ASSUME OnceDeleted
               PROVE  DeletionHolds'
    BY DEF DeletionHolds, OnceDeleted
  <2>1. /\ deletes = 1 /\ p \in retired \cap stored /\ sessions[p] \in {None, s}
        /\ \A u \in Task : req[u].at \in {"stopdeleted", "erase"} => u = t
        /\ \A u \in Task : req[u].at # "revive"
        /\ \A q \in Profile \ stored : q \in retired /\ sessions[q] = None
    BY <1>5 DEF LifeInv, DeletionHolds
  <2>2. sessions'[p] = None
    BY <1>1, <1>6, <2>1
  <2>3. \A u \in Task : /\ req'[u].at \in {"stopdeleted", "erase"} => u = t
                        /\ req'[u].at # "revive"
    BY <1>3, <2>1
  <2>4. retired' = retired /\ stored' = stored /\ deletes' = deletes
    BY <1>5 DEF store
  <2>5. \A q \in Profile \ stored' : q \in retired' /\ sessions'[q] = None
    BY <1>6, <2>1, <2>4
  <2> HIDE DEF p
  <2> QED
    BY <1>3, <2>1, <2>2, <2>3, <2>4, <2>5 DEF DeletionHolds
<1>7. CASE s # None /\ StillActive(s)
  <2>1. s \in Task /\ Registered(s) /\ TearDown(s, None)
    BY <1>1, <1>7, ActiveIs DEF DeleteStops, Known
  <2>2. sessions' = [sessions EXCEPT ![sess[s].profile] = None]
    BY <2>1 DEF TearDown, Remove, Registered
  <2>3. DeletionHolds'
    <3>1. \A q \in Profile : sessions'[q] \in {None, sessions[q]}
      BY <2>2, Typed DEF LifeInv
    <3>2. sessions[p] = s => sessions'[p] = None
      BY <1>1, <1>7, <2>2, Found, Typed DEF LifeInv
    <3> QED
      BY <1>6, <3>1, <3>2
  <2>4. \A u \in Task : req'[u] = req[u]
                          \/ (req'[u].at \in {"done", "erase"} /\ req'[u].profile \in Profile)
    BY <1>1, <1>3
  <2> HIDE DEF s, p
  <2> QED
    BY <1>3, <1>4, <1>5, <2>1, <2>3, <2>4, TearDownKeeps, Nil
<1>8. CASE ~(s # None /\ StillActive(s))
  <2>1. UNCHANGED <<sessions, current, proxyProfile, sess, cleanup, health>>
    BY <1>8 DEF DeleteStops
  <2>2. s # None => ~Registered(s)
    BY <1>1, <1>8, ActiveIs DEF Known
  <2>3. sessions[p] # None => Registered(sessions[p])
    BY <1>1, Found
  <2>4. DeletionHolds'
    BY <1>6, <2>1, <2>2, <2>3
  <2>5. /\ pendingStart' \subseteq Profile /\ lastFailure' \subseteq Profile
        /\ retired' \subseteq Profile /\ stored' \subseteq Profile /\ deletes' \in 0..MaxDeletes
        /\ RecordsGone'
    BY <1>5, Typed DEF store, LifeInv, RecordsGone
  <2> HIDE DEF s, p
  <2> QED
    BY <1>1, <1>3, <1>4, <1>5, <2>1, <2>4, <2>5, QuietKeeps
<1> QED
  BY <1>7, <1>8


-----------------------------------------------------------------------------
(* The invariant, and what it says.                                         *)

LEMMA InitInv ==
  ASSUME Init
  PROVE  LifeInv
<1>1. \A s \in Task : /\ sess[s] = NoSession /\ sess[s].profile = None /\ sess[s].client = None
                      /\ sess[s].tunnel = None /\ sess[s].channel = None
                      /\ ~Registered(s)
  BY Nil DEF Init, NoSession, Registered
<1>2. \A t \in Task : /\ req[t].at = "new" /\ req[t].channel = None /\ NothingToClose(t)
                      /\ cleanup[t].tunnel = None /\ cleanup[t].channel = None
                      /\ cleanup[t].client = None
  BY DEF Init, NewRequest, Nothing, NothingToClose
<1>3. Types
  <2>1. /\ NoSession \in Session /\ NewRequest \in Request /\ Nothing \in Teardown
        /\ [at |-> "none", session |-> None] \in Probe /\ "none" \in WatcherAt
        /\ 0 \in 0..MaxDeletes
    BY Nil, LifecycleAssumption DEF NoSession, NewRequest, Nothing, Session, Request, Teardown,
      Probe, HealthAt, WatcherAt, RequestAt
  <2> QED
    BY <2>1, Typed, Nil DEF Init
<1>4. RegistryAgrees
  <2>1. \A s \in Task : sess[s] = Emptied(s)
    BY <1>1, Nil DEF Emptied, NoSession
  <2> QED
    BY <2>1 DEF Init, RegistryAgrees
<1>5. SessionsWhole /\ TeardownsIdle /\ NamesNew
  BY <1>1, <1>2 DEF Init, SessionsWhole, TeardownsIdle, NamesNew
<1>6. TunnelsHeld
  BY <1>1, <1>2 DEF Init, TunnelsHeld, SessionTunnels, TeardownTunnels, RequestTunnels, OpenTunnels
<1>7. ChannelsHeld /\ ChannelsFound
  BY <1>1, <1>2 DEF Init, ChannelsHeld, SessionChannels, TeardownChannels, RequestChannels,
    OpenChannels, ChannelsFound, Resuming
<1>8. ClientsHeld
  BY <1>1, <1>2, Nil DEF Init, ClientsHeld, Pre
<1>9. TargetRegistered /\ RecordsGone
  BY DEF Init, TargetRegistered, RecordsGone
<1>10. ReferencesKnown
  BY <1>2 DEF Init, ReferencesKnown
<1>11. DeletionHolds
  BY <1>2 DEF Init, DeletionHolds
<1> QED
  BY <1>3, <1>4, <1>5, <1>6, <1>7, <1>8, <1>9, <1>10, <1>11 DEF LifeInv, Owners

LEMMA StutterKeeps ==
  ASSUME LifeInv, UNCHANGED vars
  PROVE  LifeInv'
<1>1. UNCHANGED <<sessions, current, proxyProfile, pendingStart, lastFailure, retired, stored,
                  deletes, sess, req, cleanup, clients, tunnels, channels, bridge, health,
                  watcher>>
  BY DEF vars, server, store, open
<1>2. Owners'
  <2>1. SessCalm /\ ReqCalm
    BY <1>1, StaysCalm DEF SessCalm
  <2> QED
    BY <1>1, <2>1, CalmOwners
<1>3. Types'
  BY <1>1, Typed, TypesNext DEF LifeInv
<1>4. TargetRegistered' /\ ReferencesKnown' /\ RecordsGone' /\ DeletionHolds'
  BY <1>1 DEF LifeInv, TargetRegistered, ReferencesKnown, RecordsGone, DeletionHolds, Registered,
    Known
<1> QED
  BY <1>2, <1>3, <1>4 DEF LifeInv

LEMMA NextKeeps ==
  ASSUME LifeInv, Next
  PROVE  LifeInv'
<1>1. PICK t \in Task : \/ \E p \in Profile : NewRequests(t, p)
                        \/ Proceed(t) \/ HealthStep(t) \/ WatcherStep(t)
  BY DEF Next
<1>2. CASE \E p \in Profile : NewRequests(t, p)
  BY <1>2, KeepsStartRequest, KeepsPause, KeepsStop, KeepsDelete, KeepsSave, KeepsActivate
    DEF NewRequests
<1>3. CASE Proceed(t)
  <2>1. CASE CloseTunnel(t) \/ CloseChannel(t) \/ CloseClient(t) \/ Closed(t)
    BY <2>1, KeepsCloseTunnel, KeepsCloseChannel, KeepsCloseClient, KeepsClosed
  <2>2. CASE StopFirst(t) \/ Check(t) \/ Paused(t)
    BY <2>2, KeepsStopFirst, KeepsCheck, KeepsPaused
  <2>3. CASE ResumeChannel(t) \/ ResumeTunnel(t) \/ Install(t)
    BY <2>3, KeepsResumeChannel, KeepsResumeTunnel, KeepsInstall
  <2>4. CASE Dial(t) \/ DialFails(t) \/ StartAsync(t) \/ StartChannel(t) \/ PortCheck(t)
    BY <2>4, KeepsDial, KeepsDialFails, KeepsStartAsync, KeepsStartChannel, KeepsPortCheck
  <2>5. CASE Commit(t) \/ CommitFails(t) \/ StartEnds(t)
    BY <2>5, KeepsCommit, KeepsCommitFails, KeepsStartEnds
  <2>6. CASE DeleteStops(t) \/ Erase(t) \/ Revive(t)
    BY <2>6, KeepsDeleteStops, KeepsErase, KeepsRevive
  <2> QED
    BY <1>3, <2>1, <2>2, <2>3, <2>4, <2>5, <2>6 DEF Proceed, Advance, CloseNext
<1>4. CASE HealthStep(t)
  BY <1>4, KeepsHealthAnswers, KeepsMarkReady, KeepsHealthFails DEF HealthStep
<1>5. CASE WatcherStep(t)
  BY <1>5, KeepsWatcherStarts, KeepsCommandExits, KeepsCommandFails DEF WatcherStep
<1> QED
  BY <1>1, <1>2, <1>3, <1>4, <1>5

LEMMA AlwaysInv == Spec => []LifeInv
<1>1. Init => LifeInv
  BY InitInv
<1>2. LifeInv /\ [Next]_vars => LifeInv'
  BY NextKeeps, StutterKeeps
<1> QED
  BY <1>1, <1>2, PTL DEF Spec

\* A session that holds anything is registered.
LEMMA HoldersActive ==
  ASSUME LifeInv, NEW s \in Task,
         sess[s].tunnel # None \/ sess[s].channel # None \/ sess[s].client # None
  PROVE  Registered(s) /\ StillActive(s)
<1>1. Registered(s)
  BY EmptiedIs, Typed DEF LifeInv, Owners, RegistryAgrees
<1> QED
  BY <1>1, ActiveIs DEF Registered

\* The holders of a tunnel, a channel or a client.
Holders(A, B, C) ==
  {<<"session", y>> : y \in A} \cup {<<"cleanup", y>> : y \in B}
    \cup {<<"request", y>> : y \in C}

\* One holder, of whichever kind.
LEMMA OneHolder ==
  ASSUME NEW A, NEW B, NEW C, NEW x,
         \/ A = {x} /\ B = {} /\ C = {}
         \/ A = {} /\ B = {x} /\ C = {}
         \/ A = {} /\ B = {} /\ C = {x}
  PROVE  Cardinality(Holders(A, B, C)) = 1
<1>1. CASE A = {x} /\ B = {} /\ C = {}
  <2>1. Holders(A, B, C) = {<<"session", x>>}
    BY <1>1 DEF Holders
  <2> QED
    BY <2>1, FS_Singleton
<1>2. CASE A = {} /\ B = {x} /\ C = {}
  <2>1. Holders(A, B, C) = {<<"cleanup", x>>}
    BY <1>2 DEF Holders
  <2> QED
    BY <2>1, FS_Singleton
<1>3. CASE A = {} /\ B = {} /\ C = {x}
  <2>1. Holders(A, B, C) = {<<"request", x>>}
    BY <1>3 DEF Holders
  <2> QED
    BY <2>1, FS_Singleton
<1> QED
  BY <1>1, <1>2, <1>3

LEMMA TunnelOwned ==
  ASSUME LifeInv, NEW r \in tunnels
  PROVE  Cardinality(HoldsTunnel(r)) = 1
<1> DEFINE byS == {x \in Task : sess[x].tunnel = r /\ StillActive(x)}
<1> DEFINE byC == {x \in Task : cleanup[x].tunnel = r}
<1> DEFINE byR == {x \in {r} : req[x].at = "install"}
<1>1. r \in Task /\ r # None
  BY Typed, Nil DEF LifeInv
<1>2. byS = {x \in Task : sess[x].tunnel = r}
  BY <1>1, HoldersActive
<1>3. \E x \in Task : \/ byS = {x} /\ byC = {} /\ byR = {}
                      \/ byS = {} /\ byC = {x} /\ byR = {}
                      \/ byS = {} /\ byC = {} /\ byR = {x}
  <2>1. CASE req[r].at = "install"
    <3>1. byS = {} /\ byC = {} /\ byR = {r}
      BY <1>1, <1>2, <2>1 DEF LifeInv, Owners, TunnelsHeld, SessionTunnels, TeardownTunnels
    <3> QED
      BY <1>1, <3>1
  <2>2. CASE req[r].at # "install"
    <3>1. PICK x \in Task : sess[x].tunnel = r \/ cleanup[x].tunnel = r
      BY <2>2 DEF LifeInv, Owners, TunnelsHeld, OpenTunnels
    <3>2. byR = {}
      BY <2>2
    <3>3. CASE sess[x].tunnel = r
      <4>1. byS = {x} /\ byC = {}
        BY <1>1, <1>2, <3>3 DEF LifeInv, Owners, TunnelsHeld, SessionTunnels
      <4> QED
        BY <3>2, <4>1
    <3>4. CASE cleanup[x].tunnel = r
      <4>1. byS = {} /\ byC = {x}
        BY <1>1, <1>2, <3>4 DEF LifeInv, Owners, TunnelsHeld, SessionTunnels, TeardownTunnels
      <4> QED
        BY <3>2, <4>1
    <3> QED
      BY <3>1, <3>3, <3>4
  <2> QED
    BY <2>1, <2>2
<1>4. HoldsTunnel(r) = Holders(byS, byC, byR)
  BY DEF HoldsTunnel, Holders
<1> HIDE DEF byS, byC, byR
<1> QED
  BY <1>3, <1>4, OneHolder

LEMMA ChannelOwned ==
  ASSUME LifeInv, NEW r \in channels
  PROVE  Cardinality(HoldsChannel(r)) = 1 \/ Replaced(r)
<1> DEFINE byS == {x \in Task : sess[x].channel = r /\ StillActive(x)}
<1> DEFINE byC == {x \in Task : cleanup[x].channel = r}
<1> DEFINE byR == {x \in Task : req[x].channel = r}
<1>1. r \in Task /\ r # None
  BY Typed, Nil DEF LifeInv
<1>2. byS = {x \in Task : sess[x].channel = r}
  BY <1>1, HoldersActive
<1>3. byR \subseteq {r}
  BY <1>1 DEF LifeInv, Owners, ChannelsHeld, RequestChannels
<1>4. \/ \E x \in Task : \/ byS = {x} /\ byC = {} /\ byR = {}
                         \/ byS = {} /\ byC = {x} /\ byR = {}
                         \/ byS = {} /\ byC = {} /\ byR = {x}
      \/ byS = {} /\ byC = {} /\ byR = {} /\ req[r].at = "done" /\ req[r].session # None
  <2>1. CASE req[r].channel = r
    <3>1. byS = {} /\ byC = {} /\ byR = {r}
      BY <1>1, <1>2, <1>3, <2>1 DEF LifeInv, Owners, ChannelsHeld, SessionChannels,
        TeardownChannels
    <3> QED
      BY <1>1, <3>1
  <2>2. CASE req[r].channel # r
    <3>1. byR = {}
      BY <1>3, <2>2
    <3>2. ASSUME NEW x \in Task, sess[x].channel = r
          PROVE  byS = {x} /\ byC = {}
      BY <1>1, <1>2, <3>2 DEF LifeInv, Owners, ChannelsHeld, SessionChannels
    <3>3. ASSUME NEW x \in Task, cleanup[x].channel = r
          PROVE  byS = {} /\ byC = {x}
      BY <1>1, <1>2, <3>3 DEF LifeInv, Owners, ChannelsHeld, SessionChannels, TeardownChannels
    <3>4. CASE \A x \in Task : sess[x].channel # r /\ cleanup[x].channel # r
      <4>1. byS = {} /\ byC = {}
        BY <3>4
      <4>2. req[r].at = "done" /\ req[r].session # None
        BY <2>2, <3>4 DEF LifeInv, Owners, ChannelsHeld, OpenChannels
      <4> QED
        BY <3>1, <4>1, <4>2
    <3> HIDE DEF byS, byC, byR
    <3> QED
      BY <3>1, <3>2, <3>3, <3>4
  <2> QED
    BY <2>1, <2>2
<1>5. HoldsChannel(r) = Holders(byS, byC, byR)
  BY DEF HoldsChannel, Holders
<1> HIDE DEF byS, byC, byR
<1>6. CASE \E x \in Task : \/ byS = {x} /\ byC = {} /\ byR = {}
                           \/ byS = {} /\ byC = {x} /\ byR = {}
                           \/ byS = {} /\ byC = {} /\ byR = {x}
  BY <1>5, <1>6, OneHolder
<1>7. CASE byS = {} /\ byC = {} /\ byR = {} /\ req[r].at = "done" /\ req[r].session # None
  BY <1>5, <1>7 DEF Replaced, Holders
<1> QED
  BY <1>4, <1>6, <1>7

LEMMA ClientOwned ==
  ASSUME LifeInv, NEW r \in clients
  PROVE  Cardinality(HoldsClient(r)) = 1
<1> DEFINE byS == {x \in Task : sess[x].client = r /\ StillActive(x)}
<1> DEFINE byC == {x \in Task : cleanup[x].client = r}
<1> DEFINE byR == {x \in {r} : req[x].at \in Pre}
<1>1. r \in Task /\ r # None
  BY Typed, Nil DEF LifeInv
<1>2. /\ byS = {x \in {r} : Registered(x)}
      /\ byC = {x \in {r} : cleanup[x].client = r}
  <2>1. \A x \in Task : sess[x].client = r /\ StillActive(x) <=> x = r /\ Registered(x)
    BY <1>1, HoldersActive DEF LifeInv, Owners, SessionsWhole
  <2>2. \A x \in Task : cleanup[x].client = r => x = r
    BY <1>1 DEF LifeInv, Owners, ClientsHeld
  <2> QED
    BY <1>1, <2>1, <2>2
<1>3. /\ Registered(r) \/ cleanup[r].client = r \/ req[r].at \in Pre
      /\ Registered(r) => cleanup[r].client # r /\ req[r].at \notin Pre
      /\ cleanup[r].client = r => req[r].at \notin Pre
  BY <1>1 DEF LifeInv, Owners, ClientsHeld, SessionsWhole, TeardownsIdle, NothingToClose, Pre
<1>4. \/ byS = {r} /\ byC = {} /\ byR = {}
      \/ byS = {} /\ byC = {r} /\ byR = {}
      \/ byS = {} /\ byC = {} /\ byR = {r}
  BY <1>2, <1>3
<1>5. HoldsClient(r) = Holders(byS, byC, byR)
  BY DEF HoldsClient, Holders, Pre
<1> HIDE DEF byS, byC, byR
<1> QED
  BY <1>4, <1>5, OneHolder

-----------------------------------------------------------------------------
\* TargetAgrees for any number of requests: whatever starts, stops and failures
\* overlap, the proxy serves a session that is registered, and its profile
\* (gui.go:1095, gui.go:1126).
THEOREM TargetAlwaysAgrees == Spec => []TargetAgrees
<1>1. ASSUME LifeInv
      PROVE  TargetAgrees
  BY <1>1 DEF LifeInv, TargetRegistered, TargetAgrees, Registered
<1> QED
  BY <1>1, AlwaysInv, PTL

\* ForwardingWorks for any number of requests: what a session forwards through is
\* open, though pauses, resumptions and teardowns close outside the lock
\* (gui.go:2119, gui.go:2191).
THEOREM ForwardingAlwaysWorks == Spec => []ForwardingWorks
<1>1. ASSUME LifeInv, NEW p \in Profile, sessions[p] # None
      PROVE  LET s == sessions[p] IN /\ sess[s].client = s /\ s \in clients
                                     /\ sess[s].forwarding => sess[s].tunnel \in tunnels
  <2>1. sessions[p] \in Task /\ Registered(sessions[p])
    BY <1>1, Found
  <2> QED
    BY <1>1, <2>1 DEF LifeInv, Owners, SessionsWhole, ClientsHeld, TunnelsHeld, SessionTunnels
<1>2. LifeInv => ForwardingWorks
  BY <1>1 DEF ForwardingWorks
<1> QED
  BY <1>2, AlwaysInv, PTL

\* ResourcesOwned for any number of requests: a tunnel, a proxy channel and an
\* SSH connection pass from the start that opens them to the session and to its
\* teardown, and none is lost or closed twice on the way, but for the channel that
\* a second resumption replaces (gui.go:800, gui.go:1195, gui.go:1208, gui.go:2191).
THEOREM ResourcesAlwaysOwned == Spec => []ResourcesOwned
<1>1. ASSUME LifeInv
      PROVE  ResourcesOwned
  <2>1. \A s \in Task : sess[s] # [NoSession EXCEPT !.profile = sess[s].profile]
                          => sessions[sess[s].profile] = s
    BY <1>1 DEF LifeInv, Owners, RegistryAgrees, Registered, Emptied
  <2>2. OneOwner
    BY <1>1, TunnelOwned, ChannelOwned, ClientOwned DEF OneOwner
  <2> QED
    BY <1>1, <2>1, <2>2 DEF ResourcesOwned, TypeOK, LifeInv
<1> QED
  BY <1>1, AlwaysInv, PTL

\* DeletedLeavesNothing for any number of requests, where a profile is deleted
\* once and none is saved: a start that was under way finds the profile retired
\* and leaves neither a session nor a record (gui.go:834, gui.go:1296).
THEOREM DeletedAlwaysLeavesNothing ==
  ASSUME OnceDeleted
  PROVE  Spec => []DeletedLeavesNothing
<1>1. LifeInv => DeletedLeavesNothing
  BY DEF LifeInv, DeletionHolds, RecordsGone, DeletedLeavesNothing, DeletedStays,
    DeletedHasNoRecords
<1> QED
  BY <1>1, AlwaysInv, PTL
=============================================================================

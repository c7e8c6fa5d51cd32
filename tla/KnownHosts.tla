----------------------------- MODULE KnownHosts -----------------------------
(***************************************************************************)
(* The known_hosts file (internal/sshclient/hostkey.go). A connection reads *)
(* it when it is set up and compares the server's key with what it has read *)
(* during the handshake, later; what it then writes is serialized by        *)
(* knownHostsMu. Line numbers are those of the first reading.               *)
(***************************************************************************)
EXTENDS Integers, Sequences, FiniteSets, Positions

CONSTANTS
  Host,      \* addresses of servers
  KeyType,   \* types of host keys
  Dialer,    \* connections
  Replacer,  \* those for which the user may confirm a changed key
  MaxHostLines   \* bound: lines at the beginning

ASSUME HostsAssumption ==
  /\ IsFiniteSet(Host) /\ IsFiniteSet(KeyType) /\ IsFiniteSet(Dialer)
  /\ Host # {} /\ KeyType # {}
  /\ Replacer \subseteq Dialer /\ MaxHostLines \in Nat

VARIABLES
  lines,  \* the lines of known_hosts, each a host and its key
  dial    \* [Dialer -> [at, policy, host, key, read]]

hostsVars == <<lines, dial>>

Key == [type : KeyType, value : {"old", "new"}]
Line == [host : Host, key : Key]
Policy == {"strict", "acceptNew", "replaceChanged"}

HostsTypeOK ==
  /\ lines \in Seq(Line)
  /\ \A d \in Dialer :
       /\ dial[d].at \in {"new", "handshake", "append", "replace", "trusted", "refused"}
       /\ dial[d].policy \in Policy /\ dial[d].host \in Host /\ dial[d].key \in Key
       /\ dial[d].read \in Seq(Line)

HostsInit ==
  /\ \E n \in 0..MaxHostLines : lines \in [1..n -> Line]
  /\ \A n, m \in DOMAIN lines : lines[n].host = lines[m].host /\ lines[n].key.type = lines[m].key.type
                                 => n = m
  /\ dial \in [Dialer -> [at : {"new"}, policy : {"strict"}, host : {CHOOSE h \in Host : TRUE},
                        key : {CHOOSE k \in Key : TRUE}, read : {<<>>}]]

\* ensureKnownHostsFile and knownhosts.New, for a request with the user's
\* choice; the server will show some key.
Setup(d) ==
  /\ dial[d].at = "new"
  /\ \E policy \in IF d \in Replacer THEN Policy ELSE Policy \ {"replaceChanged"},
        host \in Host, key \in Key :
       dial' = [dial EXCEPT ![d] = [at |-> "handshake", policy |-> policy, host |-> host,
                                    key |-> key, read |-> lines]]
  /\ UNCHANGED lines

\* The lines that knownhosts finds for the host, as they were read: the first of
\* each type.
Want(d) == {n \in DOMAIN dial[d].read :
  /\ dial[d].read[n].host = dial[d].host
  /\ ~\E m \in 1..(n - 1) : /\ dial[d].read[m].host = dial[d].host
                            /\ dial[d].read[m].key.type = dial[d].read[n].key.type}
Known(d) == \E n \in Want(d) : dial[d].read[n].key = dial[d].key

\* What was read is looked at no more once the connection is decided.
Decided(d, at) == [dial EXCEPT ![d].at = at,
                               ![d].read = IF at \in {"append", "replace"} THEN @ ELSE <<>>]
Goes(d, at) == dial' = Decided(d, at) /\ UNCHANGED lines

\* The callback: a known key, a changed one, or an unknown host.
VerifyKnown(d) == dial[d].at = "handshake" /\ Known(d) /\ Goes(d, "trusted")

VerifyChanged(d) ==
  /\ dial[d].at = "handshake" /\ ~Known(d) /\ Want(d) # {}
  /\ Goes(d, IF dial[d].policy = "replaceChanged" THEN "replace" ELSE "refused")

VerifyUnknown(d) ==
  /\ dial[d].at = "handshake" /\ Want(d) = {}
  /\ Goes(d, IF dial[d].policy = "strict" THEN "refused" ELSE "append")

TheLine(d) == [host |-> dial[d].host, key |-> dial[d].key]

AppendKnownHost(d) ==
  /\ dial[d].at = "append"
  /\ lines' = Append(lines, TheLine(d))
  /\ dial' = Decided(d, "trusted")

\* Mutant: every key of the host is dropped, those of other types too.
OfAnyType(d) == Want(d)

\* The lines that replaceKnownHost drops.
StaleLines(d) == {n \in Want(d) : dial[d].read[n].key.type = dial[d].key.type}

\* What is left of the file of now, by the line numbers of then.
KeptLines(d) == Picked(lines, DOMAIN lines \ StaleLines(d))

\* A temporary file is written and renamed: all or nothing.
ReplaceKnownHost(d) ==
  /\ dial[d].at = "replace"
  /\ lines' = Append(KeptLines(d), TheLine(d))
  /\ dial' = Decided(d, "trusted")

\* A file cannot be opened or written.
WriteFails(d) == dial[d].at \in {"append", "replace"} /\ Goes(d, "refused")

HostsNext == \E d \in Dialer :
  \/ Setup(d) \/ VerifyKnown(d) \/ VerifyChanged(d) \/ VerifyUnknown(d)
  \/ AppendKnownHost(d) \/ ReplaceKnownHost(d) \/ WriteFails(d)

HostsSpec == HostsInit /\ [][HostsNext]_hostsVars

-----------------------------------------------------------------------------
(* Properties.                                                              *)

AllOf(f) == {f[n] : n \in DOMAIN f}

\* d replaces a changed key.
Replaces(d) == dial[d].at = "replace" /\ dial'[d].at = "trusted"
OwnLine(d, l) == l.host = dial[d].host /\ l.key.type = dial[d].key.type

\* What d has read is not the beginning of the file any more, and it was another
\* connection that has replaced a key.
StillInPlace(read) ==
  Len(read) <= Len(lines) /\ \A n \in 1..Len(read) : lines[n] = read[n]
HasReplaced(e) == dial[e].policy = "replaceChanged" /\ dial[e].at = "trusted"
Overtaken(d) == ~StillInPlace(dial[d].read) /\ \E e \in Dialer \ {d} : HasReplaced(e)

\* What is trusted is forgotten only on purpose, or where two replacements
\* meet: a line leaves the file only when a changed key is confirmed, and then
\* it is a line of the key's own host and type, unless another replacement has
\* overtaken this one since it read the file. Lines that other connections
\* append in between change nothing. The exception is what the code does
\* wrong: see TrustForgottenOnPurpose.
TrustForgottenOrOvertaken == [][\A l \in AllOf(lines) \ AllOf(lines') :
  \E d \in Dialer : Replaces(d) /\ (OwnLine(d, l) \/ Overtaken(d))]_hostsVars

\* README.md:342 says an old key is replaced after its new fingerprint has been
\* verified. The second of two replacements drops lines by numbers which the
\* first has shifted, and forgets a key of another host or type.
TrustForgottenOnPurpose == [][\A l \in AllOf(lines) \ AllOf(lines') :
  \E d \in Dialer : Replaces(d) /\ OwnLine(d, l)]_hostsVars
=============================================================================

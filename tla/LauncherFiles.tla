---------------------------- MODULE LauncherFiles ----------------------------
(***************************************************************************)
(* The files of the launcher: profiles.json and its secrets (ProfileFiles), *)
(* and known_hosts (KnownHosts). The two share no state.                    *)
(***************************************************************************)
EXTENDS ProfileFiles, KnownHosts

\* What the files say is true: flags and secrets agree after every save that
\* could look, a duplication that failed leaves nothing, and known_hosts is made
\* of keys.
FilesSound == SecretsSound /\ HostsTypeOK
=============================================================================

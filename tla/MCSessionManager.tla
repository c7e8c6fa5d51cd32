-------------------------- MODULE MCSessionManager --------------------------
(* Small instances of the session registry for TLC.                         *)
EXTENDS SessionManager, TLC

CONSTANTS t1, t2, t3, s1, s2, s3, s4

Tabs     == {t1, t2, t3}
Sessions == {s1, s2, s3, s4}

Symmetry == Permutations(Tabs) \cup Permutations(Sessions)

\* What is left of a forgotten session is overwritten when its identity is
\* used again.
View == <<sessions, byProfile, [s \in sessions |-> refs[s]], open,
          up \cap open, cooling \cap open, tabs, shut, dropped \cap Known,
          kept, dedicated \cap Known>>
=============================================================================

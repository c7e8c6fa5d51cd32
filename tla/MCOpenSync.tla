----------------------------- MODULE MCOpenSync -----------------------------
(* Small instances of the open-file synchronisation for TLC.                *)
EXTENDS OpenSync, TLC

CONSTANTS w1, w2, w3

\* More goroutines than opens: no upload waits for one.
Workers  == {w1, w2, w3}
Symmetry == Permutations(Workers)

Both    == BOOLEAN
Watched == {TRUE}
Polled  == {FALSE}

\* Bound: how many of the opens, saves, replacements, failures and repetitions
\* that the constants allow one behaviour has.
Disturbed == 4
Quieter ==
  saves + spent.opens + spent.fails + spent.retries <= Disturbed
=============================================================================

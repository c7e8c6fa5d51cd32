----------------------------- MODULE ProfileBook -----------------------------
(***************************************************************************)
(* What the profile file promises to requests that are handled one at a     *)
(* time: every request changes one profile, or the order, in one step, and  *)
(* profiles are lost only when the writing of the file is interrupted.      *)
(***************************************************************************)
EXTENDS Sequences, Integers, FiniteSets, Positions

CONSTANTS
  ProfileId,  \* ids
  Entry       \* profiles: records with the fields id and has

VARIABLES
  book,      \* the stored profiles, in their order
  writing,   \* a change is being written
  readable   \* the file is not torn

bookVars == <<book, writing, readable>>

Listed(b, i) == \E n \in DOMAIN b : b[n].id = i

BookInit ==
  /\ \E n \in 0..1 : book \in [1..n -> Entry]
  /\ writing = FALSE /\ readable = TRUE

\* A profile takes the place of the one with its id, or comes last.
Put(p) ==
  book' = IF Listed(book, p.id)
            THEN [n \in DOMAIN book |-> IF book[n].id = p.id THEN p ELSE book[n]]
            ELSE Append(book, p)

\* The others keep their order.
Remove(i) == Listed(book, i) /\ book' = Picked(book, {n \in DOMAIN book : book[n].id # i})

Rearrange ==
  \E f \in [DOMAIN book -> DOMAIN book] :
    /\ {f[n] : n \in DOMAIN book} = DOMAIN book
    /\ book' = [n \in DOMAIN book |-> book[f[n]]]

Change ==
  /\ readable /\ ~writing /\ writing' = TRUE
  /\ \/ \E p \in Entry : Put(p)
     \/ \E i \in ProfileId : Remove(i)
     \/ Rearrange
  /\ UNCHANGED readable

Finish == writing /\ writing' = FALSE /\ UNCHANGED <<book, readable>>

\* The launcher ends, or the disk is full, in the middle of a write: an empty
\* file, which is read as no profiles, or a torn one.
Lose ==
  /\ writing /\ writing' = FALSE
  /\ book' = << >> /\ readable' \in BOOLEAN

BookSpec == BookInit /\ [][Change \/ Finish \/ Lose]_bookVars
=============================================================================

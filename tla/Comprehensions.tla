---------------------------- MODULE Comprehensions ----------------------------
(***************************************************************************)
(* The code's list comprehensions with a condition: what is taken from a   *)
(* list, in its order.                                                     *)
(***************************************************************************)
EXTENDS Naturals, Sequences, SequencesExt

\* The entries of a sequence at some positions.
Entries(s, at) == FlattenSeq([i \in DOMAIN s |-> IF i \in at THEN <<s[i]>> ELSE <<>>])

\* The entries that satisfy a condition.
Having(s, Test(_)) == Entries(s, {i \in DOMAIN s : Test(s[i])})
=============================================================================

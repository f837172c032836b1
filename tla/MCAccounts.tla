----------------------------- MODULE MCAccounts -----------------------------
(***************************************************************************)
(* Instances of Accounts for TLC.                                          *)
(***************************************************************************)
EXTENDS Accounts, TLC

Symmetry == Permutations(Requests) \cup Permutations(Users)

\* Pages before the first, in the middle and beyond the last; no row at all
\* and too many asked for.
SomeQueries == {<<0, 0>>, <<2, 1>>, <<1, 1000>>}

=============================================================================

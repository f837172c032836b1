-------------------------- MODULE MCPasswordReset ---------------------------
(***************************************************************************)
(* Instances of PasswordReset for TLC.                                     *)
(***************************************************************************)
EXTENDS PasswordReset, TLC

Symmetry == Permutations(Requests) \cup Permutations(Users) \cup Permutations(Tokens)

=============================================================================

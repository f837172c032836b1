------------------------------- MODULE MCCli -------------------------------
(***************************************************************************)
(* Instances of Cli for TLC.                                               *)
(***************************************************************************)
EXTENDS Cli, TLC

Symmetry == Permutations(Commands) \cup Permutations(Tokens) \cup Permutations(Urls)

=============================================================================

----------------------------- MODULE MCSessions -----------------------------
(***************************************************************************)
(* Instances of Sessions for TLC.  Requests, users and token pairs are     *)
(* interchangeable, so safety runs use their symmetry.                     *)
(***************************************************************************)
EXTENDS Sessions, TLC

Symmetry == Permutations(Requests) \cup Permutations(Users) \cup Permutations(Ids)

=============================================================================

---------------------------- MODULE MCHttpStack ----------------------------
(***************************************************************************)
(* Instances of HttpStack for TLC.                                         *)
(***************************************************************************)
EXTENDS HttpStack, TLC

SomeSlugs == [t \in Tenants |-> IF t = CHOOSE u \in Tenants : TRUE THEN "acme" ELSE "corp"]

\* Two tenants' hosts, an address, an empty label and a host without a tenant.
SomeHosts == {<<"acme", "example", "com">>, <<"corp", "example", "com">>,
              <<"127", "0", "0", "1">>, <<"", "example", "com">>, <<"localhost">>}

Symmetry == Permutations(Goroutines)

=============================================================================

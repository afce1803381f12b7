------------------------------ MODULE MCAccounts ------------------------------
(* An instance of Accounts for TLC. *)
EXTENDS Accounts, TLC

CONSTANTS p1, i1, i2, c1, c2, e1, e2

SomeProviders == (i1 :> p1) @@ (i2 :> p1)

\* All that can be constrained, and nothing.
SomeSchemas ==
  {[email |-> TRUE, link |-> TRUE, fk |-> "cascade"],
   [email |-> FALSE, link |-> FALSE, fk |-> "none"]}

AccountSymmetry ==
  Permutations({c1, c2}) \cup Permutations({e1, e2}) \cup Permutations({i1, i2})

=============================================================================

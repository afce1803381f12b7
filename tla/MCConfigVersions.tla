-------------------------- MODULE MCConfigVersions --------------------------
(***************************************************************************)
(* Small instances of ConfigVersions for TLC.                              *)
(***************************************************************************)
EXTENDS ConfigVersions, TLC

CONSTANTS d1, d2, c1, c2

\* With and without the unique constraint, and every foreign key.
SomeSchemas ==
  {[unique |-> TRUE, fk |-> "cascade"], [unique |-> FALSE, fk |-> "none"],
   [unique |-> FALSE, fk |-> "restrict"]}

\* Devices are interchangeable; calls are not, as one of them may sweep.
DeviceSymmetry == Permutations({d1, d2})

=============================================================================

------------------------------ MODULE MCAccess ------------------------------
(* An instance of Access for TLC. *)
EXTENDS Access, TLC

CONSTANTS c1, c2

\* A superadmin, an administrator and a viewer.
ThreeUsers ==
  <<[role |-> "superadmin", active |-> "on", name |-> "a"],
    [role |-> "admin", active |-> "on", name |-> "a"],
    [role |-> "viewer", active |-> "on", name |-> "a"]>>

\* What administrators may do, before and after a revocation.
Super == {<<"superadmin", "*", "manage">>}
TwoMatrices ==
  {Super \cup {<<"admin", "users", "delete">>, <<"admin", "groups", "delete">>},
   Super \cup {<<"admin", "users", "read">>, <<"admin", "groups", "write">>}}

Asks(op, on, who, dto) == [op |-> op, on |-> on, who |-> who, dto |-> dto]

SomeJobs ==
  {Asks("update", 3, 1, "role" :> r) : r \in {"superadmin", ""}} \cup
  {Asks("update", 3, 1, "name" :> "b"),
   Asks("update", 2, 1, ("role" :> "viewer") @@ ("active" :> "off")),
   Asks("remove", 3, 1, NoDto),
   Asks("reload", 1, 1, NoDto),
   Asks("create", 1, 1, ("name" :> "a") @@ ("role" :> "viewer")),
   Asks("amend", 1, 1, "name" :> "b"),
   Asks("drop", 1, 1, NoDto),
   Asks("join", 1, 3, NoDto), Asks("leave", 1, 3, NoDto)}

\* The weakest schema for the names; the database may also keep them apart.
OneSchema == {[unique |-> FALSE, fk |-> "cascade"]}

CallSymmetry == Permutations({c1, c2})

=============================================================================

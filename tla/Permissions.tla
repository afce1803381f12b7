----------------------------- MODULE Permissions -----------------------------
(***************************************************************************)
(* What a role may do: PermissionsService.can of                           *)
(* src/src/permissions/permissions.service.ts, over a matrix, that is, a   *)
(* set of <<role, resource, action>> like the rows of role_permissions.    *)
(***************************************************************************)

Actions == {"read", "write", "execute", "delete", "manage"}

\* SATISFIES: the required actions that a granted action answers.  write and
\* execute are siblings.
Satisfies ==
  [manage  |-> Actions,
   delete  |-> Actions \ {"manage"},
   write   |-> {"write", "read"},
   execute |-> {"execute", "read"},
   read    |-> {"read"}]

\* can: manage on every resource, or a grant on this one that will do.
Can(matrix, role, resource, required) ==
  \/ <<role, "*", "manage">> \in matrix
  \/ \E held \in Actions :
       <<role, resource, held>> \in matrix /\ required \in Satisfies[held]

=============================================================================

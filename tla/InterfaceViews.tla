---------------------------- MODULE InterfaceViews ----------------------------
(***************************************************************************)
(* The list of the interfaces of a device and the figures above it:        *)
(* src/src/interfaces/interfaces.service.ts.  rows is the set of the rows  *)
(* of the device, a row [name, text, admin, status], text the words that   *)
(* its name, description and vlan hold.                                    *)
(***************************************************************************)
EXTENDS FiniteSets, Integers

\* The condition that getInterfaces makes of the status asked for.
AnyDown(r, status) ==   \* variant: administrative and other failures alike
  CASE status = "admin-down"             -> r.admin = "down"
    [] status = "down"                   -> r.status = "down"
    [] status \in {"up", "warn"}         -> r.admin = "up" /\ r.status = status
    [] OTHER                             -> TRUE
OfStatus(r, status) ==
  CASE status = "admin-down"             -> r.admin = "down"
    [] status \in {"up", "down", "warn"} -> r.admin = "up" /\ r.status = status
    [] OTHER                             -> TRUE

\* ILIKE on three columns, unless q is blank.
Matches(r, q) == q = "" \/ q \in r.text

GetInterfaces(rows, q, status) == {r \in rows : OfStatus(r, status) /\ Matches(r, q)}

\* getSummary.
GetSummary(rows) ==
  LET Number(Test(_)) == Cardinality({r \in rows : Test(r)})
      Up(r) == r.admin = "up"
  IN [total     |-> Cardinality(rows),
      up        |-> Number(LAMBDA r : Up(r) /\ r.status = "up"),
      errorDown |-> Number(LAMBDA r : Up(r) /\ r.status = "down"),
      adminDown |-> Number(LAMBDA r : r.admin = "down"),
      warn      |-> Number(LAMBDA r : Up(r) /\ r.status \notin {"up", "down"})]

=============================================================================

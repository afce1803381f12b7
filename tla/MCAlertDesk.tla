----------------------------- MODULE MCAlertDesk -----------------------------
(* An instance of AlertDesk for TLC. *)
EXTENDS AlertDesk, TLC

CONSTANTS a1, p1, c1, c2

\* Mails to an address, to an account, to those who opted in only, to nobody.
SomeContents ==
  {[on |-> TRUE, min |-> 3, to |-> {p1}, users |-> {}],
   [on |-> TRUE, min |-> 4, to |-> {}, users |-> {p1}],
   [on |-> TRUE, min |-> 3, to |-> {}, users |-> {}]}

SomePrefs == {[on |-> TRUE, min |-> 4], [on |-> FALSE, min |-> 4]}

CallSymmetry == Permutations({c1, c2})

=============================================================================

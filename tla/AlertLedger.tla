----------------------------- MODULE AlertLedger -----------------------------
(***************************************************************************)
(* What the alert evaluator promises of its table: for each device and     *)
(* rule an alert is raised and cleared in turn, of the rules that exclude  *)
(* each other one alert at most is open, and what was raised stays on      *)
(* record.  AlertEvaluator implements it, with a map in memory, up to      *)
(* three queries to raise an alert, failures and restarts.                 *)
(***************************************************************************)
EXTENDS Naturals

CONSTANTS
  Keys,     \* what an alert may be about: a device and a rule
  GroupOf   \* the escalation group of a device that a key belongs to

VARIABLES
  open,     \* the keys that have an open alert
  raised    \* how many alerts each key has had

ledger == <<open, raised>>

Init == open = {} /\ raised = [k \in Keys |-> 0]

\* fireAlert: neither the rule nor another one of its group has an open alert.
Raise(k) ==
  /\ \A j \in open : GroupOf[j] # GroupOf[k]
  /\ open' = open \cup {k}
  /\ raised' = [raised EXCEPT ![k] = @ + 1]

\* clearAlert.
Clear(k) ==
  /\ k \in open
  /\ open' = open \ {k}
  /\ UNCHANGED raised

Next == \E k \in Keys : Raise(k) \/ Clear(k)

Spec == Init /\ [][Next]_ledger

=============================================================================

-------------------------- MODULE MCAlertEvaluator --------------------------
(***************************************************************************)
(* Small instances of AlertEvaluator for TLC; the cfg files give the       *)
(* constants.                                                              *)
(***************************************************************************)
EXTENDS AlertEvaluator

=============================================================================

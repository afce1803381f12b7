--------------------------- MODULE MCMetricsWriter ---------------------------
(***************************************************************************)
(* Small instances of MetricsWriter for TLC.                               *)
(***************************************************************************)
EXTENDS MetricsWriter

CONSTANTS core, edge, guest, w1, w2

=============================================================================

------------------------- MODULE MCReportScheduler -------------------------
(***************************************************************************)
(* Small instances of ReportScheduler for TLC.                             *)
(***************************************************************************)
EXTENDS ReportScheduler, TLC

CONSTANTS daily, weekly, garbled, q1, q2

\* Requests are interchangeable, and so are the two well-formed schedules.
RequestSymmetry == Permutations({q1, q2}) \cup Permutations({daily, weekly})

=============================================================================

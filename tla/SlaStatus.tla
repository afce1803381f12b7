------------------------------ MODULE SlaStatus ------------------------------
(***************************************************************************)
(* SLA compliance: SlaService.evaluate, getStatus and getComplianceSummary *)
(* of src/src/sla/sla.service.ts and the card that                         *)
(* OverviewController.getAll (src/src/overview) makes of the summary.      *)
(*                                                                         *)
(* Values and targets are in units of 0.0001, a mean is a fraction         *)
(* <<numerator, denominator>>.  What doubles do where the exact result     *)
(* lies on a boundary is left open: either side.                           *)
(***************************************************************************)
EXTENDS Integers, FiniteSets, FiniteSetsExt

Unit      == 10000
Tolerance == 10          \* 0.001
Averaged  == {"cpu", "memory", "latency", "packet_loss", "interface_util"}
Null      == -1
NoMean    == <<0, 0>>

\* What of a row of sla_parameters counts.
Parameter == [metric : STRING, operator : STRING, target : Int, enabled : BOOLEAN]

-----------------------------------------------------------------------------
(* evaluate.  A database: how many devices are up, how many there are, and *)
(* the samples [of, metric, value], oldest first.                          *)

\* SELECT DISTINCT ON (device_id) ... ORDER BY device_id, time DESC.
SamplesOf(db, m) == {k \in DOMAIN db.samples : db.samples[k].metric = m}
Latest(db, m) ==
  {k \in SamplesOf(db, m) : \A j \in SamplesOf(db, m) :
     db.samples[j].of = db.samples[k].of => j <= k}

\* AVG: of the values that are not null; null of none.
Avg(db, m) ==
  LET some == {k \in Latest(db, m) : db.samples[k].value # Null}
  IN <<MapThenSumSet(LAMBDA k : db.samples[k].value, some), Cardinality(some)>>

\* COUNT of the devices that are up, of all; 100 of none.
Availability(db) ==
  IF db.total = 0 THEN <<100 * Unit, 1>> ELSE <<100 * Unit * db.up, db.total>>

\* currentValue: null of a metric that is not known or whose query fails.
CurrentValue(p, db, failed) ==
  IF p.metric \in failed THEN NoMean
  ELSE IF p.metric = "availability" THEN Availability(db)
  ELSE IF p.metric \in Averaged THEN Avg(db, p.metric) ELSE NoMean

\* The quotient of doubles is the value itself.
Exact(v) == v[2] = 1 \/ v[1] = 0 \/ v[1] = 100 * Unit * v[2]

Abs(x) == IF x < 0 THEN -x ELSE x
Below(x, limit) ==
  CASE x < limit -> {"met"} [] x = limit -> {"met", "breached"} [] OTHER -> {"breached"}

\* targetMet, null of an operator that is not known.
Verdicts(p, v) ==
  LET over == v[1] - p.target * v[2]
  IN CASE v[2] = 0 \/ p.operator \notin {">=", "<=", "="} -> {"null"}
       [] v[2] # 0 /\ over = 0 /\ Exact(v) /\ p.operator \in {">=", "<=", "="} -> {"met"}
       [] OTHER -> CASE p.operator = ">=" -> Below(-over, 0)
                     [] p.operator = "<=" -> Below(over, 0)
                     [] p.operator = "="  -> Below(Abs(over), Tolerance * v[2])

\* getStatus, the parameters that are not enabled left out.
Enabled(params) == {k \in DOMAIN params : params[k].enabled}
StatusOf(params, db, failed) ==
  {s \in [Enabled(params) -> {"met", "breached", "null"}] :
     \A k \in Enabled(params) :
       s[k] \in Verdicts(params[k], CurrentValue(params[k], db, failed))}

-----------------------------------------------------------------------------
(* getComplianceSummary, pct in tenths of a per cent. *)

PctWhole(met, total) ==   \* variant: rounded to a whole per cent
  IF total = 0 THEN {1000} ELSE {10 * ((200 * met + total) \div (2 * total))}

\* Math.round, up from a half; the double may be just below it.
Pct(met, total) ==
  IF total = 0 THEN {1000}
  ELSE LET up == (2000 * met + total) \div (2 * total)
       IN {up} \cup (IF (2000 * met + total) % (2 * total) = 0 THEN {up - 1} ELSE {})

Count(status, verdict) == Cardinality({k \in DOMAIN status : status[k] = verdict})

Summary(status) ==
  [met |-> Count(status, "met"), total |-> Count(status, "met") + Count(status, "breached")]

\* The card: the tone, and whether the text beside the figure is "met".
Card(met, total, pct) ==
  [pct |-> pct, met |-> met = total,
   tone |-> IF met = total THEN "up" ELSE IF pct >= 500 THEN "warn" ELSE "down"]

=============================================================================

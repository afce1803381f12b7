-------------------------------- MODULE Series --------------------------------
(***************************************************************************)
(* What SimulationEngine (src/src/simulation/simulation.engine.ts) keeps   *)
(* of the samples of a device, and the series it makes of them.  A sample  *)
(* is a number: one metric, in units no getter rounds off.                 *)
(***************************************************************************)
EXTENDS Integers, Sequences, SequencesExt, FiniteSets, FiniteSetsExt

CONSTANTS
  Seeds,        \* the simulated devices, in the order of SEED_DEVICES
  Edges,        \* those of role edge-router
  Down,         \* those of status "down"
  MaxHistory,   \* MAX_HISTORY
  Spark         \* the points of a sparkline, N in getKpis

Devices == ToSet(Seeds)

ASSUME SeriesAssumption ==
  /\ IsInjective(Seeds) /\ DOMAIN Seeds = 1..Len(Seeds) /\ Len(Seeds) \in Nat
  /\ Edges \subseteq Devices /\ Down \subseteq Devices
  /\ MaxHistory \in Nat \ {0} /\ Spark \in 1..MaxHistory

-----------------------------------------------------------------------------
(* The history of a device. *)

PushLate(h, s) ==   \* variant: shortened only when it is too long already
  Append(IF Len(h) > MaxHistory THEN Tail(h) ELSE h, s)

\* The end of ouStep.
Push(h, s) == Append(IF Len(h) >= MaxHistory THEN Tail(h) ELSE h, s)

\* The constructor warms the history up with MAX_HISTORY samples, tick() adds
\* to it; log is all the samples there were.
History(log) ==
  LET h[k \in 0..Len(log)] == IF k = 0 THEN <<>> ELSE Push(h[k - 1], log[k])
  IN h[Len(log)]
Current(log)  == Last(log)

-----------------------------------------------------------------------------
(* Series.  hs is the history of each device. *)

\* history[hi]?.metric ?? 0, and the index of point i of n, from 0.
At(h, hi) == IF hi < Len(h) THEN h[hi + 1] ELSE 0
Index(len, n, i) == IF len - n + i > 0 THEN len - n + i ELSE 0

Sampled(len, n, F(_)) == [i \in 1..n |-> F(Index(len, n, i - 1))]

\* reduce over the devices that are in D, in their order: the sum of w.
SumOver(D, w) ==
  LET sum[k \in 0..Len(Seeds)] ==
        IF k = 0 THEN 0 ELSE sum[k - 1] + (IF Seeds[k] \in D THEN w[Seeds[k]] ELSE 0)
  IN sum[Len(Seeds)]

\* getWanSeries: every edge router, whatever its status; no point at all for
\* a number of points that is not positive.
WanSeries(hs, n) ==
  LET len == IF Edges = {} THEN 0 ELSE Len(hs[CHOOSE d \in Edges : TRUE])
  IN Sampled(len, n, LAMBDA hi : SumOver(Edges, [d \in Devices |-> At(hs[d], hi)]))

\* getKpis: the edge routers that are not down.
Active == Edges \ Down
WanSpark(hs) ==
  LET len == Len(hs[CHOOSE d \in Devices : TRUE])
  IN Sampled(len, Spark, LAMBDA hi : SumOver(Active, [d \in Devices |-> At(hs[d], hi)]))
WanNow(logs) == SumOver(Active, [d \in Devices |-> Current(logs[d])])

\* The 95th percentile of a series: sorted[floor(0.95 * length)].
Sorted(s) ==
  CHOOSE t \in {[i \in DOMAIN s |-> s[p[i]]] : p \in Injection(DOMAIN s, DOMAIN s)} :
    \A i, j \in DOMAIN s : i < j => t[i] <= t[j]
P95(s) == IF s = <<>> THEN 0 ELSE Sorted(s)[(95 * Len(s)) \div 100 + 1]
Peak(s) == Max(ToSet(s))

\* getDeviceHistory: slice(-n), which from n = 0 on down is slice(-n) from the
\* start.
Slice(h, n) ==
  IF n > 0 THEN SubSeq(h, IF n < Len(h) THEN Len(h) - n + 1 ELSE 1, Len(h))
  ELSE SubSeq(h, 1 - n, Len(h))

=============================================================================

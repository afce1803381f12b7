----------------------------- MODULE HostMetrics -----------------------------
(***************************************************************************)
(* The load of the host: src/src/host-metrics/host-metrics.service.ts.     *)
(* The line of /proc/stat is the record of its counters: idle and iowait,  *)
(* guest for the guest times, busy for the others.  The kernel adds the    *)
(* guest times to the user times as well.  A share is a fraction           *)
(* <<part, whole>>, 0 of nothing.                                          *)
(***************************************************************************)
EXTENDS Integers

\* readCpuSample.
SampleNoWait(stat) ==   \* variant: waiting for a disk is work
  [total |-> stat.busy + stat.idle + stat.iowait + stat.guest, idle |-> stat.idle]
ReadCpuSample(stat) ==
  [total |-> stat.busy + stat.idle + stat.iowait + stat.guest,
   idle  |-> stat.idle + stat.iowait]

\* cpuBetween.
CpuBetween(a, b) ==
  LET totalDiff == b.total - a.total
      idleDiff  == b.idle - a.idle
  IN IF totalDiff > 0 THEN <<totalDiff - idleDiff, totalDiff>> ELSE <<0, 1>>

\* onModuleInit, the refresh every 2 s, and the service before both.
Started(stat) == [lastSample |-> ReadCpuSample(stat), cachedCpu |-> <<0, 1>>]
Refreshed(service, stat) ==
  [lastSample |-> ReadCpuSample(stat),
   cachedCpu  |-> CpuBetween(service.lastSample, ReadCpuSample(stat))]

=============================================================================

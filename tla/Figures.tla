------------------------------- MODULE Figures -------------------------------
(***************************************************************************)
(* The computations that the service answers with and that keep no state   *)
(* of their own: configurations, series, SLA compliance, the load of the   *)
(* host, the list of interfaces.  A step asks one of them about an input;  *)
(* the properties say what the answer means.                               *)
(***************************************************************************)
EXTENDS ConfigGenerator, Series, SlaStatus, HostMetrics, InterfaceViews

CONSTANTS
  Boxes,       \* devices of which a configuration is asked
  Snapshots,   \* lists of their interfaces, each with the time
  Revisions,   \* such snapshots, before and after interfaces change
  Logs,        \* what the engine may have sampled: a log for each of Devices
  Points,      \* numbers of points asked for
  Params,      \* lists of SLA parameters
  Databases,   \* what SLA queries may find
  Tallies,     \* <<met, total>> of larger lists of parameters
  Stats,       \* readings of /proc/stat
  Rows,        \* rows of interfaces
  Words        \* words to look for

Device    == [name : STRING, ip : STRING, vendor : SUBSET STRING,
              router : BOOLEAN, wlc : BOOLEAN]
Interface == [name : Seq(STRING), desc : STRING, fast : BOOLEAN, vlan : STRING, status : STRING]
Moment    == Nat \X Nat   \* the seconds of the calls of ts()

\* The engine has sampled its devices together, at least until the history was
\* full, and nothing of those that are down.  The counters are numbers, a tally
\* is one, rows are of a device's interfaces, and there are fewer than 2000
\* parameters.
ASSUME FiguresAssumption ==
  /\ Boxes \subseteq Device /\ Snapshots \subseteq Seq(Interface) \X Moment
  /\ Revisions \subseteq Snapshots \X Snapshots
  /\ Points \subseteq Int
  /\ \A logs \in Logs :
       /\ logs \in [Devices -> Seq(Int)]
       /\ \A d \in Devices : Len(logs[d]) >= MaxHistory
       /\ \A d, e \in Devices : Len(logs[d]) = Len(logs[e])
       /\ \A d \in Down : \A i \in DOMAIN logs[d] : logs[d][i] = 0
  /\ Stats \subseteq [busy : Nat, idle : Nat, iowait : Nat, guest : Nat]
  /\ Tallies \subseteq {t \in Nat \X Nat : t[1] <= t[2]}
  /\ IsFiniteSet(Rows) /\ \A r \in Rows : r.admin \in {"up", "down"}
  /\ \A ps \in Params : ps \in Seq(Parameter) /\ Len(ps) < 2000
  /\ \A db \in Databases : db.up \in Nat /\ db.total \in Nat

VARIABLE asked

Nothing == [kind |-> "nothing"]

AskConfig(d, ifs, now) ==
  asked' = [kind |-> "config", d |-> d, ifs |-> ifs, now |-> now]

\* The configuration before and after interfaces change.
AskChange(d, ifs, now, after, later) ==
  asked' = [kind |-> "change", d |-> d, ifs |-> ifs, now |-> now, after |-> after, later |-> later]

AskSeries(logs, n) ==
  asked' = [kind |-> "series", logs |-> logs, n |-> n]

AskStatus(params, db, failed) ==
  \E s \in StatusOf(params, db, failed) :
    LET sum == Summary(s) IN
    \E pct \in Pct(sum.met, sum.total) :
      asked' = [kind |-> "status", params |-> params, db |-> db, failed |-> failed,
                status |-> s, card |-> Card(sum.met, sum.total, pct)]

AskCard(met, total) ==
  \E pct \in Pct(met, total) :
    asked' = [kind |-> "card", met |-> met, total |-> total, card |-> Card(met, total, pct)]

\* The service starts and reads its counters twice.
AskCpu(s1, s2, s3) ==
  asked' = [kind |-> "cpu", stats |-> <<s1, s2, s3>>,
            service |-> Refreshed(Refreshed(Started(s1), s2), s3)]

AskViews(rows, q) ==
  asked' = [kind |-> "views", rows |-> rows, q |-> q]

Forget == asked' = Nothing

Init == asked = Nothing

Ask ==
  \/ \E d \in Boxes, s \in Snapshots : AskConfig(d, s[1], s[2])
  \/ \E d \in Boxes, r \in Revisions : AskChange(d, r[1][1], r[1][2], r[2][1], r[2][2])
  \/ \E logs \in Logs, n \in Points : AskSeries(logs, n)
  \/ \E ps \in Params, db \in Databases, failed \in SUBSET {"availability", "cpu"} :
       AskStatus(ps, db, failed)
  \/ \E t \in Tallies : AskCard(t[1], t[2])
  \/ \E s1 \in Stats, s2 \in Stats, s3 \in Stats : AskCpu(s1, s2, s3)
  \/ \E rows \in SUBSET Rows, q \in Words : AskViews(rows, q)

Next == \/ asked = Nothing /\ Ask
        \/ asked # Nothing /\ Forget

Spec == Init /\ [][Next]_asked

-----------------------------------------------------------------------------
(* Properties.                                                             *)

Is(k)   == asked.kind = k
Text(ifs, now) == GenerateRunningConfig(asked.d, ifs, now)

Heads(text) ==
  FlattenSeq([k \in DOMAIN text |-> IF text[k].words = "interface" THEN <<text[k]>> ELSE <<>>])

\* A name without anything in the form of JunOS already.
Plainly(n) == \A k \in DOMAIN n : n[k] \notin {"et-0/0/", "ge-0/0/"}
Alike(i, j) == Lowered(i.name) = Lowered(j.name)

\* Each interface has a block of its own in every format, in the order of the
\* list, and no two blocks have one heading, whatever the conversion of the
\* names does, if the names differ otherwise than in case.
PortsApart ==
  Is("config") =>
    LET ifs == asked.ifs
        heads == Heads(Text(ifs, asked.now))
    IN /\ Len(heads) = Len(ifs)
       /\ \A j, k \in DOMAIN ifs :
            Plainly(ifs[j].name) /\ Plainly(ifs[k].name) /\ ~Alike(ifs[j], ifs[k])
            => heads[j] # heads[k]

\* The names that do not tell whose they are: those in zones that have no
\* interface of their own, and the empty one.
MadeUp == {<<>>} \cup ToSet(Untrust(<<>>)) \cup ToSet(Trust(<<>>))

\* The zones of the firewall: a WAN interface is never in TRUST, the zone that
\* the rules let out; UNTRUST has the WAN interfaces whatever their status, TRUST
\* the rest of what is up, and any other interface is in no zone.  A zone without
\* an interface of its own is given made-up ones, whose names are left aside.
ZonesApart ==
  Is("config") /\ Brand(asked.d) = "palo" =>
    LET ifs == asked.ifs
        own == {k \in DOMAIN ifs : /\ ifs[k].name \notin MadeUp
                                   /\ \A j \in DOMAIN ifs : ifs[j].name = ifs[k].name => j = k}
        ins == {k \in own : ifs[k].name \in ToSet(Trust(ifs))}
        outs == {k \in own : ifs[k].name \in ToSet(Untrust(ifs))}
    IN /\ ins \cap outs = {}
       /\ outs = {k \in own : ifs[k].vlan = "wan-100"}
       /\ ins = {k \in own : ifs[k].status = "up"} \ outs

\* What of an interface a format can express.
Zone(i) == IF i.vlan = "wan-100" THEN "out" ELSE IF i.status = "up" THEN "in" ELSE "none"
Shown(brand, i) ==
  LET down == i.status = "down" IN
  CASE brand = "cisco"   -> <<i.name, Described(i), i.vlan, down, i.fast>>
    [] brand = "juniper" -> <<JunosName(i.name), i.desc, i.vlan, down, i.fast>>
    [] brand = "arista"  -> <<i.name, i.desc, i.vlan, down>>
    [] brand = "palo"    -> <<IF Zone(i) = "none" THEN Lowered(i.name) ELSE i.name, i.desc, Zone(i)>>
    [] brand = "nokia"   -> <<i.desc, down, i.vlan = "trunk", i.fast>>
    [] OTHER             -> <<i.name, i.desc, i.status, i.vlan>>

\* The zones tell interfaces apart by their names, which a space would split.
Telling(ifs) ==
  \A k \in DOMAIN ifs : /\ ifs[k].name \notin MadeUp /\ " " \notin ToSet(ifs[k].name)
                        /\ \A j \in DOMAIN ifs : Alike(ifs[j], ifs[k]) => j = k

\* The part of the time that a text has.
Dated(d, now) == IF Brand(d) = "cisco" THEN now ELSE now[1]

\* Two snapshots of a device are the same text only if they were made within
\* one second, so the whole text does not tell whether anything changed.  What
\* stands below the date does: it differs exactly if an interface came, went
\* or changed in what the format of the vendor expresses, and no change is
\* hidden by another one.
ChangesShow ==
  Is("change") =>
    LET brand == Brand(asked.d)
        was == Text(asked.ifs, asked.now)
        is  == Text(asked.after, asked.later)
        Undated(text) == SubSeq(text, Len(Stamp(asked.d, asked.now)) + 1, Len(text))
        Shows(ifs) == [k \in DOMAIN ifs |-> Shown(brand, ifs[k])]
        same == Undated(was) = Undated(is)
    IN /\ Shows(asked.ifs) = Shows(asked.after) => same
       /\ same /\ (brand = "palo" => Telling(asked.ifs) /\ Telling(asked.after))
          => Shows(asked.ifs) = Shows(asked.after)
       /\ was = is <=> same /\ Dated(asked.d, asked.now) = Dated(asked.d, asked.later)

\* The sum over devices of the sample that lies back from the newest one, the
\* oldest one kept if that is too far.
Back(logs, D, back) ==
  LET far == IF back < MaxHistory THEN back ELSE MaxHistory - 1
  IN SumOver(D, [d \in Devices |-> logs[d][Len(logs[d]) - far]])

\* The views of the samples agree: a history is the newest samples, in order;
\* the series of the WAN ends with the current figure and has the sums of the
\* histories of the edge routers, and so has the sparkline; 95 of 100 points
\* are not above the 95th percentile, and some point is not below it.
SeriesAgree ==
  Is("series") =>
    LET logs == asked.logs
        n    == asked.n
        hs   == [d \in Devices |-> History(logs[d])]
        wan  == WanSeries(hs, n)
        p95  == P95(wan)
    IN /\ \A d \in Devices : hs[d] = SubSeq(logs[d], Len(logs[d]) - MaxHistory + 1, Len(logs[d]))
       /\ \A i \in DOMAIN wan : wan[i] = Back(logs, Edges, n - i)
       /\ n > 0 => /\ Last(wan) = WanNow(logs)
                   /\ Last(WanSpark(hs)) = Last(wan)
                   /\ 100 * Cardinality({i \in 1..n : wan[i] <= p95}) >= 95 * n
                   /\ p95 <= Peak(wan)
       /\ n \in 1..MaxHistory =>
            \A i \in 1..n : wan[i] = SumOver(Edges, [d \in Devices |-> Slice(hs[d], n)[i]])

\* The card is honest: it says that the SLA is met exactly if no parameter that
\* could be evaluated is breached, and shows 100.0 % exactly then; at least
\* half are met if it is not alarming; a service all of whose devices are up
\* meets every availability.  Rounding to a tenth would break this from 2000
\* parameters on, the tone from 1000 on.
SlaHonest ==
  /\ Is("status") =>
       LET card == asked.card
           Breached(k) == asked.status[k] = "breached"
       IN /\ card.met <=> \A k \in DOMAIN asked.status : ~Breached(k)
          /\ card.met <=> card.pct = 1000
          /\ \A k \in Enabled(asked.params) :
               LET p == asked.params[k] IN
               /\ p.metric = "availability" /\ p.operator = ">=" /\ p.target <= 100 * Unit
               /\ asked.db.up = asked.db.total /\ "availability" \notin asked.failed
               => asked.status[k] = "met"
  /\ Is("card") =>
       LET card == asked.card IN
       /\ asked.total < 2000 =>
            /\ card.pct = 1000 <=> asked.met = asked.total
            /\ card.pct = 0 <=> asked.met = 0 /\ asked.total > 0
       /\ asked.total < 1000 => (card.tone = "down" <=> 2 * asked.met < asked.total)

Grew(s, t, f) == t[f] > s[f]
Monotone(s, t) == \A f \in DOMAIN s : t[f] >= s[f]

\* The load is that of the last interval alone, and a share as long as no
\* counter goes back: none if the host only idled or waited, all if it did
\* neither.
CpuShare ==
  Is("cpu") =>
    LET s == asked.stats[2]
        t == asked.stats[3]
        cpu == asked.service.cachedCpu
        idled == Grew(s, t, "idle") \/ Grew(s, t, "iowait")
        worked == Grew(s, t, "busy") \/ Grew(s, t, "guest")
    IN Monotone(s, t) =>
         /\ 0 <= cpu[1] /\ cpu[1] <= cpu[2]
         /\ ~worked => cpu[1] = 0
         /\ worked /\ ~idled => cpu[1] = cpu[2]
         /\ t.guest = s.guest => cpu[1] * (t.busy + t.idle + t.iowait - s.busy - s.idle - s.iowait)
                                 = (t.busy - s.busy) * cpu[2]

\* A status that the list cannot be asked for: it is neither up, down nor warn.
Unlisted(rows) == {r \in rows : r.admin = "up" /\ r.status \notin {"up", "down", "warn"}}

\* The list and the figures above it: "up", "down", "admin-down" and the total
\* are the lengths of the lists of that status without a search.  The figure of
\* the warnings is not: it has besides the rows of any other status, which no
\* list of a status has.  The figures add up, and no row is in two lists.
FiltersAgree ==
  Is("views") =>
    LET sum == GetSummary(asked.rows)
        Listed(status) == Cardinality(GetInterfaces(asked.rows, "", status))
        Found(status)  == GetInterfaces(asked.rows, asked.q, status)
    IN /\ sum.up = Listed("up") /\ sum.errorDown = Listed("down")
       /\ sum.adminDown = Listed("admin-down") /\ sum.total = Listed("")
       /\ sum.warn = Listed("warn") + Cardinality(Unlisted(asked.rows))
       /\ sum.total = sum.up + sum.errorDown + sum.adminDown + sum.warn
       /\ \A s, t \in {"up", "down", "warn", "admin-down"} : s # t => Found(s) \cap Found(t) = {}

=============================================================================

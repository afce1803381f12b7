--------------------------- MODULE AlertEvaluator ---------------------------
(***************************************************************************)
(* The alert evaluator of src/src/simulation/alert-evaluator.ts, driven by *)
(* SimulationService.onTick.  It keeps an in-memory map of the open alerts *)
(* beside the rows of the "alerts" table and brings both in line with the  *)
(* device metrics of the simulation.                                       *)
(*                                                                         *)
(* JavaScript runs one continuation at a time, from a reply of the         *)
(* database to the next query.  A step of an evaluation is therefore: a    *)
(* tick (up to the first query), the database answering that query, or the *)
(* continuation of a reply (up to the next query).  setInterval does not   *)
(* wait for onTick, so several evaluations may be under way at once.       *)
(*                                                                         *)
(* Data: one escalation group of RULES, whose rules have the ranks 1 (the  *)
(* mildest) .. Top, and device.down, which is rule 0.  A metric is a level *)
(* 0 .. 2*Top, which is what the thresholds tell apart: rule r is breached *)
(* by the levels 2r and 2r+1 (from 2r on for r = Top) and cleared by the   *)
(* levels below 2r-1, the level 2r-1 being its hysteresis band.            *)
(***************************************************************************)
EXTENDS Integers, FiniteSets

CONSTANTS
  NDevices,     \* devices 1..NDevices, in the order of the snapshot
  Down,         \* devices whose profile has status "down" (it never changes)
  Top,          \* rank of the most severe rule of the group
  Evals,        \* evaluations that may be under way at the same time
  MayFail,      \* kinds of query that may fail without being executed
  MayLose,      \* kinds of query that may be executed and yet be answered
                \* by an error (the connection breaks before the reply)
  MaxFaults,    \* bound on failed and lost queries
  MaxChanges,   \* bound on changes of a metric's level
  MaxRestarts   \* bound on restarts of the process

Devices == 1..NDevices
Rules   == 0..Top
Keys    == Devices \X Rules
Levels  == 0..(2*Top)
Ids     == Nat
Queries == {"sync", "load", "sibling", "mark", "insert", "clear"}

ASSUME ConstantsAssumption ==
  /\ NDevices \in Nat
  /\ Down \subseteq Devices
  /\ Top \in Nat \ {0}
  /\ MayFail \subseteq Queries
  /\ MayLose \subseteq Queries
  /\ MaxFaults \in Nat /\ MaxChanges \in Nat /\ MaxRestarts \in Nat

VARIABLES
  openAlerts,   \* the Map "device:rule" -> alert id
  counter,      \* the number nextId() hands out next
  initialized,  \* syncFromDb() has run
  deviceIds,    \* the device ids are loaded
  alerts,       \* table alerts: id -> row
  notices,      \* <<id, key>> of the alerts given to onAlertFired
  level,        \* the simulated metric of each device
  ev,           \* the evaluations under way
  faults, changes, restarts

memory == <<openAlerts, counter, initialized, deviceIds>>
budget == <<faults, changes, restarts>>
vars   == <<memory, alerts, notices, level, ev, budget>>

-----------------------------------------------------------------------------
(* Maps and rows. *)

Put(f, k, v) == [j \in DOMAIN f \cup {k} |-> IF j = k THEN v ELSE f[j]]
DropLeavesBlank(f, k) == [f EXCEPT ![k] = -1]   \* variant: blanks the entry
Drop(f, k)   == [j \in DOMAIN f \ {k} |-> f[j]]

Row(k, c) == [key |-> k, open |-> TRUE, cause |-> c]
OpenIds   == {i \in DOMAIN alerts : alerts[i].open}
IsOpen(k) == \E i \in OpenIds : alerts[i].key = k

-----------------------------------------------------------------------------
(* RULES: when a rule is breached and when it has cleared. *)

Breached(k, lv) ==
  \/ k[2] = 0 /\ k[1] \in Down
  \/ /\ k[2] > 0 /\ k[1] \notin Down
     /\ lv >= 2*k[2]
     /\ k[2] = Top \/ lv < 2*k[2] + 2

Cleared(k, lv) ==
  \/ k[2] = 0 /\ k[1] \notin Down
  \/ k[2] > 0 /\ lv < 2*k[2] - 1

\* The order in which evaluate() and evaluateDevice() come to the keys:
\* device by device, device.down first, then from the severest rule down.
Origin == <<0, 0>>
Before(j, k) ==
  \/ j[1] < k[1]
  \/ j[1] = k[1] /\ k[2] # 0 /\ (j[2] = 0 \/ j[2] > k[2])

\* evaluateDevice: what it does for key k, map m being the open alerts.
Fires(k, lv, m)  == Breached(k, lv) /\ k \notin DOMAIN m
Clears(k, lv, m) == ~Breached(k, lv) /\ k \in DOMAIN m /\ Cleared(k, lv)

\* The keys of the same group that firing k first clears, of rank below b.
SiblingsBelow(k, m, b) ==   \* variant: clears the milder rules only
  {r \in 1..(b - 1) : r < k[2] /\ <<k[1], r>> \in DOMAIN m}
Siblings(k, m, b) ==
  {r \in 1..(b - 1) : k[2] # 0 /\ r # k[2] /\ <<k[1], r>> \in DOMAIN m}

-----------------------------------------------------------------------------
(* An evaluation: the query it waits for, the outcome of that query, the   *)
(* snapshot, the key at hand, the sibling being cleared, the alert id the  *)
(* query names, whether the alert is a root cause, and the synced rows.    *)

Idle == [pc |-> "idle", reply |-> "none", snap |-> [d \in Devices |-> 0],
         at |-> Origin, sib |-> 0, id |-> 0, root |-> FALSE, seen |-> {}]

Sent(v, q) == [v EXCEPT !.pc = q, !.reply = "none"]
Become(e, v) == ev' = [ev EXCEPT ![e] = v]

FireSameId(e, v, m) ==   \* variant: nextId() does not count on
  /\ UNCHANGED counter
  /\ LET root == v.at[2] = 0 /\ DOMAIN m # {}
         q    == IF root THEN "mark" ELSE "insert"
     IN Become(e, [Sent(v, q) EXCEPT !.id = counter, !.root = root])

\* fireAlert, from nextId() to its first query; m is the open-alerts map.
Fire(e, v, m) ==
  /\ counter' = counter + 1
  /\ LET root == v.at[2] = 0 /\ DOMAIN m # {}
         q    == IF root THEN "mark" ELSE "insert"
     IN Become(e, [Sent(v, q) EXCEPT !.id = counter, !.root = root])

\* clearEscalationSiblings: the query that clears the next open sibling.
ClearSibling(e, v, m, b) ==
  \E r \in Siblings(v.at, m, b) :
    /\ \A s \in Siblings(v.at, m, b) : s <= r
    /\ Become(e, [Sent(v, "sibling") EXCEPT !.sib = r, !.id = m[<<v.at[1], r>>]])
    /\ UNCHANGED counter

\* The keys after v.at on which the scan acts, and the first of them.
Todo(v, m) ==
  {k \in Keys : /\ Before(v.at, k)
                /\ Fires(k, v.snap[k[1]], m) \/ Clears(k, v.snap[k[1]], m)}
FirstOf(S) == {k \in S : \A j \in S : ~Before(j, k)}

\* evaluate and evaluateDevice, from the key just handled to the next query
\* or to the end of the snapshot.
Resume(e, v, m) ==
  \/ Todo(v, m) = {} /\ Become(e, Idle) /\ UNCHANGED counter
  \/ \E k \in FirstOf(Todo(v, m)) :
       LET w == [v EXCEPT !.at = k] IN
       \/ /\ Clears(k, v.snap[k[1]], m)
          /\ Become(e, [Sent(w, "clear") EXCEPT !.id = m[k]])
          /\ UNCHANGED counter
       \/ Fires(k, v.snap[k[1]], m) /\ ClearSibling(e, w, m, Top + 1)
       \/ Fires(k, v.snap[k[1]], m) /\ Siblings(k, m, Top + 1) = {} /\ Fire(e, w, m)

-----------------------------------------------------------------------------
(* The actions of an evaluation. *)

\* onTick, every WRITE_EVERY_N_TICKS ticks: evaluate(getSnapshot()).
Tick(e) ==
  /\ ev[e].pc = "idle"
  /\ LET v == [Idle EXCEPT !.snap = level] IN
     \/ ~initialized /\ Become(e, Sent(v, "sync")) /\ UNCHANGED counter
     \/ initialized /\ ~deviceIds /\ Become(e, Sent(v, "load")) /\ UNCHANGED counter
     \/ initialized /\ deviceIds /\ Resume(e, v, openAlerts)
  /\ UNCHANGED <<openAlerts, initialized, deviceIds, alerts, notices, level, budget>>

\* What PostgreSQL does for each query.
CloseRow(i) == [j \in DOMAIN alerts |->
                  IF j = i THEN [alerts[j] EXCEPT !.open = FALSE] ELSE alerts[j]]
MarkRows(d) == [j \in DOMAIN alerts |->
                  IF alerts[j].open /\ alerts[j].cause = "none" /\ alerts[j].key[1] # d
                  THEN [alerts[j] EXCEPT !.cause = "child"] ELSE alerts[j]]
InsertOverwrites(i, k, root) ==   \* variant: ON CONFLICT (id) DO UPDATE
  Put(alerts, i, Row(k, IF root THEN "root" ELSE "none"))
InsertRow(i, k, root) ==
  IF i \in DOMAIN alerts THEN alerts       \* ON CONFLICT (id) DO NOTHING
  ELSE Put(alerts, i, Row(k, IF root THEN "root" ELSE "none"))

Executed(v) ==
  CASE v.pc \in {"clear", "sibling"} -> CloseRow(v.id)
    [] v.pc = "mark"                 -> MarkRows(v.at[1])
    [] v.pc = "insert"               -> InsertRow(v.id, v.at, v.root)
    [] OTHER                         -> alerts

\* The database executes the query and the reply arrives.
Answer(e) ==
  /\ ev[e].pc # "idle" /\ ev[e].reply = "none"
  /\ alerts' = Executed(ev[e])
  /\ Become(e, [ev[e] EXCEPT !.reply = "ok",
                             !.seen = IF ev[e].pc = "sync" THEN OpenIds ELSE {}])
  /\ UNCHANGED <<memory, notices, level, budget>>

\* The query fails, or is executed and its reply is lost.
Fault(e) ==
  /\ ev[e].pc # "idle" /\ ev[e].reply = "none"
  /\ faults < MaxFaults /\ faults' = faults + 1
  /\ \/ ev[e].pc \in MayFail /\ UNCHANGED alerts
     \/ ev[e].pc \in MayLose /\ alerts' = Executed(ev[e])
  /\ Become(e, [ev[e] EXCEPT !.reply = "error"])
  /\ UNCHANGED <<memory, notices, level, changes, restarts>>

MergesNothing(m, rows) == {m}   \* variant: the synced rows are dropped

\* The rows of a SELECT come in any order: of two rows with the same key
\* the one that comes last is kept.
Merges(m, rows) ==
  LET ks == {alerts[i].key : i \in rows} IN
  {[k \in DOMAIN m \cup ks |-> IF k \in ks THEN f[k] ELSE m[k]] :
     f \in {g \in [ks -> rows] : \A k \in ks : alerts[g[k]].key = k}}

\* syncFromDb: a failure counts as synced; then the device ids are needed.
SyncReply(e) ==
  /\ ev[e].pc = "sync" /\ ev[e].reply # "none"
  /\ \/ ev[e].reply = "ok" /\ openAlerts' \in Merges(openAlerts, ev[e].seen)
     \/ ev[e].reply = "error" /\ UNCHANGED openAlerts
  /\ initialized' = TRUE
  /\ LET v == [ev[e] EXCEPT !.seen = {}] IN
     \/ ~deviceIds /\ Become(e, Sent(v, "load")) /\ UNCHANGED counter
     \/ deviceIds /\ Resume(e, v, openAlerts')
  /\ UNCHANGED <<deviceIds, alerts, notices, level, budget>>

\* loadDeviceIds: its failure aborts the evaluation.
LoadReply(e) ==
  /\ ev[e].pc = "load" /\ ev[e].reply # "none"
  /\ \/ ev[e].reply = "ok" /\ deviceIds' = TRUE /\ Resume(e, ev[e], openAlerts)
     \/ ev[e].reply = "error" /\ Become(e, Idle) /\ UNCHANGED <<counter, deviceIds>>
  /\ UNCHANGED <<openAlerts, initialized, alerts, notices, level, budget>>

ClearReplyKeeps(e) ==   \* variant: a cleared key stays in the map
  /\ ev[e].pc = "clear" /\ ev[e].reply # "none"
  /\ Resume(e, ev[e], openAlerts)
  /\ UNCHANGED <<openAlerts, initialized, deviceIds, alerts, notices, level, budget>>

ClearReplyForgets(e) ==   \* variant: the key goes even when the UPDATE fails
  /\ ev[e].pc = "clear" /\ ev[e].reply # "none"
  /\ openAlerts' = Drop(openAlerts, ev[e].at)
  /\ Resume(e, ev[e], openAlerts')
  /\ UNCHANGED <<initialized, deviceIds, alerts, notices, level, budget>>

\* clearAlert, called by evaluateDevice.
ClearReply(e) ==
  /\ ev[e].pc = "clear" /\ ev[e].reply # "none"
  /\ openAlerts' = IF ev[e].reply = "ok" THEN Drop(openAlerts, ev[e].at) ELSE openAlerts
  /\ Resume(e, ev[e], openAlerts')
  /\ UNCHANGED <<initialized, deviceIds, alerts, notices, level, budget>>

\* clearAlert, called by clearEscalationSiblings: the next sibling, or
\* fireAlert, which looks again whether the alert is open.
SiblingReply(e) ==
  /\ ev[e].pc = "sibling" /\ ev[e].reply # "none"
  /\ openAlerts' = IF ev[e].reply = "ok"
                   THEN Drop(openAlerts, <<ev[e].at[1], ev[e].sib>>) ELSE openAlerts
  /\ \/ ClearSibling(e, ev[e], openAlerts', ev[e].sib)
     \/ /\ Siblings(ev[e].at, openAlerts', ev[e].sib) = {}
        /\ \/ ev[e].at \notin DOMAIN openAlerts' /\ Fire(e, ev[e], openAlerts')
           \/ ev[e].at \in DOMAIN openAlerts' /\ Resume(e, ev[e], openAlerts')
  /\ UNCHANGED <<initialized, deviceIds, alerts, notices, level, budget>>

MarkReplyAborts(e) ==   \* variant: a failed CHILD update ends the evaluation
  /\ ev[e].pc = "mark" /\ ev[e].reply # "none"
  /\ Become(e, IF ev[e].reply = "ok" THEN Sent(ev[e], "insert") ELSE Idle)
  /\ UNCHANGED <<memory, alerts, notices, level, budget>>

\* fireAlert after the CHILD update, whatever came of it.
MarkReply(e) ==
  /\ ev[e].pc = "mark" /\ ev[e].reply # "none"
  /\ Become(e, Sent(ev[e], "insert"))
  /\ UNCHANGED <<memory, alerts, notices, level, budget>>

InsertReplyUnset(e) ==   \* variant: the new alert is not put into the map
  /\ ev[e].pc = "insert" /\ ev[e].reply # "none"
  /\ notices' = IF ev[e].reply = "ok" THEN notices \cup {<<ev[e].id, ev[e].at>>} ELSE notices
  /\ Resume(e, ev[e], openAlerts)
  /\ UNCHANGED <<openAlerts, initialized, deviceIds, alerts, level, budget>>

\* fireAlert after the INSERT.
InsertReply(e) ==
  /\ ev[e].pc = "insert" /\ ev[e].reply # "none"
  /\ \/ /\ ev[e].reply = "ok"
        /\ openAlerts' = Put(openAlerts, ev[e].at, ev[e].id)
        /\ notices' = notices \cup {<<ev[e].id, ev[e].at>>}
     \/ ev[e].reply = "error" /\ UNCHANGED <<openAlerts, notices>>
  /\ Resume(e, ev[e], openAlerts')
  /\ UNCHANGED <<initialized, deviceIds, alerts, level, budget>>

-----------------------------------------------------------------------------
(* The environment. *)

\* The metrics of a device that is up move; a snapshot sees where to.
LevelChange(d) ==
  /\ changes < MaxChanges /\ changes' = changes + 1
  /\ d \notin Down
  /\ \E lv \in Levels \ {level[d]} : level' = [level EXCEPT ![d] = lv]
  /\ UNCHANGED <<memory, alerts, notices, ev, faults, restarts>>

\* The process stops and starts again: only the table survives.
Restart ==
  /\ restarts < MaxRestarts /\ restarts' = restarts + 1
  /\ openAlerts' = [k \in {} |-> 0] /\ counter' = 90300
  /\ initialized' = FALSE /\ deviceIds' = FALSE
  /\ ev' = [e \in Evals |-> Idle]
  /\ UNCHANGED <<alerts, notices, level, faults, changes>>

-----------------------------------------------------------------------------
Init ==
  /\ openAlerts = [k \in {} |-> 0] /\ counter = 90300
  /\ initialized = FALSE /\ deviceIds = FALSE
  /\ alerts = [i \in {} |-> Row(Origin, "none")]
  /\ notices = {}
  /\ level \in [Devices -> Levels]
  /\ \A d \in Down : level[d] \in {0, 2*Top}
  /\ ev = [e \in Evals |-> Idle]
  /\ faults = 0 /\ changes = 0 /\ restarts = 0

Reply(e) ==
  \/ SyncReply(e) \/ LoadReply(e) \/ ClearReply(e)
  \/ SiblingReply(e) \/ MarkReply(e) \/ InsertReply(e)

Next ==
  \/ \E e \in Evals : Tick(e) \/ Answer(e) \/ Fault(e) \/ Reply(e)
  \/ \E d \in Devices : LevelChange(d)
  \/ Restart

Spec == Init /\ [][Next]_vars

\* setInterval keeps ticking, and a query is answered or fails.
Fairness ==
  \A e \in Evals : WF_vars(Tick(e)) /\ WF_vars(Answer(e)) /\ WF_vars(Reply(e))

LiveSpec == Spec /\ Fairness

-----------------------------------------------------------------------------
(* Properties. *)

Evaluation ==
  [pc : Queries \cup {"idle"}, reply : {"none", "ok", "error"},
   snap : [Devices -> Levels], at : Keys \cup {Origin}, sib : 0..Top,
   id : Ids, root : BOOLEAN, seen : SUBSET Ids]

\* The types of the variables of AlertEvaluator, of the table and of the
\* evaluations under way.
TypeOK ==
  /\ DOMAIN openAlerts \subseteq Keys
  /\ openAlerts \in [DOMAIN openAlerts -> Ids]
  /\ counter \in Ids
  /\ initialized \in BOOLEAN /\ deviceIds \in BOOLEAN
  /\ DOMAIN alerts \subseteq Ids
  /\ alerts \in [DOMAIN alerts ->
                   [key : Keys, open : BOOLEAN, cause : {"none", "root", "child"}]]
  /\ notices \subseteq Ids \X Keys
  /\ level \in [Devices -> Levels]
  /\ ev \in [Evals -> Evaluation]
  /\ \A e \in Evals : ev[e].seen \subseteq DOMAIN alerts
  /\ faults \in 0..MaxFaults /\ changes \in 0..MaxChanges /\ restarts \in 0..MaxRestarts

\* No device has two open rows for the same rule, however often the process
\* is restarted (syncFromDb, the has() tests and ON CONFLICT together).
OneOpenPerKey ==
  \A i, j \in OpenIds : alerts[i].key = alerts[j].key => i = j

\* Once synced, the map of open alerts knows every open row under its own id,
\* but for a row whose INSERT has yet to be answered: no open alert is
\* orphaned, so that each of them can still be cleared.
Tracked ==
  initialized =>
    \A i \in OpenIds :
      LET k == alerts[i].key IN
      \/ k \in DOMAIN openAlerts /\ openAlerts[k] = i
      \/ \E e \in Evals : /\ ev[e].pc = "insert" /\ ev[e].reply = "ok"
                          /\ ev[e].id = i /\ ev[e].at = k

\* clearEscalationSiblings: of the rules of an escalation group at most one
\* has an open row on a device.
GroupExclusive ==
  \A i, j \in OpenIds :
    /\ alerts[i].key[1] = alerts[j].key[1]
    /\ alerts[i].key[2] > 0 /\ alerts[j].key[2] > 0
    => alerts[i].key[2] = alerts[j].key[2]

\* Comment on openAlerts: the map takes a key to the id of its alert, that
\* is, of a row recorded for that device and that rule.
MapNamesItsRow ==
  \A k \in DOMAIN openAlerts :
    openAlerts[k] \in DOMAIN alerts /\ alerts[openAlerts[k]].key = k

\* What onAlertFired is told about is in the table, under that id, for that
\* device and rule.
NoticesAreRecorded ==
  \A n \in notices : n[1] \in DOMAIN alerts /\ alerts[n[1]].key = n[2]

\* An alert marked CHILD has its ROOT in the table, or the INSERT of that
\* root is what an evaluation does next (fireAlert for device.down).
ChildHasRoot ==
  (\E i \in DOMAIN alerts : alerts[i].cause = "child") =>
    \/ \E j \in DOMAIN alerts : alerts[j].cause = "root" /\ alerts[j].key[2] = 0
    \/ \E e \in Evals : ev[e].pc \in {"mark", "insert"} /\ ev[e].root

\* A row is never rewritten for another alert, never reopened and never
\* deleted, even when a restarted process hands out the same ids again.
HistoryIsKept ==
  [][\A i \in DOMAIN alerts :
       /\ i \in DOMAIN alerts'
       /\ alerts'[i].key = alerts[i].key
       /\ alerts'[i].open => alerts[i].open]_vars

\* The ledger that the table keeps: which keys have an open row, and how many
\* rows each has had.  device.down is a group of its own.
Ledger ==
  INSTANCE AlertLedger
  WITH GroupOf <- [k \in Keys |-> <<k[1], k[2] > 0>>],
       open    <- {alerts[i].key : i \in OpenIds},
       raised  <- [k \in Keys |-> Cardinality({i \in DOMAIN alerts : alerts[i].key = k})]

\* fireAlert, clearAlert and clearEscalationSiblings, with their map, their
\* queries one by one, failures and restarts, implement AlertLedger: each
\* change of the table raises or clears one alert, and raises it only when no
\* rule of its group has an open one on the device.
KeepsLedger == Ledger!Spec

\* Comment "Returns true if the condition has fully cleared (with
\* hysteresis)" and "firing higher cancels lower": the row of a rule is
\* closed only when that rule has cleared, or in favour of a severer rule of
\* its group that is breached.
ClosedForCause ==
  [][\A i \in OpenIds :
       ~alerts'[i].open =>
         \E e \in Evals :
           LET k == alerts[i].key IN
           \/ Cleared(k, ev[e].snap[k[1]])
           \/ \E r \in (k[2] + 1)..Top : Breached(<<k[1], r>>, ev[e].snap[k[1]])]_vars

\* A rule that stays breached has, from some point on, an open row: failed
\* queries are made up for by a later evaluation.  Without restarts, for an id
\* that is handed out again makes the INSERT do nothing, see MapNamesItsRow.
Raised ==
  [](restarts = 0) => \A k \in Keys : <>[]Breached(k, level[k[1]]) => <>[]IsOpen(k)

\* A rule that stays cleared has, from some point on, no open row, however
\* often its clearing failed or the process was restarted.
Resolved ==
  \A k \in Keys : <>[]Cleared(k, level[k[1]]) => <>[]~IsOpen(k)

=============================================================================

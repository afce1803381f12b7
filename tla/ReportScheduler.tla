--------------------------- MODULE ReportScheduler ---------------------------
(***************************************************************************)
(* The report subscriptions of                                             *)
(* src/src/integrations/email-notifications.service.ts: rows of the table  *)
(* report_email_subscriptions and, for each enabled one, a cron job in     *)
(* Nest's SchedulerRegistry that mails the report.  A job keeps the row it *)
(* was registered with, so job and row must be kept in step by hand:       *)
(* create, update and delete do that around one query each, and onModule-  *)
(* Init does it for the whole table after a restart.                       *)
(*                                                                         *)
(* A request runs up to its query, the database answers, and the rest of   *)
(* the handler runs; in between other requests and cron jobs run.          *)
(***************************************************************************)
EXTENDS Integers, FiniteSets

CONSTANTS
  Requests,       \* HTTP requests that may be under way at the same time
  Configs,        \* the contents of a subscription: schedule, recipients, report
  BadCron,        \* the contents whose schedule CronJob rejects
  SameIdOverlap,  \* may two requests on the same subscription overlap
  MaxSubs,        \* the last id of the table's sequence, which bounds its rows
  MaxSending,     \* bound on reports being mailed at the same time
  MaxFaults,      \* bound on failed queries, lost replies and failed mails
  MaxRestarts     \* bound on restarts

ASSUME SchedulerAssumption ==
  /\ BadCron \subseteq Configs
  /\ SameIdOverlap \in BOOLEAN
  /\ MaxSubs \in Nat /\ MaxSending \in Nat /\ MaxFaults \in Nat /\ MaxRestarts \in Nat

Ids == 1..MaxSubs

VARIABLES
  rows,     \* table report_email_subscriptions: id -> row
  serial,   \* the last id the table's sequence handed out
  jobs,     \* SchedulerRegistry: id -> contents the job was registered with
  req,      \* the requests under way
  failed,   \* subscriptions whose last request was answered by an error
  sending,  \* reports being mailed
  faults, restarts

vars == <<rows, serial, jobs, req, failed, sending, faults, restarts>>

-----------------------------------------------------------------------------
Put(f, k, v) == [j \in DOMAIN f \cup {k} |-> IF j = k THEN v ELSE f[j]]
Drop(f, k)   == [j \in DOMAIN f \ {k} |-> f[j]]

Ops == {"create", "update", "delete"}

\* A request: its operation, the subscription (0 for one to be created), the
\* contents and "enabled" flag of its body, and what has come of its query.
NoRequest == [op |-> "none", id |-> 0, cfg |-> "none", on |-> FALSE, reply |-> "none"]
Request(o, i, c, b) == [op |-> o, id |-> i, cfg |-> c, on |-> b, reply |-> "none"]

Busy(i)   == \E r \in Requests : req[r].op # "none" /\ req[r].id = i
MayTouch(i) == SameIdOverlap \/ ~Busy(i)

Finish(r)   == req' = [req EXCEPT ![r] = NoRequest]
Succeeds(i) == failed' = failed \ {i}
Fails(i)    == failed' = failed \cup {i}

\* registerReportJob: an existing job gives way, then CronJob parses the
\* schedule; when it throws, the subscription is left without a job.
Registered(i, c) == IF c \in BadCron THEN Drop(jobs, i) ELSE Put(jobs, i, c)

-----------------------------------------------------------------------------
(* The first part of each handler. *)

\* createReportSubscription, up to its INSERT.
Create(r) ==
  /\ req[r].op = "none"
  /\ \E c \in Configs, b \in BOOLEAN :
       req' = [req EXCEPT ![r] = Request("create", 0, c, b)]
  /\ UNCHANGED <<rows, serial, jobs, failed, sending, faults, restarts>>

\* updateReportSubscription, up to its UPDATE; nothing checks that the
\* subscription exists.
Update(r) ==
  /\ req[r].op = "none"
  /\ \E i \in 1..serial, c \in Configs, b \in BOOLEAN :
       MayTouch(i) /\ req' = [req EXCEPT ![r] = Request("update", i, c, b)]
  /\ UNCHANGED <<rows, serial, jobs, failed, sending, faults, restarts>>

DeleteKeepsJob(r) ==   \* variant: the job is not unregistered
  /\ req[r].op = "none"
  /\ \E i \in 1..serial :
       MayTouch(i) /\ req' = [req EXCEPT ![r] = Request("delete", i, "none", FALSE)]
  /\ UNCHANGED <<rows, serial, jobs, failed, sending, faults, restarts>>

\* deleteReportSubscription unregisters the job before its DELETE.
Delete(r) ==
  /\ req[r].op = "none"
  /\ \E i \in 1..serial :
       /\ MayTouch(i)
       /\ req' = [req EXCEPT ![r] = Request("delete", i, "none", FALSE)]
       /\ jobs' = Drop(jobs, i)
  /\ UNCHANGED <<rows, serial, failed, sending, faults, restarts>>

-----------------------------------------------------------------------------
(* The database. *)

\* The id an INSERT gets, and the table after a query.
TargetId(q) == IF q.op = "create" THEN serial + 1 ELSE q.id
ExecutedUnstamped(q) ==   \* variant: an UPDATE writes every column
  CASE q.op = "create" -> Put(rows, serial + 1, [cfg |-> q.cfg, on |-> q.on, sent |-> FALSE])
    [] q.op = "update" /\ q.id \in DOMAIN rows ->
         Put(rows, q.id, [cfg |-> q.cfg, on |-> q.on, sent |-> FALSE])
    [] q.op = "delete" -> Drop(rows, q.id)
    [] OTHER -> rows
Executed(q) ==
  CASE q.op = "create" -> Put(rows, serial + 1, [cfg |-> q.cfg, on |-> q.on, sent |-> FALSE])
    [] q.op = "update" /\ q.id \in DOMAIN rows ->
         Put(rows, q.id, [cfg |-> q.cfg, on |-> q.on, sent |-> rows[q.id].sent])
    [] q.op = "delete" -> Drop(rows, q.id)
    [] OTHER -> rows

CanRun(r) ==
  /\ req[r].op # "none" /\ req[r].reply = "none"
  /\ req[r].op = "create" => serial < MaxSubs

\* The table's sequence is at its limit: the INSERT is refused.
Refuse(r) ==
  /\ req[r].op = "create" /\ req[r].reply = "none" /\ serial = MaxSubs
  /\ Finish(r)
  /\ UNCHANGED <<rows, serial, jobs, failed, sending, faults, restarts>>

\* The query is executed; an UPDATE of a missing row returns no row.
Answer(r) ==
  /\ CanRun(r)
  /\ rows' = Executed(req[r])
  /\ serial' = IF req[r].op = "create" THEN serial + 1 ELSE serial
  /\ req' = [req EXCEPT ![r] =
       [req[r] EXCEPT !.id = TargetId(req[r]),
                      !.reply = IF req[r].op = "update" /\ req[r].id \notin DOMAIN rows
                                THEN "empty" ELSE "ok"]]
  /\ UNCHANGED <<jobs, failed, sending, faults, restarts>>

\* The query fails, or is executed and its reply is lost: the handler ends
\* with the error.
Fault(r) ==
  /\ CanRun(r)
  /\ faults < MaxFaults /\ faults' = faults + 1
  /\ \/ /\ UNCHANGED <<rows, serial>>
        /\ failed' = IF req[r].op = "create" THEN failed ELSE failed \cup {req[r].id}
     \/ /\ rows' = Executed(req[r])
        /\ serial' = IF req[r].op = "create" THEN serial + 1 ELSE serial
        /\ Fails(TargetId(req[r]))
  /\ Finish(r)
  /\ UNCHANGED <<jobs, sending, restarts>>

-----------------------------------------------------------------------------
(* The rest of each handler. *)

CreateReply(r) ==
  /\ req[r].op = "create" /\ req[r].reply # "none"
  /\ jobs' = IF req[r].on THEN Registered(req[r].id, req[r].cfg) ELSE jobs
  /\ IF req[r].on /\ req[r].cfg \in BadCron THEN Fails(req[r].id) ELSE Succeeds(req[r].id)
  /\ Finish(r)
  /\ UNCHANGED <<rows, serial, sending, faults, restarts>>

UpdateReplyKeeps(r) ==   \* variant: a disabled subscription keeps its job
  /\ req[r].op = "update" /\ req[r].reply # "none"
  /\ jobs' = IF req[r].reply = "ok" /\ req[r].on
             THEN Registered(req[r].id, req[r].cfg) ELSE jobs
  /\ IF req[r].reply = "empty" \/ (req[r].on /\ req[r].cfg \in BadCron)
     THEN Fails(req[r].id) ELSE Succeeds(req[r].id)
  /\ Finish(r)
  /\ UNCHANGED <<rows, serial, sending, faults, restarts>>

\* The old job goes; then the missing row of an UPDATE that found none is
\* dereferenced, which throws.
UpdateReply(r) ==
  /\ req[r].op = "update" /\ req[r].reply # "none"
  /\ jobs' = IF req[r].reply = "ok" /\ req[r].on
             THEN Registered(req[r].id, req[r].cfg) ELSE Drop(jobs, req[r].id)
  /\ IF req[r].reply = "empty" \/ (req[r].on /\ req[r].cfg \in BadCron)
     THEN Fails(req[r].id) ELSE Succeeds(req[r].id)
  /\ Finish(r)
  /\ UNCHANGED <<rows, serial, sending, faults, restarts>>

DeleteReply(r) ==
  /\ req[r].op = "delete" /\ req[r].reply # "none"
  /\ Succeeds(req[r].id)
  /\ Finish(r)
  /\ UNCHANGED <<rows, serial, jobs, sending, faults, restarts>>

-----------------------------------------------------------------------------
(* Mailing. *)

Send(i) == [id |-> i, stage |-> "mailing"]

\* A cron job fires: sendReportEmail with the row the job keeps.
Fire(i) ==
  /\ i \in DOMAIN jobs /\ Cardinality(sending) < MaxSending
  /\ sending' = sending \cup {Send(i)}
  /\ UNCHANGED <<rows, serial, jobs, req, failed, faults, restarts>>

\* sendReportEmailNow: with the row the table has, enabled or not.
SendNow(i) ==
  /\ i \in DOMAIN rows /\ Cardinality(sending) < MaxSending
  /\ sending' = sending \cup {Send(i)}
  /\ UNCHANGED <<rows, serial, jobs, req, failed, faults, restarts>>

\* sendReportEmail hands the mail to the SMTP server ...
Mail(s) ==
  /\ s.stage = "mailing"
  /\ sending' = (sending \ {s}) \cup {[s EXCEPT !.stage = "mailed"]}
  /\ UNCHANGED <<rows, serial, jobs, req, failed, faults, restarts>>

\* ... and then stamps last_sent_at, if the row is still there.
Stamp(s) ==
  /\ s.stage = "mailed"
  /\ sending' = sending \ {s}
  /\ rows' = IF s.id \in DOMAIN rows
             THEN Put(rows, s.id, [rows[s.id] EXCEPT !.sent = TRUE]) ELSE rows
  /\ UNCHANGED <<serial, jobs, req, failed, faults, restarts>>

\* A report without data, without recipients or refused by the SMTP server,
\* or a failed stamp: given up, and only logged.
GiveUp(s) ==
  /\ faults < MaxFaults /\ faults' = faults + 1
  /\ sending' = sending \ {s}
  /\ UNCHANGED <<rows, serial, jobs, req, failed, restarts>>

-----------------------------------------------------------------------------
\* The process restarts: onModuleInit registers a job for every enabled row,
\* and logs the schedules CronJob rejects, before requests are served.
Bootstrapped == {i \in DOMAIN rows : rows[i].on /\ rows[i].cfg \notin BadCron}
Restart ==
  /\ restarts < MaxRestarts /\ restarts' = restarts + 1
  /\ jobs' = [i \in Bootstrapped |-> rows[i].cfg]
  /\ failed' = {i \in DOMAIN rows : rows[i].on /\ rows[i].cfg \in BadCron}
  /\ req' = [r \in Requests |-> NoRequest]
  /\ sending' = {}
  /\ UNCHANGED <<rows, serial, faults>>

Init ==
  /\ rows = [i \in {} |-> 0] /\ serial = 0
  /\ jobs = [i \in {} |-> 0]
  /\ req = [r \in Requests |-> NoRequest]
  /\ failed = {} /\ sending = {}
  /\ faults = 0 /\ restarts = 0

Next ==
  \/ \E r \in Requests :
       \/ Create(r) \/ Update(r) \/ Delete(r)
       \/ Answer(r) \/ Refuse(r) \/ Fault(r)
       \/ CreateReply(r) \/ UpdateReply(r) \/ DeleteReply(r)
  \/ \E i \in Ids : Fire(i) \/ SendNow(i)
  \/ \E s \in sending : Mail(s) \/ Stamp(s) \/ GiveUp(s)
  \/ Restart

Spec == Init /\ [][Next]_vars

-----------------------------------------------------------------------------
(* Properties. *)

Contents == Configs \cup {"none"}

\* The types of the table, the registry, the requests and the mails.
TypeOK ==
  /\ DOMAIN rows \subseteq 1..serial
  /\ rows \in [DOMAIN rows -> [cfg : Configs, on : BOOLEAN, sent : BOOLEAN]]
  /\ serial \in 0..MaxSubs
  /\ DOMAIN jobs \subseteq Ids /\ jobs \in [DOMAIN jobs -> Configs]
  /\ req \in [Requests -> [op : Ops \cup {"none"}, id : 0..serial, cfg : Contents,
                           on : BOOLEAN, reply : {"none", "ok", "empty"}]]
  /\ failed \subseteq Ids
  /\ sending \subseteq [id : Ids, stage : {"mailing", "mailed"}]
  /\ faults \in 0..MaxFaults /\ restarts \in 0..MaxRestarts

\* Every job belongs to a row of the table: no job of a deleted subscription
\* fires again, though a report on its way is still mailed.  (Requests on the
\* same subscription must not overlap: an UPDATE answered before and continued
\* after a DELETE registers the job of the deleted row.)
NoZombie == DOMAIN jobs \subseteq DOMAIN rows

\* What the caller was told has succeeded is in force: a subscription at
\* rest, whose last request was not answered by an error, has a job exactly
\* if it is enabled, and the job runs with the row's contents.
JobsInForce ==
  \A i \in DOMAIN rows :
    ~Busy(i) /\ i \notin failed =>
      /\ rows[i].on <=> i \in DOMAIN jobs
      /\ i \in DOMAIN jobs => jobs[i] = rows[i].cfg

\* Once a report has been mailed and last_sent_at is set, no request, however
\* it interleaves with the mailing, takes the stamp off the row again.
StampKept ==
  [][\A i \in DOMAIN rows \cap DOMAIN rows' : rows[i].sent => rows'[i].sent]_vars

=============================================================================

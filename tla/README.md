# TLA+ models of signal-scope-be

signal-scope-be is the NestJS backend of a network-monitoring product: it
simulates (or will ingest) device metrics, raises alerts from them, mails alerts
and reports, and serves a REST API over PostgreSQL/TimescaleDB. This directory
holds TLA+ models of its stateful parts, TLC configurations that check them on
small instances, and TLAPS proofs that do so for every value of the constants.

    tlc -workers 2 -config AlertSerial.cfg MCAlertEvaluator    # one run
    tlapm AlertEvaluatorProofs.tla                             # one proof module

`PROJECT.json` lists the components, the runs, the lines of code that each
definition models, the hazards of the code and the theorems.

## 1. The system

All of it is one Node.js process and one database. JavaScript runs one
continuation at a time; what interleaves is everything between two `await`s.
There are no transactions: each handler is a sequence of single statements on a
pool of connections. So a step of a model is *a handler up to its next query*,
*the database executing that query*, or *the continuation of its reply*, and the
hard behaviours are what may happen between those.

| Component | State | Operations | Hard behaviour | What makes it correct |
|---|---|---|---|---|
| Alert evaluator (`simulation/alert-evaluator.ts`) | map `openAlerts`, id counter, `initialized`, device ids; rows of `alerts` | `evaluate` every fifth tick: sync, fire, clear, escalate | ticks do not wait for each other; every query may fail or lose its reply; restarts; ids start again | map and table agree; a key has one open row; a group has one open rule; what is breached gets raised, what is cleared gets resolved |
| Simulation service (`simulation.service.ts`) | timer, tick count, `deviceIdCache` | `onTick`, `persistMetrics`, `setAlertNotifier` | overlapping writes, a cache that is loaded once, one INSERT for all devices | metrics are filed under the right device, and keep being filed |
| Simulation engine (`simulation.engine.ts`) | levels and bounded history per device | `tick`, `getSnapshot`, the series | bounded history at its limit; indices counted from a length | history is the last *n* samples, and every view of them agrees |
| Report scheduler (`email-notifications.service.ts`) | table `report_email_subscriptions`, cron jobs in `SchedulerRegistry` | create, update, delete, send now, cron firing, `onModuleInit` | job and row are kept in step by hand; invalid cron; failures between row and job | jobs = enabled rows, with the row's contents |
| Alert e-mails (same file) | tables of settings and of preferences, `email_notified_at` | `saveAlertEmailSettings`, `notifyAlert` | read-then-write; check, mail, then mark | one settings row; at most one mail per alert |
| Integrations / SMTP (`integrations.service.ts`) | table `integrations_config` | `saveConfig`, `sendEmail` | SMTP is an external, failing call | - |
| Device registry (`devices.service.ts`) | table `devices` | create, delete | caches elsewhere outlive its rows | ids are not reused |
| Alerts API (`alerts.service.ts`) | `alerts`, `alert_history` | acknowledge, suppress | toggle by read-then-write; history written last | history follows the flags |
| Configuration snapshots (`configuration.service.ts`) | `device_config_snapshots` | takeSnapshot, snapshotAll | `MAX(version)+1` and INSERT in two queries | versions unique and gapless, newer version = newer text |
| OIDC login, users, groups (`oidc`, `users`, `groups`) | `stateStore`, `users`, `user_idp_links`, `groups` | authorize, callback, findOrCreate, create, update, remove | check-then-insert; expiring one-time states | one user per e-mail and per identity; a state is used once |
| Authentication, permissions (`auth`, `permissions`) | cached role matrix; signed tokens | guards, `login`, `load`, `can` | a token outlives its role; reloads overlap; the author is checked in one query, the target read in another, and the row written in a third | rows of users change only through requests that passed the checks, and by the comment on `update` superadmins only by superadmins, which does not hold; a reload loads what is there |
| Configuration generator (`config-generator.ts`) | - | `generateRunningConfig` | six formats, names rewritten by replacement, the time in every text | ports stay apart, changes show below the date, WAN stays out of TRUST |
| SLA (`sla`, the overview's card) | table `sla_parameters` | `getStatus`, `getComplianceSummary` | doubles at a boundary, rounding, failing queries | the card says "met" when nothing is breached |
| Host metrics (`host-metrics`) | last sample, cached load | refresh every 2 s | counters that stand still | the load is a share of the last interval |
| Interface list (`interfaces`) | - | list and figures | the filters are written twice | they agree, but for the warnings |
| Reports, notifications, topology, wireless, telemetry, inventory, discovery, services | none or one table | queries, single statements | - | - |

Interactions: the timer of the simulation service drives the engine, the
metrics writer and the evaluator; the evaluator calls `onAlertFired`, which the
e-mail service answers with `notifyAlert`; API handlers write the same tables
the timers read; the scheduler's jobs call the report service and SMTP.

## 2. The modules

### AlertEvaluator

`openAlerts`, `counter`, `initialized`, `deviceIds` are the fields of the class;
`alerts` is the table, `notices` what `onAlertFired` has been told, `ev` the
evaluations under way. An evaluation is a record with the query it waits for
(`pc`), that query's outcome (`reply`), and the locals of the JavaScript frames.

| Action | Code |
|---|---|
| `Tick` | `onTick` on a write tick: `evaluate(getSnapshot())` up to its first query |
| `Answer`, `Fault` | the database executes the query; it fails; it is executed and its reply is lost |
| `SyncReply`, `LoadReply` | `syncFromDb`, `loadDeviceIds` |
| `ClearReply`, `SiblingReply` | `clearAlert` from `evaluateDevice` and from `clearEscalationSiblings` |
| `MarkReply`, `InsertReply` | `fireAlert` after its CHILD update and after its INSERT |
| `LevelChange`, `Restart` | the engine's metrics move; the process restarts |

`Resume` is the scan of `evaluateDevice` from the key just handled to the next
query. It is written declaratively: the next key *on which the scan acts*, found
with the order `Before`; keys on which it does nothing leave no trace.

Data: one escalation group stands for the four of `RULES` (they share no rule,
and a rule of one never looks at another), plus `device.down`, whose alert is a
ROOT when others are open. A metric is a *level*: what the thresholds and the
hysteresis bands of the group tell apart. Alert texts and severities are left
out; ids are the numbers of `nextId()`.

### ReportScheduler

`rows` and `serial` are the table and its sequence, `jobs` the
`SchedulerRegistry`: each job with *the contents it was registered with*, as the
closure of `registerReportJob` keeps them. `req` are HTTP requests under way,
`sending` the reports being mailed, `failed` a history variable: the
subscriptions whose last request was answered by an error. `BadCron` are
contents whose schedule the `CronJob` constructor rejects. `Create`, `Update`,
`Delete` are the handlers up to their query (`Delete` unregisters first, as the
code does), `...Reply` what follows it; `Restart` includes `onModuleInit`, which
Nest completes before it serves requests. SMTP and the report data are external:
a mail is handed over (`Mail`) or not (`GiveUp`).

### MetricsWriter

`persistMetrics` beside `DevicesService.create` and `delete`. `cache` is
`deviceIdCache`, `writers` the calls of `persistMetrics` under way, `metrics`
the table reduced to which device's samples were filed under which id. The
schema lives in another repository, so whether `device_metrics.device_id` is a
foreign key, and of which kind, is a constant (`ForeignKey`).

### ConfigVersions

`takeSnapshot` and `snapshotAll` of `configuration.service.ts`. `table` is
`device_config_snapshots`, for each device its rows as they were inserted;
`config` is the revision of what a configuration is rendered from (the device's
interfaces: no query updates the row of a device), and a text is the revision it
was rendered from, without the time it also carries. A call of `snapshotAll` carries the devices it has still to
come to. A step is the execution of a query together with what follows its
reply, because a continuation touches only the locals of its own call.
`Fault` is a failed query or a lost reply; `GoOn` is what `snapshotAll` makes of
it (the next device) and what `takeSnapshot` does (throw). Whether
`(device_id, version)` is unique, and what kind of foreign key `device_id` is,
is in the variable `schema`, which never changes: every schema is checked.

### AlertDesk

What happens to an alert after it fired. `alerts` are the flags of its row,
`toggles` and `acks` its rows in `alert_history`; `call` are the requests under
way (`acknowledge`, `suppress`, `saveAlertEmailSettings`), `notice` is
`notifyAlert` of each alert.

| Action | Code |
|---|---|
| `Acknowledge`, `AckSet`, `AckLog` | `acknowledge` up to its UPDATE, the UPDATE, the INSERT of its history row |
| `Suppress`, `ReadFlag`, `Flip`, `Log` | `suppress`: SELECT, UPDATE with the negation of what was read, INSERT |
| `SaveSettings`, `Look`, `Save` | `saveAlertEmailSettings`: SELECT ... LIMIT 1, then UPDATE or INSERT |
| `SavePrefs`, `ChangeAccount` | single statements: opt-ins; accounts become active or inactive |
| `Insert`, `Notify` | the evaluator's INSERT and `onAlertFired`, the seam to AlertEvaluator |
| `Check`, `ReadSettings`, `ReadUsers`, `ReadOptIns`, `Mail`, `Mark` | `notifyAlert` and `resolveAlertRecipients`, query by query |
| `RequestFault`, `NoticeFault`, `Restart` | a query or the mail fails, or its reply is lost; the process restarts |

A person stands for the address as well as for the account, because recipients
are merged in a set of addresses. Alert ids are used again after a restart (see
AlertEvaluator), and so `Notify` may be called for an alert of an earlier life.

### Accounts

How users come to be: `create` and `remove` of `users.service.ts`, and the
sign-in through a provider of `oidc.service.ts`. `users` and `links` are the
tables (a deleted user keeps its number, which is not given again), `store` the
module-level `stateStore`, `call` the sign-ins and creations under way, each
with the query it waits for, the identity (a provider and a subject), the e-mail
and the user found or created. As in ConfigVersions a step is the execution of a
query with what follows its reply, and `schema` says whether e-mails and linked
identities are unique and what `user_idp_links.user_id` does when a user goes.

| Action | Code |
|---|---|
| `Authorize`, `Expire` | `buildAuthorizationUrl` puts a state in the store; ten minutes pass |
| `Callback`, `Fetch` | `handleCallback`: the test and the deletion of the state, then what it fetches before `findOrCreateOidcUser` |
| `Telegram` | `handleTelegram`, which needs no state |
| `ReadLink`, `Known`, `ByEmail`, `AddLink` | the queries of `findOrCreateOidcUser` |
| `Create`, `Check`, `Insert`, `Refuse`, `Created` | `create`, from an administrator or a sign-in; `Created` is also the `findById` that follows it in a sign-in |
| `Remove` | `remove` |
| `Fault`, `Restart` | a query or a fetch fails, or its reply is lost; the process restarts |

Which identity and which e-mail a provider reports is free, so an identity may
come with another e-mail each time. A provider that reports none is left out.
Rows of providers stay; the roles that narrow who may create and delete do not
appear.

### AlertLedger

What the evaluator promises of its table, without its map, queries, failures and
restarts: `open`, the keys that have an open alert, and `raised`, how often each
had one; `Raise` when no key of the group is open, `Clear` when the key is.
`AlertEvaluator!Ledger` maps the table to it (`open` are the keys of open rows,
`raised` counts the rows, `device.down` is a group of its own), and `KeepsLedger`
says that the evaluator implements it. The map, the evaluations and the notices
do not appear in the mapping: they may do what they want as long as the table
changes by one raise or one clearing at a time.

### Access and Permissions

`Permissions` is `can`: the lattice of actions over a matrix of grants. `Access`
is what stands before and behind it: `JwtAuthGuard`, `PermissionsGuard`, the
checks in `UsersController`, the queries of `UsersService` and `GroupsService`,
and the cache with its reload. `users`, `groups`, `members` and `table` (the rows
of `role_permissions`) are tables, `cache` is the matrix in memory, `tokens` what
was signed, `call` the requests under way.

| Action | Code |
|---|---|
| `Login` | `login`: signs a token with the role the row has now |
| `Arrive`, `Author` | `JwtAuthGuard` up to its `findById`, and its reply with `PermissionsGuard` (`Permitted`) and what the handler tests before its first query |
| `Target`, `Found` | the `findById` of the controller, with the rule about superadmins; the one of the service |
| `UpdateUser`, `RemoveUser` | `UPDATE users SET c = COALESCE($n, c)`, `DELETE FROM users` |
| `NameFree`, `CreateGroup` | `GroupsService.create`: the look for the name, and the INSERT |
| `AmendGroup`, `DropGroup`, `Join`, `Leave` | the other statements on groups and members |
| `Load`, `Loaded` | the SELECT of `PermissionsService.load` and the replacement of the cache |
| `Edit`, `Fault`, `Restart` | `role_permissions` changes in the database; a query fails; the process restarts and loads the matrix before it listens |

A user's row is `role`, `active` and `name`, the last standing for every column no
guard looks at; a DTO is the columns it gives. Grants to single users and groups
are left out, because no guard reads them. Three things of the code show up in the
definitions. `Admitted` lets an author who may write users change its own role
too, although `users.controller.ts:51` says that self-edits cannot. A role that
is the empty string counts as none in `if (!canWrite && dto.role)` but is written
by COALESCE, so an author without rights can empty its own role, and a later
guard finds no grant for it. And `AmendGroup` does not look for the new name.
`SuperadminsKept` is what the comment on `update` says of superadmins, and the run
`access_roles` shows that the code does not keep to it; `Authorized` is what the
checks do ensure, of the row as they read it.

### Figures and the computations it asks about

Five modules of operators, one per computation that keeps no state of its own, and
`Figures`, which asks each of them about inputs from constant sets: a step is one
question, `asked` the question with its answer, and the properties say what the
answer means. This makes the definitions checkable by TLC and, as each theorem is
about `asked`, provable for all inputs.

| Module | Code | What the data is reduced to |
|---|---|---|
| `ConfigGenerator` | `config-generator.ts` | a text is a sequence of lines, a line its fixed words and its data; the lines with the date come first, and a date is the second in which `ts()` was called (the Cisco format calls it twice); sections without data are one line; a name is a sequence of parts that `replace` tells apart |
| `Series` | history and series of `simulation.engine.ts` | a sample is a number |
| `SlaStatus` | `sla.service.ts`, the card of `overview.controller.ts` | values in units of 0.0001, a mean is a fraction; where a double may fall on either side of a boundary both answers are possible |
| `HostMetrics` | `host-metrics.service.ts` | the counters busy, idle, iowait, guest; a share is a fraction |
| `InterfaceViews` | `interfaces.service.ts` | the rows of one device; text is the set of words that match |

What the definitions show of the code: the zones of the firewall keep the case of
the names while its interface blocks are lower-cased; `"GigabitEthernet"` contains
`te`, so the JunOS conversion rewrites its middle, and still two names that differ
stay apart; the Nokia text names ports by position, so a renamed interface does
not show; Arista's does not show the speed (`ChangesShow` says per format what
does). Every text carries the time, so two snapshots of an unchanged device are
the same text only within one second, and whether something changed is to be
looked for below the date. The summary of the interfaces counts as warnings every
status but up and down, the list of warnings has only `warn` (`FiltersAgree` says by
how much they differ). The kernel counts guest time within user time, and the code adds it once
more. A query that fails turns a breached parameter into one that is not
evaluated, so a failure can turn the card to "met"; and if the whole summary
fails, `overview.controller.ts:19` leaves the engine's made-up "99.982 %, met".

### MC modules, variants, history variables

`MCAlertEvaluator`, `MCReportScheduler`, `MCMetricsWriter`, `MCConfigVersions`,
`MCAlertDesk`, `MCAccounts`, `MCAccess` and `MCFigures` are the instances for TLC. Requests are symmetric,
and so are the two well-formed contents of subscriptions, the devices of
ConfigVersions, and the e-mails and identities of Accounts. Operators marked `\* variant:` are not part of the model: each is
a definition as a plausible mistake would have it (the counter is not advanced,
the job is not unregistered, the row is overwritten, ...). Substituted for the
definition after it, each makes TLC report the property that `PROJECT.json`
pairs it with, so that every property is known to be able to fail.

History variables record what the code does not store and a property must leave
out or compare with. `overlapped` (ConfigVersions), `torn` and `crowded`
(AlertDesk), `raced` and `mixed` (Accounts), `mixed` and `over` (Access) are set when two read-then-write
sequences on the same thing overlap, which the code does not prevent; `torn` and `unmarked` when a sequence
ended between two writes; `stirred` when what a lookup depends on changed during
the lookup; `served` counts the callbacks a state let in, and `answered` keeps
whom an identity was signed in as; `held`, `had`, `right`, `was` and `began` keep what
a request of Access was judged by and what was so since it came. No action's guard reads them.

## 3. What is checked

| Run | Question | Instance |
|---|---|---|
| `alert_serial` | With evaluations that take turns: are map and table one to one (`OneOpenPerKey`, `Tracked`), are the rules of a group exclusive (`GroupExclusive`), is no row rewritten or reopened (`HistoryIsKept`), does the whole implement AlertLedger (`KeepsLedger`), is what stays breached raised (`Raised`), and what stays cleared resolved (`Resolved`)? | 2 devices, 1 down; a group of 3 rules; 2 level changes, 2 faults (load, mark, insert, clear fail; the reply of a load or a mark is lost), 1 restart; 633 k states |
| `alert_overlap` | With two evaluations interleaved: do map and notices name the right rows (`MapNamesItsRow`, `NoticesAreRecorded`), does every CHILD have a ROOT (`ChildHasRoot`)? | 2 devices, 1 down; 1 change; 1 fault, any query but a failed INSERT; 565 k states |
| `reports` | Do jobs and rows stay in step (`NoZombie`, `JobsInForce`), is `last_sent_at` kept (`StampKept`)? | 2 requests, 2 subscriptions, 3 contents of which 1 invalid, 1 fault, 1 restart; 1.9 M states |
| `metrics` | Are metrics filed under the right device (`Attributed`), and filed again and again while the cached devices exist (`Persisted`)? | 3 names of which 2 simulated, 3 ids, 2 writers, 1 deletion, 1 fault, 1 restart; 309 k states |
| `configs` | Do versions number the snapshots (`Numbered`), without gaps (`Gapless`), the later version being the newer text (`NewerIsNotOlder`); does `snapshotAll` leave out no device (`SweepGoesOn`)? | 2 devices, 2 calls of which 1 may be `snapshotAll`, 3 schemas, 2 rows, 1 edit, 1 fault; 1.0 M states |
| `desk` | Does the history tell what became of an alert (`HistoryTells`), is it mailed once (`MailedOnce`) and to those it is due to (`RightPeople`), are the settings one row (`OneSettings`)? | 1 alert, 1 person, 2 severities, 3 settings, 2 requests at a time, 2 requests on the alert and 2 saves in all, 1 change of account or opt-in, 1 fault, 1 restart; 4.0 M states |
| `accounts` | Has an e-mail one user (`OneUserPerEmail`), an identity one link (`LinkedOnce`) that leads to whom it was signed in as (`AnswerIsLinked`), does a state let in one callback (`StateOnce`)? | 1 provider, 2 identities, 2 e-mails, 1 state, 2 calls, 2 users, 2 schemas (all is constrained, nothing is), 1 failure or restart; 5.8 M states |
| `access` | Do the guards judge by a role the author has (`RoleIsCurrent`), do rows of users change only through requests that passed the checks (`Authorized`), is no update lost (`FieldsKept`), do group names stay apart (`NamesApart`), does a reload load what is there (`Reloaded`)? | a superadmin, an administrator, a viewer; 2 matrices, 11 jobs, 2 requests at a time and 3 in all, 1 change of the matrix, 1 fault; 1.1 M states |
| `access_roles` | Is the role of a superadmin changed by superadmins only (`SuperadminsKept`)? No, see below. | the same users; 2 requests, no fault |
| `figures` | Do ports, zones and changes stay apart in the configurations (`PortsApart`, `ZonesApart`, `ChangesShow`), do the series agree (`SeriesAgree`), is the SLA card honest (`SlaHonest`), is the load a share (`CpuShare`), do list and figures agree (`FiltersAgree`)? | 9 devices; pairs of snapshots within one second, across it and with the two calls of `ts()` in different ones; single interfaces of 66, pairs of 58 of them and of 12 whose names differ in case only or are what the firewall makes up; logs of 3 to 5 samples of 4 devices with a history of 3; tallies up to 2001, databases and parameters at the boundaries; 296 k states |

Why the bounds are enough: the properties relate two rows, two rules or two
calls. Two overlapping calls give every order of two handlers' steps; the second
device in `alert_serial` separates "the device at hand" from "another one", and
its `device.down` a key of its own from those of the group; a group of three
rules has a rule between two others; one restart separates rows of this life
from those of an earlier one; one fault strikes at every query of every
behaviour, and `alert_serial` allows a second one in the evaluation that repairs
the first. In `access` two requests overlap and a third prepares what they find
(a group, a promotion, a revocation); its schema is the weakest for names,
without a unique constraint, and cascades. In `figures` nothing interacts, so
the bound is the inputs: they hold the boundary of every comparison in the code,
a value on it and one to each side. (Only the 95th percentile of at most 5
points is always the maximum; for more points the theorem speaks.) Where a proof
exists it removes the bounds altogether.

What the code does *not* promise, and the models therefore do not claim:

- `OneOpenPerKey` needs evaluations that take turns. `onTick` does not ensure
  it: two evaluations may both pass the test before either has inserted.
- `OneOpenPerKey` and `Tracked` need the sync to succeed, as a failed sync counts
  as done, and the reply of an executed INSERT to arrive.
- `GroupExclusive` and `KeepsLedger` need all of that, and the UPDATEs of siblings
  to succeed: `clearAlert` logs a failure and the other alert is fired all the same.
- `Raised` excludes a clearing UPDATE whose reply is lost: the map then
  believes open what the table has closed. And it excludes restarts, after which
  the INSERT under an id that was given before does nothing (see `alert_restart`);
  `Resolved` holds through restarts. Both are checked for evaluations that take
  turns and for the failures of `alert_serial`, that of a sibling's UPDATE not
  among them.
- `ChildHasRoot` excludes the failed INSERT of a root whose children are
  already marked.
- `NoZombie` and `JobsInForce` need requests on one subscription that take
  turns (`SameIdOverlap = FALSE`), and `JobsInForce` speaks of subscriptions
  whose last request was not answered by an error.
- `Persisted` needs the cached devices to stay registered.
- `Numbered` needs a unique `(device_id, version)` or snapshots of a device that
  take turns, `NewerIsNotOlder` the latter: of two overlapping snapshots the one
  that read the older configuration may take the later version.
- `HistoryTells` needs toggles of an alert that take turns and do not fail in
  their UPDATE or INSERT: two overlapping ones may write the same flag and two
  equal entries.
- `MailedOnce` leaves out alerts whose mail was handed over and whose mark was
  not set; `OneSettings` needs saves that do not overlap; `RightPeople` needs
  settings, opt-ins and accounts that do not change during the lookup.
- `OneUserPerEmail` needs a unique e-mail or creations with an e-mail that do
  not overlap, `LinkedOnce` a unique identity or sign-ins of an identity that do
  not overlap, `AnswerIsLinked` the latter.
- `Authorized` allows the write of a request that read the target before it was
  made a superadmin, judges the author by the role it had when it was admitted,
  because check and act are separate queries, and lets everybody empty the own
  role and those who may write users change theirs. The first and the third of
  these are not what the comment on the code says: `access_roles`. `NamesApart` leaves out names
  that overlapping creations or a rename were after; `Reloaded` lets the cache go
  back to an older matrix when another reload ended meanwhile.
- `SlaHonest` speaks of fewer than 2000 parameters: from there on 99.95 % reads
  as 100.0 %. `CpuShare` needs counters that do not go back, which the kernel does
  not promise of iowait. `PortsApart` needs names that differ otherwise than in
  case and have no part in JunOS form already. `FiltersAgree` does not say that
  the figure of the warnings is the length of their list: the rows of a status
  other than up, down and warn are counted and not listed.
- `ZonesApart` leaves out interfaces whose name says nothing: the empty one, one
  that another interface has too, and `ethernet1/1` to `ethernet1/3`, which the
  firewall makes up for zones without interfaces: with no LAN port up, TRUST is
  given `ethernet1/2` and `ethernet1/3`, also if one of them is a WAN port.
  `ChangesShow` speaks of what stands below the date, and needs for a
  firewall names that are none of these, differ otherwise than in case, and have
  no space in them, which is what the names of a zone are joined by. For Cisco a
  missing description shows as "no description", so a change between the two
  does not.

Each of these is listed with its line under "hazards".

### Disagreements between the code and what it says

| Run | What the run shows |
|---|---|
| `alert_hysteresis` | "firing higher cancels lower" (`alert-evaluator.ts:102`): the code clears *every* sibling. A metric that falls from the critical into the major range closes the critical alert inside its hysteresis band, because the major rule fires. |
| `alert_restart` | The map takes a key "to its alertId" (`:112`). After a restart the ids start again at 90300; the INSERT does nothing, no error is raised, and the map takes the key to a row of another device or rule. |
| `access_roles` | Users "cannot change their own role", and "superadmin accounts can only be modified by superadmins" (`users.controller.ts:51-53`). A viewer asks to set its own role to the empty one, which `if (!canWrite && dto.role)` takes for none; its row is read, a superadmin makes it a superadmin, and then COALESCE writes the empty role: a role is changed by its owner, and a superadmin's row by a request whose author was none when it was checked. |

### Fairness

`setInterval` fires as long as the process runs, and a query is answered or
fails: `WF` on ticks, answers and continuations, of each call separately.
Nothing is assumed of requests, faults, deletions, level changes and restarts
(all of them bounded), nor of which of several enabled answers comes first.
`StartWrite` is fair as a whole, because the timer picks no slot. ConfigVersions,
AlertDesk, Accounts, Access and Figures state no liveness and assume no fairness; `Desk.cfg` does not check
for deadlock, because once the bounds on requests, saves, changes and failures
are used up nobody asks anything any more.

## 4. What is proved

The proofs hold for all values of the constants, so without the bounds above.

| Theorem | Assumes | Says |
|---|---|---|
| `AlertEvaluatorProofs!TypeCorrect` | - | `TypeOK`, with every overlap, fault and restart |
| `AlertEvaluatorProofs!SerialCorrect` | one evaluation at a time, no failed sync, no lost reply of an INSERT (`Serial`) | `OneOpenPerKey` and `Tracked` |
| `AlertEvaluatorProofs!GroupCorrect` | `Serial`, and the UPDATE of a sibling does not fail (`SiblingsClear`) | `GroupExclusive` |
| `AlertEvaluatorProofs!LedgerCorrect` | `SiblingsClear` | `KeepsLedger`: the refinement of AlertLedger |
| `AlertEvaluatorProofs!NamesCorrect` | no restart | `MapNamesItsRow` and `NoticesAreRecorded` |
| `AlertEvaluatorProofs!ChildCorrect` | no restart, no failed INSERT | `ChildHasRoot` |
| `AlertEvaluatorProofs!HistoryCorrect` | - | `HistoryIsKept` |
| `ReportSchedulerProofs!SchedulerCorrect` | requests on one subscription take turns (`Turns`) | `TypeOK`, `NoZombie`, `JobsInForce` |
| `ReportSchedulerProofs!StampCorrect` | `Turns` | `StampKept` |
| `MetricsWriterProofs!WriterCorrect` | - | `TypeOK` and `Attributed`, for every kind of foreign key |
| `ConfigVersionsProofs!VersionsCorrect` | - | `TypeOK`, `Numbered`, `Gapless`, `NewerIsNotOlder` |
| `ConfigVersionsProofs!SweepCorrect` | - | `SweepGoesOn` |
| `AlertDeskProofs!DeskCorrect` | - | `TypeOK`, `HistoryTells`, `MailedOnce`, `OneSettings` |
| `AlertDeskProofs!PeopleCorrect` | - | `RightPeople` |
| `AccountsProofs!AccountsCorrect` | - | `TypeOK`, `OneUserPerEmail`, `LinkedOnce`, `AnswerIsLinked`, `StateOnce` |
| `AccessProofs!TypeCorrect`, `RoleCorrect`, `NamesCorrect` | - | `TypeOK`, `RoleIsCurrent`, `NamesApart` |
| `AccessProofs!AuthorizedCorrect`, `FieldsCorrect`, `ReloadCorrect` | - | `Authorized`, `FieldsKept`, `Reloaded` |
| `FiguresProofs!CpuCorrect`, `ViewsCorrect`, `SlaCorrect` | - | `CpuShare`, `FiltersAgree`, `SlaHonest` |
| `FiguresProofs!PortsCorrect`, `ZonesCorrect`, `ChangesCorrect` | - | `PortsApart`, `ZonesApart`, `ChangesShow`, for every list of interfaces |
| `FiguresProofs!SeriesCorrect` | - | `SeriesAgree`, for any number of devices, samples and points |

The corollaries beside them (`TrackedCorrect`, `NoticesCorrect`, `NoZombieCorrect`,
`GaplessCorrect`, `NewerCorrect`, `MailedOnceCorrect`, `OneSettingsCorrect`,
`OneUserCorrect`, `AnswerCorrect`, `StateOnceCorrect`) single out one property each.
Every proof uses the named assumptions of its module on the constants
(`AccessAssumption`, `FiguresAssumption`, ...), which TLC evaluates in each run.

The arguments:

- **SerialCorrect.** Neither property is inductive: that firing opens no second
  row for a key depends on what the evaluation knew when it sent the INSERT.
  `SerialInv` adds that: while a fire is under way its key is not in the map; an
  INSERT that was answered is the only untracked row; before the first sync
  nothing is fired; the synced rows are the open ones, and a row whose clearing
  was answered is closed. Restart re-establishes the invariant because
  `initialized` is false again.
- **GroupCorrect.** `GroupInv` adds to `SerialInv` where a scan of the siblings
  has come to: while a sibling is cleared, no rival that is severer than it is
  open, and once its UPDATE was answered not itself either; when the INSERT is
  sent, no rival is open. The map is what the code looks at, the table is what
  the property speaks of: `RivalIsSibling` carries one over to the other, and
  needs `Tracked` for it.
- **LedgerCorrect.** Only a query changes the table. An UPDATE closes the row of
  an id: by `OneOpenPerKey` that clears its key in the ledger, or nothing if the
  row is closed. An INSERT under a free id raises its key, which by `GroupInv`
  has no open alert in its group; under a taken id it changes nothing. That the
  count goes up by one needs a finite table.
- **NamesCorrect.** `FreshInv` says that the counter is above every id in the
  table, the map and the evaluations, and that ids being inserted are distinct:
  so an INSERT never meets an existing row. That is exactly what a restart
  breaks, as `alert_restart` shows.
- **ChildCorrect.** `RootInv` adds to `FreshInv` that only a root cause sends the
  CHILD update, that a root cause is a `device.down`, and that once its INSERT
  was answered a ROOT is in the table. The free id matters: an INSERT that meets
  an existing row would leave the children without one.
- **SchedulerCorrect.** `SchedInv` describes the window between an answer and
  its continuation: a created row has no job yet, an updated row may have the
  old one, a deleted row's job is already gone, and no other request is on that
  subscription.
- **WriterCorrect.** `WriterInv` follows the ids from the registry through the
  SELECT, the cache and the batch into the table: each of them pairs a name with
  an id *that was given to that name*. As rows are marked dead and ids are never
  reused, staleness does not break the pairing.
- **HistoryCorrect** and **StampCorrect** follow action by action from the type
  invariant, and for the stamp from `SchedInv`: what a request writes over an
  existing row leaves the stamp alone.
- **VersionsCorrect.** The versions of a device are dense, `1..m` for some `m`:
  that is what makes `MaxVersion`, a CHOOSE, exist, and what an INSERT with any
  version that was read as `MAX + 1` some time ago preserves, be it `m + 1` or
  one already there. If the call is alone on its device (`Alone`), the version
  it holds still is `m + 1` and the text it holds is at least as new as every row.
- **DeskCorrect.** `AckInv` and `Told` describe the window between a flag and
  its history row: an alert with a toggle between UPDATE and INSERT has the flag
  that the next entry will say, and no other toggle is between its SELECT and
  its INSERT. `MailInv` ties the number of mails to where the notice is and to
  `email_notified_at`; `RowInv` says that a save which found no row is the only
  one under way.
- **PeopleCorrect.** `PeopleInv` says of a lookup that nothing stirred that the
  people gathered so far, with what the remaining queries would add, are those
  the alert is due to.
- **AccountsCorrect.** Each property speaks of rows, and what keeps it is known
  only to the calls under way. `EmailInv` adds that two creations with one
  e-mail have put it in `raced`, and that a creation about to insert has no user
  with its e-mail before it. `LinkInv` adds that two sign-ins of one identity
  have put it in `mixed`, that a sign-in past its look for a link has none
  (`Unlinked`), and that one which found a link still has it unless the user is
  gone (`StillLinked`). `StateInv` adds that a state which is not used up has let
  in nobody.
- **Access.** `Sound` is `TypeOK` with `CallsOk` (what a request's operation says
  of its other fields) and `AllAged` (a matrix that was read is no older than its
  request, and older than the cache only if another reload ended meanwhile), from
  which `Reloaded` and `FieldsKept` follow action by action. `RolesOk` adds that
  `had` follows the author's row through every write, `RightsOk` that a request
  past the checks passed them: an update of another one's row or with a role that
  is not empty, and a removal, have `right`; one whose target was read as a
  superadmin has the role of one. `NamesOk` is the window of
  check-then-insert: a name nobody mixed has one creation under way, and no group
  has it when that creation is about to insert. `Turns` says what one step may do to each
  request, its own and the others, so that every invariant is proved against a
  handful of cases and not against every action.
- **Figures.** `Answers` says that `asked` holds the answer to its question. For
  `SlaCorrect` and `ViewsCorrect` the rest is arithmetic and counting: `PctFacts`
  bounds the rounded percentage at 0, 50 and 100 %, and needs the products of
  `Products` spelled out because they are not linear; `StatusCounts` counts three
  disjoint parts of the parameters. The other four need induction. It is stated
  once, for a *set* of naturals (`SetInduction`), and used through two lemmas:
  what is computed step by step exists (`Recursion`), and two computations that
  take the same steps agree (`Agreement`). From them follow what `FlattenSeq`,
  the histories and the sums of the model are.
- **PortsCorrect** and **ChangesCorrect.** The date is as many lines in every text
  of a device, none of them a heading, so texts are compared by what comes before
  and after that cut (`CutAtDate`). What stands below it is a front, one block
  per interface, and a rear (`CiscoLayout` and its siblings), and front and rear
  depend on the interfaces only through the zones. A block has exactly one
  heading, its first line, so headings and interfaces are one to one
  (`HeadsOfBlocks`). Therefore the text determines its blocks: the number of
  headings is the number of blocks, and between two headings lies one block
  (`Parse`). What remains is one block at a time: its lines determine what its
  format shows (`BlockTells`). That JunOS headings stay apart needs the two
  replacements to be invertible on names without a JunOS part (`JunosTells`),
  wherever in the name a `te` or `gi` is replaced.
- **ZonesCorrect** and the firewall in **ChangesCorrect.** A name that occurs once
  and is not made up is in a zone exactly if its interface passes the filter of
  that zone (`ZoneFacts`). A change shows because the names joined by spaces parse
  back into names that have none (`JoinedTells`), and the zones then say of each
  interface where it is (`ZonesShown`).
- **SeriesCorrect.** `HistoryIs`: pushing samples one by one leaves the last
  `MaxHistory` of them, which is an invariant of the computation and not of one
  step of it. Hence every index that a getter counts from a length meets the
  sample that lies as far back from the newest (`WanPoint`, `SparkLast`,
  `WanSlice`). The sums are equal because they are computed by the same steps
  (`SumIs`). That a sorted rearrangement exists, so that `Sorted`, a CHOOSE, is
  one, is an induction (`OrderExists`); the rank of the percentile then counts
  places, whose images under an injection are as many points (`PercentileIs`).

Every safety invariant and every action property that a passing run checks is a theorem.
Only model-checked are the three liveness properties `Raised`, `Resolved` and
`Persisted`, because no prover here handles fairness and `ENABLED`.

## 5. What is not modelled

- The database schema: it is in the sibling repository `signal-scope-db`, and what
  matters of it is a constant or a variable `schema` of the module. The limit of
  ten pooled connections only delays queries.
- HTML, colours and wording; the Ornstein-Uhlenbeck arithmetic and the numeric
  values of metrics; KPIs other than the WAN series; memory, disk and uptime.
- Reports: SELECTs whose results no code compares or keeps. Notifications: two
  idempotent single statements. Topology, wireless, telemetry, inventory,
  discovery and services: SELECTs and presentation.
- The management of providers and of SLA parameters, and grants to single users
  and groups: single statements that nothing else relies on.
- Passwords, cookies and their expiry: a token is valid while it is in `tokens`.
- The evaluator that `setAlertNotifier` replaces at start.
- Continuations of one reply interleaving with another reply inside the same
  micro-task queue.

## 6. Plan

Done: AlertEvaluator with AlertLedger, ReportScheduler, MetricsWriter,
ConfigVersions, AlertDesk, Accounts, Access and Figures, with theorems for all
their safety and action properties. What would come next:

1. The replacement of the evaluator by `setAlertNotifier`, and the start-up
   order, in AlertEvaluator.
2. Providers being disabled or deleted during a sign-in, in Accounts.
3. More of the engine's KPIs (`getKpis`: devices up, mean latency, SLA) in
   Series, whose sums and indices are proved already.

------------------------------- MODULE AlertDesk -------------------------------
(***************************************************************************)
(* What happens to an alert after it fired: operators acknowledge and      *)
(* suppress it (src/src/alerts/alerts.service.ts), and notifyAlert of      *)
(* src/src/integrations/email-notifications.service.ts mails it to those   *)
(* whom the settings, the accounts and their opt-ins name.  Each handler   *)
(* is a sequence of single queries, between which others run.              *)
(*                                                                         *)
(* A continuation touches nothing but the locals of its call, so a step is *)
(* the execution of a query together with what follows its reply.          *)
(***************************************************************************)
EXTENDS Integers, Sequences, FiniteSets

CONSTANTS
  Alerts,       \* the ids of alerts
  People,       \* those who have an account; a person stands for the address
  Levels,       \* severities, as their index in SEVERITY_ORDER
  Contents,     \* what alert_email_settings may be set to
  Prefs,        \* what a user may opt in to
  Calls,        \* requests that may be under way at the same time
  MaxAsked,     \* bound on the requests on an alert
  MaxSaves,     \* bound on the saves of the settings
  MaxChanges,   \* bound on changes of preferences and accounts
  MaxFaults,    \* bound on failed queries and mails and on lost replies
  MaxRestarts   \* bound on restarts

Pref    == [on : BOOLEAN, min : Levels]
Content == [on : BOOLEAN, min : Levels, to : SUBSET People, users : SUBSET People]

ASSUME DeskAssumption ==
  /\ Levels \subseteq Nat
  /\ Prefs \subseteq Pref /\ Contents \subseteq Content
  /\ MaxAsked \in Nat /\ MaxSaves \in Nat /\ MaxChanges \in Nat
  /\ MaxFaults \in Nat /\ MaxRestarts \in Nat

VARIABLES
  alerts,    \* table alerts: which have a row, and the flags of the rows
  toggles,   \* table alert_history: its entries suppressed and unsuppressed,
  acks,      \* and the number of its entries acknowledged
  call,      \* the requests under way
  settings,  \* table alert_email_settings: its rows in the order of their ids
  prefs,     \* table user_alert_email_prefs, with the default of absent rows
  active,    \* the people whose accounts exist and are active
  notice,    \* notifyAlert of each alert, once per life of the process
  mails,     \* mails handed over for each alert
  asked, saves, changes, faults, restarts,   \* counted against the bounds
  torn,      \* history: alerts whose toggles overlapped or ended half-way
  crowded,   \* history: have two saves of the settings overlapped
  unmarked,  \* history: alerts whose mail was handed over and not marked
  stirred    \* history: notices since whose start settings or accounts changed

desk  == <<toggles, acks, asked, torn>>
mail  == <<notice, mails, unmarked>>
admin == <<settings, prefs, active, saves, changes, crowded, stirred>>
luck  == <<faults, restarts>>
vars  == <<alerts, call, desk, mail, admin, luck>>

-----------------------------------------------------------------------------
\* A request: the query it waits for; its alert and the flag it writes, or the
\* contents to be saved and the row to be overwritten (0 for none).
Resting == [pc |-> "rest"]
OnAlert(q, a, f)   == [pc |-> q, alert |-> a, flag |-> f]
OnSettings(q, v, i) == [pc |-> q, content |-> v, row |-> i]

Toggling(c) == call[c].pc \in {"read", "flip", "log"}
Goes(c, v)  == call' = [call EXCEPT ![c] = v]
Ends(c)     == Goes(c, Resting)

Begin(c, a, q) ==
  /\ call[c].pc = "rest" /\ asked[a] < MaxAsked
  /\ asked' = [asked EXCEPT ![a] = @ + 1]
  /\ Goes(c, OnAlert(q, a, TRUE))
  /\ UNCHANGED <<alerts, toggles, acks, mail, admin, luck>>

-----------------------------------------------------------------------------
(* Acknowledging and suppressing.  The SELECT between the UPDATE and the   *)
(* INSERT of either handler only fetches the texts of the entry.           *)

Acknowledge(c, a) == Begin(c, a, "ack") /\ UNCHANGED torn

Suppress(c, a) ==
  /\ Begin(c, a, "read")
  /\ torn' = torn \cup {b \in {a} : \E d \in Calls : Toggling(d) /\ call[d].alert = b}

\* UPDATE ... SET acknowledged = true, of a row that may not exist.
AckSet(c) ==
  /\ call[c].pc = "ack"
  /\ LET a == call[c].alert IN
     IF alerts[a].there
     THEN alerts' = [alerts EXCEPT ![a].ack = TRUE] /\ Goes(c, OnAlert("ackLog", a, TRUE))
     ELSE Ends(c) /\ UNCHANGED alerts
  /\ UNCHANGED <<desk, mail, admin, luck>>

AckLog(c) ==
  /\ call[c].pc = "ackLog" /\ Ends(c)
  /\ acks' = [acks EXCEPT ![call[c].alert] = @ + 1]
  /\ UNCHANGED <<alerts, toggles, asked, torn, mail, admin, luck>>

ReadOnce(c) ==   \* variant: suppress always suppresses
  /\ call[c].pc = "read"
  /\ LET a == call[c].alert IN
     IF alerts[a].there THEN Goes(c, OnAlert("flip", a, TRUE)) ELSE Ends(c)
  /\ UNCHANGED <<alerts, desk, mail, admin, luck>>

\* suppress reads the flag; what it is going to write is the negation.
ReadFlag(c) ==
  /\ call[c].pc = "read"
  /\ LET a == call[c].alert IN
     IF alerts[a].there
     THEN Goes(c, OnAlert("flip", a, ~alerts[a].suppressed))
     ELSE Ends(c)
  /\ UNCHANGED <<alerts, desk, mail, admin, luck>>

Flipped(c) == [alerts EXCEPT ![call[c].alert].suppressed = call[c].flag]

Flip(c) ==
  /\ call[c].pc = "flip"
  /\ alerts' = Flipped(c) /\ Goes(c, [call[c] EXCEPT !.pc = "log"])
  /\ UNCHANGED <<desk, mail, admin, luck>>

Entry(f)  == IF f THEN "suppressed" ELSE "unsuppressed"
Logged(c) == [toggles EXCEPT ![call[c].alert] = Append(@, Entry(call[c].flag))]

Log(c) ==
  /\ call[c].pc = "log" /\ Ends(c)
  /\ toggles' = Logged(c)
  /\ UNCHANGED <<alerts, acks, asked, torn, mail, admin, luck>>

-----------------------------------------------------------------------------
(* The settings, the opt-ins and the accounts.  What changes them stirs    *)
(* the notices under way.                                                  *)

Stir == stirred' = {a \in Alerts : notice[a].pc # "rest"}

SaveSettings(c, v) ==
  /\ call[c].pc = "rest" /\ saves < MaxSaves /\ saves' = saves + 1
  /\ Goes(c, OnSettings("look", v, 0))
  /\ crowded' = (crowded \/ \E d \in Calls : call[d].pc \in {"look", "save"})
  /\ UNCHANGED <<alerts, settings, prefs, active, changes, stirred, desk, mail, luck>>

LookAway(c) ==   \* variant: the row is not looked up
  /\ call[c].pc = "look" /\ Goes(c, [call[c] EXCEPT !.pc = "save"])
  /\ UNCHANGED <<alerts, desk, mail, admin, luck>>

\* SELECT * FROM alert_email_settings LIMIT 1: any row, if there is one.
Look(c) ==
  /\ call[c].pc = "look"
  /\ \E i \in IF settings = <<>> THEN {0} ELSE DOMAIN settings :
       Goes(c, OnSettings("save", call[c].content, i))
  /\ UNCHANGED <<alerts, desk, mail, admin, luck>>

\* An UPDATE of the row found, or an INSERT.
Saved(c) ==
  IF call[c].row = 0 THEN Append(settings, call[c].content)
                     ELSE [settings EXCEPT ![call[c].row] = call[c].content]

Save(c) ==
  /\ call[c].pc = "save" /\ Ends(c)
  /\ settings' = Saved(c) /\ Stir
  /\ UNCHANGED <<alerts, prefs, active, saves, changes, crowded, desk, mail, luck>>

SavePrefs(p, v) ==
  /\ changes < MaxChanges /\ changes' = changes + 1
  /\ prefs' = [prefs EXCEPT ![p] = v] /\ Stir
  /\ UNCHANGED <<alerts, call, settings, active, saves, crowded, desk, mail, luck>>

\* An account is activated or deactivated; one not yet created, or deleted, is
\* an account that is not active.
ChangeAccount(p) ==
  /\ changes < MaxChanges /\ changes' = changes + 1
  /\ active' = (active \ {p}) \cup ({p} \ active) /\ Stir
  /\ UNCHANGED <<alerts, call, settings, prefs, saves, crowded, desk, mail, luck>>

-----------------------------------------------------------------------------
(* notifyAlert.                                                            *)

Noticing(q, s, v, r) == [pc |-> q, sev |-> s, users |-> v, to |-> r]
Unnoticed  == Noticing("rest", 0, {}, {})
Says(a, n) == notice' = [notice EXCEPT ![a] = n]

\* The evaluator's INSERT, and onAlertFired after its reply; an id of an
\* earlier life is used again, its row stays as it is.
Insert(a) ==
  /\ ~alerts[a].there
  /\ alerts' = [alerts EXCEPT ![a].there = TRUE]
  /\ UNCHANGED <<call, desk, mail, admin, luck>>

Notify(a, s) ==
  /\ alerts[a].there /\ notice[a].pc = "rest"
  /\ Says(a, Noticing("check", s, {}, {}))
  /\ stirred' = stirred \ {a}
  /\ UNCHANGED <<alerts, call, mails, unmarked, desk, luck>>
  /\ UNCHANGED <<settings, prefs, active, saves, changes, crowded>>

Calm == UNCHANGED <<alerts, call, mails, unmarked, desk, admin, luck>>

CheckForgets(a) ==   \* variant: email_notified_at is not looked at
  /\ notice[a].pc = "check" /\ Calm
  /\ Says(a, [notice[a] EXCEPT !.pc = "settings"])

\* An alert that has been mailed is not mailed again.
Check(a) ==
  /\ notice[a].pc = "check" /\ Calm
  /\ Says(a, [notice[a] EXCEPT !.pc = IF alerts[a].notified THEN "done" ELSE "settings"])

\* getAlertEmailSettings: any row; without one, mails are off.
ReadSettings(a) ==
  /\ notice[a].pc = "settings" /\ Calm
  /\ \/ /\ settings = <<>> /\ Says(a, [notice[a] EXCEPT !.pc = "done"])
     \/ \E i \in DOMAIN settings :
          LET v == settings[i] IN
          Says(a, IF v.on /\ notice[a].sev >= v.min
                  THEN Noticing(IF v.users = {} THEN "optIns" ELSE "users",
                                notice[a].sev, v.users, v.to)
                  ELSE [notice[a] EXCEPT !.pc = "done"])

ReadAllUsers(a) ==   \* variant: inactive users are mailed as well
  /\ notice[a].pc = "users" /\ Calm
  /\ Says(a, Noticing("optIns", notice[a].sev, {}, notice[a].to \cup notice[a].users))

\* SELECT email FROM users WHERE id = ANY(...) AND is_active.
ReadUsers(a) ==
  /\ notice[a].pc = "users" /\ Calm
  /\ Says(a, Noticing("optIns", notice[a].sev, {},
                      notice[a].to \cup (notice[a].users \cap active)))

OptedIn(s) == {p \in active : prefs[p].on /\ s >= prefs[p].min}

\* The opt-ins are joined with the active users; without recipients the
\* notice is over.
ReadOptIns(a) ==
  /\ notice[a].pc = "optIns" /\ Calm
  /\ LET all == notice[a].to \cup OptedIn(notice[a].sev) IN
     Says(a, Noticing(IF all = {} THEN "done" ELSE "mail", notice[a].sev, {}, all))

\* sendEmail hands one mail to all of them to the server.
Mail(a) ==
  /\ notice[a].pc = "mail"
  /\ mails' = [mails EXCEPT ![a] = @ + 1]
  /\ Says(a, [notice[a] EXCEPT !.pc = "mark"])
  /\ UNCHANGED <<alerts, call, unmarked, desk, admin, luck>>

\* UPDATE alerts SET email_notified_at.
Mark(a) ==
  /\ notice[a].pc = "mark"
  /\ alerts' = [alerts EXCEPT ![a].notified = TRUE]
  /\ Says(a, [notice[a] EXCEPT !.pc = "done"])
  /\ UNCHANGED <<call, mails, unmarked, desk, admin, luck>>

-----------------------------------------------------------------------------
(* Failures.                                                               *)

\* A query of a request fails, or it is executed and its reply is lost: the
\* handler ends there.
RequestFault(c) ==
  /\ call[c].pc # "rest" /\ faults < MaxFaults /\ faults' = faults + 1 /\ Ends(c)
  /\ torn' = torn \cup {a \in Alerts : call[c].pc \in {"flip", "log"} /\ call[c].alert = a}
  /\ \/ UNCHANGED <<alerts, toggles, acks, settings, stirred>>
     \/ /\ call[c].pc = "ack" /\ alerts[call[c].alert].there
        /\ alerts' = [alerts EXCEPT ![call[c].alert].ack = TRUE]
        /\ UNCHANGED <<toggles, acks, settings, stirred>>
     \/ /\ call[c].pc = "ackLog" /\ acks' = [acks EXCEPT ![call[c].alert] = @ + 1]
        /\ UNCHANGED <<alerts, toggles, settings, stirred>>
     \/ /\ call[c].pc = "flip" /\ alerts' = Flipped(c)
        /\ UNCHANGED <<toggles, acks, settings, stirred>>
     \/ /\ call[c].pc = "log" /\ toggles' = Logged(c)
        /\ UNCHANGED <<alerts, acks, settings, stirred>>
     \/ /\ call[c].pc = "save" /\ settings' = Saved(c) /\ Stir
        /\ UNCHANGED <<alerts, toggles, acks>>
  /\ UNCHANGED <<asked, prefs, active, saves, changes, crowded, mail, restarts>>

\* A step of notifyAlert fails, which it catches; a mail may have been handed
\* over, and an alert marked, all the same.
NoticeFault(a) ==
  /\ notice[a].pc \notin {"rest", "done", "failed"}
  /\ faults < MaxFaults /\ faults' = faults + 1
  /\ Says(a, [notice[a] EXCEPT !.pc = "failed"])
  /\ \/ /\ unmarked' = unmarked \cup {b \in {a} : notice[a].pc = "mark"}
        /\ UNCHANGED <<alerts, mails>>
     \/ /\ notice[a].pc = "mail"
        /\ mails' = [mails EXCEPT ![a] = @ + 1] /\ unmarked' = unmarked \cup {a}
        /\ UNCHANGED alerts
     \/ /\ notice[a].pc = "mark"
        /\ alerts' = [alerts EXCEPT ![a].notified = TRUE]
        /\ UNCHANGED <<mails, unmarked>>
  /\ UNCHANGED <<call, desk, admin, restarts>>

\* The process restarts: what was under way is over.
Restart ==
  /\ restarts < MaxRestarts /\ restarts' = restarts + 1
  /\ call' = [c \in Calls |-> Resting]
  /\ torn' = torn \cup {a \in Alerts : \E c \in Calls : call[c].pc = "log" /\ call[c].alert = a}
  /\ notice' = [a \in Alerts |-> Unnoticed]
  /\ unmarked' = unmarked \cup {a \in Alerts : notice[a].pc = "mark"}
  /\ stirred' = {}
  /\ UNCHANGED <<alerts, toggles, acks, asked, mails, faults>>
  /\ UNCHANGED <<settings, prefs, active, saves, changes, crowded>>

-----------------------------------------------------------------------------
NewRow == [there |-> FALSE, ack |-> FALSE, suppressed |-> FALSE, notified |-> FALSE]

Init ==
  /\ alerts = [a \in Alerts |-> NewRow]
  /\ toggles = [a \in Alerts |-> <<>>] /\ acks = [a \in Alerts |-> 0]
  /\ asked = [a \in Alerts |-> 0]
  /\ call = [c \in Calls |-> Resting]
  /\ settings = <<>>
  /\ prefs \in [People -> {v \in Prefs : ~v.on}] /\ active \in SUBSET People
  /\ notice = [a \in Alerts |-> Unnoticed] /\ mails = [a \in Alerts |-> 0]
  /\ saves = 0 /\ changes = 0 /\ faults = 0 /\ restarts = 0
  /\ torn = {} /\ unmarked = {} /\ stirred = {} /\ crowded = FALSE

Next ==
  \/ \E c \in Calls :
       \/ \E a \in Alerts : Acknowledge(c, a) \/ Suppress(c, a)
       \/ AckSet(c) \/ AckLog(c) \/ ReadFlag(c) \/ Flip(c) \/ Log(c)
       \/ \E v \in Contents : SaveSettings(c, v)
       \/ Look(c) \/ Save(c) \/ RequestFault(c)
  \/ \E p \in People : ChangeAccount(p) \/ \E v \in Prefs : SavePrefs(p, v)
  \/ \E a \in Alerts :
       \/ Insert(a) \/ \E s \in Levels : Notify(a, s)
       \/ Check(a) \/ ReadSettings(a) \/ ReadUsers(a) \/ ReadOptIns(a)
       \/ Mail(a) \/ Mark(a) \/ NoticeFault(a)
  \/ Restart

Spec == Init /\ [][Next]_vars

-----------------------------------------------------------------------------
(* Properties. *)

CallType ==
  {Resting}
  \cup [pc : {"ack", "ackLog", "read", "flip", "log"}, alert : Alerts, flag : BOOLEAN]
  \cup [pc : {"look", "save"}, content : Contents, row : Nat]

NoticeType ==
  [pc : {"rest", "check", "settings", "users", "optIns", "mail", "mark", "done", "failed"},
   sev : Levels \cup {0}, users : SUBSET People, to : SUBSET People]

\* The types of the tables, the requests and the notices.
TypeOK ==
  /\ alerts \in [Alerts -> [there : BOOLEAN, ack : BOOLEAN,
                            suppressed : BOOLEAN, notified : BOOLEAN]]
  /\ toggles \in [Alerts -> Seq({"suppressed", "unsuppressed"})]
  /\ acks \in [Alerts -> Nat] /\ mails \in [Alerts -> Nat]
  /\ asked \in [Alerts -> 0..MaxAsked]
  /\ call \in [Calls -> CallType]
  /\ settings \in Seq(Contents)
  /\ \A c \in Calls : call[c].pc \in {"look", "save"} => call[c].row \in 0..Len(settings)
  /\ prefs \in [People -> Prefs] /\ active \subseteq People
  /\ notice \in [Alerts -> NoticeType]
  /\ torn \subseteq Alerts /\ unmarked \subseteq Alerts /\ stirred \subseteq Alerts
  /\ crowded \in BOOLEAN
  /\ saves \in 0..MaxSaves /\ changes \in 0..MaxChanges
  /\ faults \in 0..MaxFaults /\ restarts \in 0..MaxRestarts

\* The history of an alert tells what became of it: suppressed and
\* unsuppressed take turns, beginning with the former, and the last of them is
\* what the alert is; acknowledged is told of acknowledged alerts only.
\* suppress promises this for toggles that take turns, of which none failed in
\* the UPDATE of the alert or the INSERT of the entry.
HistoryTells ==
  \A a \in Alerts \ torn : LET t == toggles[a] IN
    /\ Len(t) > 0 => t[1] = "suppressed"
    /\ \A i \in 1..Len(t) : \A j \in 1..Len(t) : j = i + 1 => t[i] # t[j]
    /\ (\A c \in Calls : call[c].pc = "log" => call[c].alert # a) =>
         (alerts[a].suppressed <=> Len(t) > 0 /\ t[Len(t)] = "suppressed")
    /\ acks[a] > 0 => alerts[a].ack

\* An alert is mailed at most once, over restarts and ids that are used again,
\* unless the mail was handed over and email_notified_at was not set.
MailedOnce == \A a \in Alerts \ unmarked : mails[a] <= 1

\* Whom an alert of severity s is to be mailed to, if all is read at once.
Due(s) ==
  {p \in People :
     \E i \in DOMAIN settings : LET v == settings[i] IN
       v.on /\ s >= v.min /\ (p \in v.to \/ (p \in active /\ (p \in v.users
                                              \/ (prefs[p].on /\ s >= prefs[p].min))))}

\* resolveAlertRecipients asks three tables in up to three queries.  If none of
\* them changes meanwhile, the alert is mailed to exactly those it is due to,
\* and to nobody only if it is due to nobody.
RightPeople ==
  [][\A a \in Alerts \ stirred :
       notice[a].pc \in {"settings", "users", "optIns"}
         /\ notice'[a].pc \in {"mail", "done"} /\ Len(settings) <= 1
       => notice'[a].to = Due(notice[a].sev)]_vars

\* Saves of the settings that do not overlap leave a single row, so that LIMIT
\* 1 has no choice, whatever fails.
OneSettings == crowded \/ Len(settings) <= 1

=============================================================================

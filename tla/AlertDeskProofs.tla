---------------------------- MODULE AlertDeskProofs ----------------------------
(***************************************************************************)
(* Theorems about AlertDesk, for any alerts, people, settings and calls,   *)
(* and any number of requests, changes, failures and restarts.             *)
(***************************************************************************)
EXTENDS AlertDesk, TLAPS

Rows == [there : BOOLEAN, ack : BOOLEAN, suppressed : BOOLEAN, notified : BOOLEAN]

-----------------------------------------------------------------------------
(* Types.                                                                  *)

LEMMA InitType ==
  Init => TypeOK
  <1>1. Resting \in CallType
    BY DEF CallType
  <1>2. Resting.pc \notin {"look", "save"}
    BY DEF Resting
  <1>3. Unnoticed \in NoticeType
    BY DEF Unnoticed, Noticing, NoticeType
  <1>4. NewRow \in Rows
    BY DEF NewRow, Rows
  <1>5. <<>> \in Seq({"suppressed", "unsuppressed"}) /\ <<>> \in Seq(Contents)
    OBVIOUS
  <1>6. ASSUME Init
        PROVE  /\ alerts \in [Alerts -> Rows] /\ notice \in [Alerts -> NoticeType]
               /\ call \in [Calls -> CallType] /\ \A c \in Calls : call[c] = Resting
    BY <1>1, <1>3, <1>4, <1>6 DEF Init
  <1>7. ASSUME Init
        PROVE  prefs \in [People -> Prefs]
    BY <1>7 DEF Init
  <1>8. ASSUME Init
        PROVE  /\ toggles \in [Alerts -> Seq({"suppressed", "unsuppressed"})]
               /\ acks \in [Alerts -> Nat] /\ mails \in [Alerts -> Nat]
               /\ asked \in [Alerts -> 0..MaxAsked] /\ settings \in Seq(Contents)
    BY <1>5, <1>8, DeskAssumption DEF Init
  <1>10. ASSUME Init
         PROVE  crowded \in BOOLEAN
    <2>1. crowded = FALSE
      BY <1>10 DEF Init
    <2> QED
      BY <2>1
  <1>9. ASSUME Init
        PROVE  /\ active \subseteq People
               /\ torn \subseteq Alerts /\ unmarked \subseteq Alerts /\ stirred \subseteq Alerts
               /\ saves \in 0..MaxSaves /\ changes \in 0..MaxChanges
               /\ faults \in 0..MaxFaults /\ restarts \in 0..MaxRestarts
    BY <1>9, DeskAssumption DEF Init
  <1> QED
    BY <1>2, <1>6, <1>7, <1>8, <1>9, <1>10 DEF TypeOK, Rows

\* The parts of the type of a request's fields.
LEMMA CallFields ==
  ASSUME TypeOK, NEW c \in Calls
  PROVE  /\ call[c].pc \in {"ack", "ackLog", "read", "flip", "log"} =>
              call[c].alert \in Alerts /\ call[c].flag \in BOOLEAN
         /\ call[c].pc \in {"look", "save"} =>
              call[c].content \in Contents /\ call[c].row \in 0..Len(settings)
         /\ call[c].pc \in {"rest", "ack", "ackLog", "read", "flip", "log", "look", "save"}
  <1>1. call[c] \in CallType
    BY DEF TypeOK
  <1>2. Resting.pc = "rest"
    BY DEF Resting
  <1> QED
    BY <1>1, <1>2 DEF CallType, TypeOK

LEMMA NoticeFields ==
  ASSUME TypeOK, NEW a \in Alerts
  PROVE  notice[a].sev \in Levels \cup {0} /\ notice[a].users \subseteq People
         /\ notice[a].to \subseteq People
  BY DEF TypeOK, NoticeType

LEMMA MadeResting ==
  Resting \in CallType /\ Resting.pc = "rest"
  BY DEF Resting, CallType

LEMMA MadeOnAlert ==
  ASSUME NEW q \in {"ack", "ackLog", "read", "flip", "log"}, NEW a \in Alerts,
         NEW f \in BOOLEAN
  PROVE  /\ OnAlert(q, a, f) \in CallType
         /\ OnAlert(q, a, f).pc = q /\ OnAlert(q, a, f).alert = a /\ OnAlert(q, a, f).flag = f
  BY DEF OnAlert, CallType

LEMMA MadeOnSettings ==
  ASSUME NEW q \in {"look", "save"}, NEW v \in Contents, NEW i \in Nat
  PROVE  /\ OnSettings(q, v, i) \in CallType
         /\ OnSettings(q, v, i).pc = q /\ OnSettings(q, v, i).row = i
         /\ OnSettings(q, v, i).content = v
  BY DEF OnSettings, CallType

LEMMA MadeNotices ==
  ASSUME NEW q \in {"rest", "check", "settings", "users", "optIns", "mail", "mark",
                    "done", "failed"},
         NEW s \in Levels \cup {0}, NEW v \in SUBSET People, NEW r \in SUBSET People
  PROVE  /\ Noticing(q, s, v, r) \in NoticeType
         /\ Noticing(q, s, v, r).pc = q /\ Noticing(q, s, v, r).sev = s
         /\ Noticing(q, s, v, r).users = v /\ Noticing(q, s, v, r).to = r
  BY DEF Noticing, NoticeType

\* A notice that only changes what it waits for.
LEMMA SamePeople ==
  ASSUME TypeOK, NEW a \in Alerts,
         NEW q \in {"rest", "check", "settings", "users", "optIns", "mail", "mark",
                    "done", "failed"}
  PROVE  LET n == [notice[a] EXCEPT !.pc = q] IN
         /\ n \in NoticeType /\ n.pc = q /\ n.sev = notice[a].sev
         /\ n.users = notice[a].users /\ n.to = notice[a].to
  BY DEF TypeOK, NoticeType

-----------------------------------------------------------------------------
(* The parts of the state that a step leaves alone.                        *)

CallsOK ==
  /\ call \in [Calls -> CallType]
  /\ \A c \in Calls : call[c].pc \in {"look", "save"} => call[c].row \in 0..Len(settings)

\* Request c goes on, or ends; the settings may grow.
LEMMA CallMoves ==
  ASSUME TypeOK, NEW c \in Calls, NEW v \in CallType, Goes(c, v),
         Len(settings') \in Nat, Len(settings) <= Len(settings'),
         v.pc \in {"look", "save"} => v.row \in 0..Len(settings')
  PROVE  /\ CallsOK' /\ call'[c] = v
         /\ \A d \in Calls : d # c => call'[d] = call[d]
  <1>1. call' \in [Calls -> CallType] /\ call'[c] = v
        /\ \A d \in Calls : d # c => call'[d] = call[d]
    BY DEF Goes, TypeOK
  <1>2. Len(settings) \in Nat
    BY DEF TypeOK
  <1>3. \A d \in Calls : call[d].pc \in {"look", "save"} => call[d].row \in 0..Len(settings)
    BY DEF TypeOK
  <1>4. ASSUME NEW d \in Calls, call'[d].pc \in {"look", "save"}
        PROVE  call'[d].row \in 0..Len(settings')
    BY <1>1, <1>2, <1>3, <1>4
  <1> QED
    BY <1>1, <1>4 DEF CallsOK

LEMMA SavedSettings ==
  ASSUME TypeOK, NEW c \in Calls, call[c].pc = "save"
  PROVE  Saved(c) \in Seq(Contents) /\ Len(Saved(c)) \in Nat /\ Len(settings) <= Len(Saved(c))
  <1>1. call[c].content \in Contents /\ call[c].row \in 0..Len(settings)
    BY CallFields
  <1>2. settings \in Seq(Contents) /\ Len(settings) \in Nat
    BY DEF TypeOK
  <1>3. CASE call[c].row = 0
    BY <1>1, <1>2, <1>3 DEF Saved
  <1>4. CASE call[c].row # 0
    <2>1. call[c].row \in 1..Len(settings)
      BY <1>1, <1>2, <1>4
    <2>2. Saved(c) = [settings EXCEPT ![call[c].row] = call[c].content]
      BY <1>4 DEF Saved
    <2> QED
      BY <1>1, <1>2, <2>1, <2>2
  <1> QED
    BY <1>3, <1>4

\* The rest of TypeOK, by table.
RowsOK   == alerts \in [Alerts -> Rows]
DeskOK   == /\ toggles \in [Alerts -> Seq({"suppressed", "unsuppressed"})]
            /\ acks \in [Alerts -> Nat] /\ asked \in [Alerts -> 0..MaxAsked]
            /\ torn \subseteq Alerts
MailOK   == /\ notice \in [Alerts -> NoticeType] /\ mails \in [Alerts -> Nat]
            /\ unmarked \subseteq Alerts
AdminOK  == /\ settings \in Seq(Contents)
            /\ prefs \in [People -> Prefs] /\ active \subseteq People
            /\ stirred \subseteq Alerts /\ crowded \in BOOLEAN
            /\ saves \in 0..MaxSaves /\ changes \in 0..MaxChanges
LuckOK   == faults \in 0..MaxFaults /\ restarts \in 0..MaxRestarts

LEMMA TypeParts ==
  TypeOK <=> RowsOK /\ CallsOK /\ DeskOK /\ MailOK /\ AdminOK /\ LuckOK
  BY DEF TypeOK, RowsOK, CallsOK, DeskOK, MailOK, AdminOK, LuckOK, Rows

LEMMA TypePartsNext ==
  RowsOK' /\ CallsOK' /\ DeskOK' /\ MailOK' /\ AdminOK' /\ LuckOK' => TypeOK'
  BY DEF TypeOK, RowsOK, CallsOK, DeskOK, MailOK, AdminOK, LuckOK, Rows

LEMMA Unmoved ==
  ASSUME TypeOK
  PROVE  /\ UNCHANGED alerts => RowsOK'
         /\ UNCHANGED <<call, settings>> => CallsOK'
         /\ UNCHANGED desk => DeskOK'
         /\ UNCHANGED mail => MailOK'
         /\ UNCHANGED admin => AdminOK'
         /\ UNCHANGED luck => LuckOK'
  <1>1. RowsOK /\ CallsOK /\ DeskOK /\ MailOK /\ AdminOK /\ LuckOK
    BY TypeParts
  <1>2. UNCHANGED alerts => RowsOK'
    BY <1>1 DEF RowsOK
  <1>3. UNCHANGED <<call, settings>> => CallsOK'
    BY <1>1 DEF CallsOK
  <1>4. UNCHANGED desk => DeskOK'
    BY <1>1 DEF DeskOK, desk
  <1>5. UNCHANGED mail => MailOK'
    BY <1>1 DEF MailOK, mail
  <1>6. UNCHANGED admin => AdminOK'
    BY <1>1 DEF AdminOK, admin
  <1>7. UNCHANGED luck => LuckOK'
    BY <1>1 DEF LuckOK, luck
  <1> QED
    BY <1>2, <1>3, <1>4, <1>5, <1>6, <1>7

\* A request of an operator or of an administrator goes on without touching
\* the settings.
LEMMA CallSteps ==
  ASSUME TypeOK, NEW c \in Calls, NEW v \in CallType, Goes(c, v),
         UNCHANGED settings,
         v.pc \in {"look", "save"} => v.row \in 0..Len(settings)
  PROVE  /\ CallsOK' /\ call'[c] = v
         /\ \A d \in Calls : d # c => call'[d] = call[d]
  <1>1. Len(settings) \in Nat /\ Len(settings') = Len(settings)
    BY DEF TypeOK
  <1> QED
    BY <1>1, CallMoves

LEMMA CallEnds ==
  ASSUME TypeOK, NEW c \in Calls, Ends(c), UNCHANGED settings
  PROVE  /\ CallsOK' /\ call'[c] = Resting
         /\ \A d \in Calls : d # c => call'[d] = call[d]
  BY CallSteps, MadeResting DEF Ends

LEMMA RowChanges ==
  ASSUME TypeOK, NEW a \in Alerts
  PROVE  /\ [alerts EXCEPT ![a].there = TRUE] \in [Alerts -> Rows]
         /\ [alerts EXCEPT ![a].ack = TRUE] \in [Alerts -> Rows]
         /\ [alerts EXCEPT ![a].notified = TRUE] \in [Alerts -> Rows]
         /\ \A b \in BOOLEAN : [alerts EXCEPT ![a].suppressed = b] \in [Alerts -> Rows]
  BY DEF TypeOK, Rows

LEMMA NoticeMoves ==
  ASSUME TypeOK, NEW a \in Alerts, NEW n \in NoticeType, Says(a, n)
  PROVE  /\ notice' \in [Alerts -> NoticeType] /\ notice'[a] = n
         /\ \A b \in Alerts : b # a => notice'[b] = notice[b]
  BY DEF TypeOK, Says

-----------------------------------------------------------------------------
LEMMA RequestTypes ==
  ASSUME TypeOK, NEW c \in Calls, NEW a \in Alerts,
         Acknowledge(c, a) \/ Suppress(c, a)
  PROVE  TypeOK'
  <1>1. PICK q \in {"ack", "read"} : Begin(c, a, q)
    BY DEF Acknowledge, Suppress
  <1>2. torn' \subseteq Alerts
    BY DEF Acknowledge, Suppress, TypeOK
  <1>3. RowsOK' /\ MailOK' /\ AdminOK' /\ LuckOK'
    BY <1>1, Unmoved DEF Begin
  <1>4. DeskOK'
    <2>1. asked' \in [Alerts -> 0..MaxAsked]
      BY <1>1, DeskAssumption DEF Begin, TypeOK
    <2> QED
      BY <1>1, <1>2, <2>1 DEF Begin, DeskOK, TypeOK
  <1>5. CallsOK'
    <2>1. OnAlert(q, a, TRUE) \in CallType /\ OnAlert(q, a, TRUE).pc = q
      BY DEF OnAlert, CallType
    <2>2. Goes(c, OnAlert(q, a, TRUE)) /\ UNCHANGED settings
      BY <1>1 DEF Begin, admin
    <2> HIDE DEF OnAlert
    <2> QED
      BY <2>1, <2>2, CallSteps
  <1> QED
    BY <1>3, <1>4, <1>5, TypePartsNext

LEMMA FlagTypes ==
  ASSUME TypeOK, NEW c \in Calls, AckSet(c) \/ ReadFlag(c) \/ Flip(c)
  PROVE  TypeOK'
  <1>1. DeskOK' /\ MailOK' /\ AdminOK' /\ LuckOK'
    BY Unmoved DEF AckSet, ReadFlag, Flip
  <1>2. call[c].alert \in Alerts /\ call[c].flag \in BOOLEAN /\ UNCHANGED settings
    BY CallFields DEF AckSet, ReadFlag, Flip, admin
  <1>3. RowsOK'
    <2>1. CASE UNCHANGED alerts
      BY <2>1, Unmoved
    <2>2. CASE alerts' = [alerts EXCEPT ![call[c].alert].ack = TRUE]
      BY <1>2, <2>2, RowChanges DEF RowsOK
    <2>3. CASE alerts' = [alerts EXCEPT ![call[c].alert].suppressed = call[c].flag]
      BY <1>2, <2>3, RowChanges DEF RowsOK
    <2>4. AckSet(c) => UNCHANGED alerts \/ alerts' = [alerts EXCEPT ![call[c].alert].ack = TRUE]
      BY DEF AckSet
    <2> QED
      BY <2>1, <2>2, <2>3, <2>4 DEF ReadFlag, Flip, Flipped
  <1>4. CASE Ends(c)
    BY <1>1, <1>2, <1>3, <1>4, CallEnds, TypePartsNext
  <1>5. ASSUME NEW v \in CallType, Goes(c, v), v.pc \notin {"look", "save"}
        PROVE  TypeOK'
    BY <1>1, <1>2, <1>3, <1>5, CallSteps, TypePartsNext
  <1>6. CASE AckSet(c)
    <2>1. OnAlert("ackLog", call[c].alert, TRUE) \in CallType
          /\ OnAlert("ackLog", call[c].alert, TRUE).pc = "ackLog"
      BY <1>2 DEF OnAlert, CallType
    <2>2. Ends(c) \/ Goes(c, OnAlert("ackLog", call[c].alert, TRUE))
      BY <1>6 DEF AckSet
    <2> HIDE DEF OnAlert
    <2> QED
      BY <1>4, <1>5, <2>1, <2>2
  <1>7. CASE ReadFlag(c)
    <2> DEFINE f == ~alerts[call[c].alert].suppressed
    <2>1. f \in BOOLEAN
      OBVIOUS
    <2>2. OnAlert("flip", call[c].alert, f) \in CallType
          /\ OnAlert("flip", call[c].alert, f).pc = "flip"
      BY <1>2, <2>1, MadeOnAlert
    <2>3. Ends(c) \/ Goes(c, OnAlert("flip", call[c].alert, f))
      BY <1>7 DEF ReadFlag
    <2> HIDE DEF OnAlert, f
    <2> QED
      BY <1>4, <1>5, <2>2, <2>3
  <1>8. CASE Flip(c)
    <2> DEFINE v == [call[c] EXCEPT !.pc = "log"]
    <2>1. call[c] \in [pc : {"ack", "ackLog", "read", "flip", "log"}, alert : Alerts,
                       flag : BOOLEAN]
      BY <1>8, MadeResting DEF Flip, TypeOK, CallType
    <2>2. v \in CallType /\ v.pc = "log"
      BY <2>1 DEF CallType
    <2>3. Goes(c, v)
      BY <1>8 DEF Flip
    <2> HIDE DEF v
    <2> QED
      BY <1>5, <2>2, <2>3
  <1> QED
    BY <1>6, <1>7, <1>8

LEMMA EntryTypes ==
  ASSUME TypeOK, NEW c \in Calls, call[c].pc \in {"ackLog", "log"}
  PROVE  /\ [acks EXCEPT ![call[c].alert] = @ + 1] \in [Alerts -> Nat]
         /\ Logged(c) \in [Alerts -> Seq({"suppressed", "unsuppressed"})]
  <1>1. Entry(call[c].flag) \in {"suppressed", "unsuppressed"}
    BY DEF Entry
  <1>2. call[c].alert \in Alerts
    BY CallFields
  <1> HIDE DEF Entry
  <1>3. Append(toggles[call[c].alert], Entry(call[c].flag))
          \in Seq({"suppressed", "unsuppressed"})
    BY <1>1, <1>2 DEF TypeOK
  <1> QED
    BY <1>2, <1>3 DEF TypeOK, Logged

LEMMA LogTypes ==
  ASSUME TypeOK, NEW c \in Calls, AckLog(c) \/ Log(c)
  PROVE  TypeOK'
  <1>1. RowsOK' /\ MailOK' /\ AdminOK' /\ LuckOK'
    BY Unmoved DEF AckLog, Log
  <1>2. CallsOK'
    BY CallEnds DEF AckLog, Log, admin
  <1>3. ASSUME AckLog(c) PROVE DeskOK'
    BY <1>3, EntryTypes DEF AckLog, DeskOK, TypeOK
  <1>4. ASSUME Log(c) PROVE DeskOK'
    BY <1>4, EntryTypes DEF Log, DeskOK, TypeOK
  <1> QED
    BY <1>1, <1>2, <1>3, <1>4, TypePartsNext

LEMMA SettingsTypes ==
  ASSUME TypeOK, NEW c \in Calls,
         (\E v \in Contents : SaveSettings(c, v)) \/ Look(c) \/ Save(c)
  PROVE  TypeOK'
  <1>1. RowsOK' /\ DeskOK' /\ MailOK' /\ LuckOK'
    BY Unmoved DEF SaveSettings, Look, Save
  <1>2. settings \in Seq(Contents) /\ Len(settings) \in Nat
    BY DEF TypeOK
  <1>3. ASSUME NEW v \in Contents, SaveSettings(c, v)
        PROVE  TypeOK'
    <2>1. crowded' \in BOOLEAN
      BY <1>3 DEF SaveSettings, TypeOK
    <2>2. AdminOK'
      BY <1>3, <2>1, DeskAssumption DEF SaveSettings, AdminOK, TypeOK
    <2>3. OnSettings("look", v, 0) \in CallType /\ OnSettings("look", v, 0).row = 0
      BY MadeOnSettings
    <2>4. Goes(c, OnSettings("look", v, 0)) /\ UNCHANGED settings
      BY <1>3 DEF SaveSettings
    <2> HIDE DEF OnSettings
    <2>5. CallsOK'
      BY <1>2, <2>3, <2>4, CallSteps
    <2> QED
      BY <1>1, <2>2, <2>5, TypePartsNext
  <1>4. CASE Look(c)
    <2>1. AdminOK' /\ UNCHANGED settings
      BY <1>4, Unmoved DEF Look, admin
    <2>2. PICK i \in 0..Len(settings) : Goes(c, OnSettings("save", call[c].content, i))
      BY <1>2, <1>4 DEF Look
    <2>3. /\ OnSettings("save", call[c].content, i) \in CallType
          /\ OnSettings("save", call[c].content, i).row = i
      BY <1>2, <1>4, MadeOnSettings, CallFields DEF Look
    <2> HIDE DEF OnSettings
    <2>4. CallsOK'
      BY <2>1, <2>2, <2>3, CallSteps
    <2> QED
      BY <1>1, <2>1, <2>4, TypePartsNext
  <1>5. CASE Save(c)
    <2>1. /\ settings' = Saved(c) /\ Saved(c) \in Seq(Contents)
          /\ Len(Saved(c)) \in Nat /\ Len(settings) <= Len(Saved(c))
      BY <1>5, SavedSettings DEF Save
    <2>2. stirred' \subseteq Alerts
      BY <1>5 DEF Save, Stir
    <2>3. AdminOK'
      BY <1>5, <2>1, <2>2 DEF Save, AdminOK, TypeOK
    <2>4. CallsOK'
      BY <1>5, <2>1, MadeResting, CallMoves DEF Save, Ends
    <2> QED
      BY <1>1, <2>3, <2>4, TypePartsNext
  <1> QED
    BY <1>3, <1>4, <1>5

LEMMA PeopleTypes ==
  ASSUME TypeOK, NEW p \in People,
         ChangeAccount(p) \/ \E v \in Prefs : SavePrefs(p, v)
  PROVE  TypeOK'
  <1>1. RowsOK' /\ CallsOK' /\ DeskOK' /\ MailOK' /\ LuckOK'
    BY Unmoved DEF ChangeAccount, SavePrefs
  <1>2. stirred' \subseteq Alerts
    BY DEF ChangeAccount, SavePrefs, Stir
  <1>3. prefs' \in [People -> Prefs] /\ active' \subseteq People
    BY DEF ChangeAccount, SavePrefs, TypeOK
  <1>4. AdminOK'
    BY <1>2, <1>3, DeskAssumption DEF ChangeAccount, SavePrefs, AdminOK, TypeOK
  <1> QED
    BY <1>1, <1>4, TypePartsNext

\* A notice goes on, and only the row of its alert and its mails may change.
LEMMA NoticeTypes ==
  ASSUME TypeOK, NEW a \in Alerts, NEW n \in NoticeType, Says(a, n),
         UNCHANGED <<call, desk>>, AdminOK', UNCHANGED settings, LuckOK',
         \/ UNCHANGED alerts
         \/ alerts' = [alerts EXCEPT ![a].notified = TRUE],
         mails' = mails \/ mails' = [mails EXCEPT ![a] = @ + 1],
         unmarked' \subseteq Alerts
  PROVE  TypeOK'
  <1>1. DeskOK' /\ CallsOK'
    BY Unmoved
  <1>2. RowsOK'
    BY RowChanges, Unmoved DEF RowsOK
  <1>3. mails' \in [Alerts -> Nat]
    BY DEF TypeOK
  <1>4. MailOK'
    BY <1>3, NoticeMoves DEF MailOK
  <1> QED
    BY <1>1, <1>2, <1>4, TypePartsNext

LEMMA ReadTypes ==
  ASSUME TypeOK, NEW a \in Alerts,
         \/ Check(a) \/ ReadSettings(a) \/ ReadUsers(a) \/ ReadOptIns(a) \/ Mail(a) \/ Mark(a)
  PROVE  TypeOK'
  <1>1. AdminOK' /\ LuckOK' /\ UNCHANGED <<call, desk, settings, unmarked>>
    BY Unmoved DEF Check, ReadSettings, ReadUsers, ReadOptIns, Mail, Mark, Calm, admin
  <1>2. mails' = mails \/ mails' = [mails EXCEPT ![a] = @ + 1]
    BY DEF Check, ReadSettings, ReadUsers, ReadOptIns, Mail, Mark, Calm
  <1>3. UNCHANGED alerts \/ alerts' = [alerts EXCEPT ![a].notified = TRUE]
    BY DEF Check, ReadSettings, ReadUsers, ReadOptIns, Mail, Mark, Calm
  <1>4. unmarked' \subseteq Alerts
    BY <1>1 DEF TypeOK
  <1>5. \E n \in NoticeType : Says(a, n)
    <2>1. CASE Check(a)
      BY <2>1, SamePeople DEF Check
    <2>2. CASE ReadSettings(a)
      <3>1. CASE Says(a, [notice[a] EXCEPT !.pc = "done"])
        BY <3>1, SamePeople
      <3>2. ASSUME NEW i \in DOMAIN settings,
                   Says(a, Noticing(IF settings[i].users = {} THEN "optIns" ELSE "users",
                                    notice[a].sev, settings[i].users, settings[i].to))
            PROVE  \E n \in NoticeType : Says(a, n)
        <4>1. settings[i] \in Contents
          BY DEF TypeOK
        <4>2. settings[i].users \subseteq People /\ settings[i].to \subseteq People
          BY <4>1, DeskAssumption DEF Content
        <4> QED
          BY <3>2, <4>2, NoticeFields, MadeNotices
      <3> QED
        BY <2>2, <3>1, <3>2 DEF ReadSettings
    <2>3. CASE ReadUsers(a)
      <3>1. notice[a].to \cup (notice[a].users \cap active) \subseteq People
        BY NoticeFields
      <3> QED
        BY <2>3, <3>1, NoticeFields, MadeNotices DEF ReadUsers
    <2>4. CASE ReadOptIns(a)
      <3> DEFINE all == notice[a].to \cup OptedIn(notice[a].sev)
      <3>1. all \subseteq People
        BY NoticeFields DEF TypeOK, OptedIn
      <3>2. Says(a, Noticing(IF all = {} THEN "done" ELSE "mail", notice[a].sev, {}, all))
        BY <2>4 DEF ReadOptIns
      <3> HIDE DEF all
      <3> QED
        BY <3>1, <3>2, NoticeFields, MadeNotices
    <2>5. CASE Mail(a)
      BY <2>5, SamePeople DEF Mail
    <2>6. CASE Mark(a)
      BY <2>6, SamePeople DEF Mark
    <2> QED
      BY <2>1, <2>2, <2>3, <2>4, <2>5, <2>6
  <1> QED
    BY <1>1, <1>2, <1>3, <1>4, <1>5, NoticeTypes

LEMMA StartTypes ==
  ASSUME TypeOK, NEW a \in Alerts, Insert(a) \/ \E s \in Levels : Notify(a, s)
  PROVE  TypeOK'
  <1>1. CASE Insert(a)
    <2>1. RowsOK'
      BY <1>1, RowChanges DEF Insert, RowsOK
    <2> QED
      BY <1>1, <2>1, Unmoved, TypePartsNext DEF Insert, admin
  <1>2. ASSUME NEW s \in Levels, Notify(a, s)
        PROVE  TypeOK'
    <2>1. Noticing("check", s, {}, {}) \in NoticeType
      BY MadeNotices
    <2>2. Says(a, Noticing("check", s, {}, {}))
      BY <1>2 DEF Notify
    <2>3. stirred' \subseteq Alerts
      BY <1>2 DEF Notify, TypeOK
    <2>4. AdminOK' /\ LuckOK'
      BY <1>2, <2>3, Unmoved DEF Notify, AdminOK, TypeOK
    <2>5. UNCHANGED <<alerts, call, mails, unmarked, desk, settings>>
      BY <1>2 DEF Notify
    <2> HIDE DEF Noticing
    <2>6. unmarked' \subseteq Alerts
      BY <2>5 DEF TypeOK
    <2> QED
      BY <2>1, <2>2, <2>4, <2>5, <2>6, NoticeTypes
  <1> QED
    BY <1>1, <1>2

LEMMA FaultTypes ==
  ASSUME TypeOK, NEW c \in Calls, RequestFault(c)
  PROVE  TypeOK'
  <1>1. MailOK'
    BY Unmoved DEF RequestFault
  <1>2. LuckOK'
    BY DeskAssumption DEF RequestFault, LuckOK, TypeOK
  <1>3. RowsOK'
    <2>1. CASE UNCHANGED alerts
      BY <2>1, Unmoved
    <2>2. CASE /\ call[c].pc = "ack"
               /\ alerts' = [alerts EXCEPT ![call[c].alert].ack = TRUE]
      BY <2>2, RowChanges, CallFields DEF RowsOK
    <2>3. CASE call[c].pc = "flip" /\ alerts' = Flipped(c)
      BY <2>3, RowChanges, CallFields DEF RowsOK, Flipped
    <2> QED
      BY <2>1, <2>2, <2>3 DEF RequestFault
  <1>4. DeskOK'
    <2>1. toggles' \in [Alerts -> Seq({"suppressed", "unsuppressed"})]
      <3>1. toggles' = toggles \/ (call[c].pc = "log" /\ toggles' = Logged(c))
        BY DEF RequestFault
      <3> QED
        BY <3>1, EntryTypes DEF TypeOK
    <2>2. acks' \in [Alerts -> Nat]
      <3>1. \/ acks' = acks
            \/ call[c].pc = "ackLog" /\ acks' = [acks EXCEPT ![call[c].alert] = @ + 1]
        BY DEF RequestFault
      <3> QED
        BY <3>1, EntryTypes DEF TypeOK
    <2>3. torn' \subseteq Alerts /\ asked' = asked
      BY DEF RequestFault, TypeOK
    <2> QED
      BY <2>1, <2>2, <2>3 DEF DeskOK, TypeOK
  <1>5. /\ settings' \in Seq(Contents) /\ Len(settings') \in Nat
        /\ Len(settings) <= Len(settings') /\ stirred' \subseteq Alerts
    <2>1. CASE settings' = settings /\ stirred' = stirred
      BY <2>1 DEF TypeOK
    <2>2. CASE call[c].pc = "save" /\ settings' = Saved(c) /\ Stir
      BY <2>2, SavedSettings DEF Stir
    <2> QED
      BY <2>1, <2>2 DEF RequestFault
  <1>6. AdminOK'
    BY <1>5 DEF RequestFault, AdminOK, TypeOK
  <1>7. CallsOK'
    BY <1>5, MadeResting, CallMoves DEF RequestFault, Ends
  <1> QED
    BY <1>1, <1>2, <1>3, <1>4, <1>6, <1>7, TypePartsNext

LEMMA NoticeFaultTypes ==
  ASSUME TypeOK, NEW a \in Alerts, NoticeFault(a)
  PROVE  TypeOK'
  <1>1. LuckOK'
    BY DeskAssumption DEF NoticeFault, LuckOK, TypeOK
  <1>2. AdminOK' /\ UNCHANGED <<call, desk, settings>>
    BY Unmoved DEF NoticeFault, admin
  <1>3. \E n \in NoticeType : Says(a, n)
    BY SamePeople DEF NoticeFault
  <1>4. unmarked' \subseteq Alerts
    BY DEF NoticeFault, TypeOK
  <1>5. /\ mails' = mails \/ mails' = [mails EXCEPT ![a] = @ + 1]
        /\ UNCHANGED alerts \/ alerts' = [alerts EXCEPT ![a].notified = TRUE]
    BY DEF NoticeFault
  <1> QED
    BY <1>1, <1>2, <1>3, <1>4, <1>5, NoticeTypes

LEMMA RestartTypes ==
  ASSUME TypeOK, Restart
  PROVE  TypeOK'
  <1>1. RowsOK'
    BY Unmoved DEF Restart
  <1>2. LuckOK'
    BY DeskAssumption DEF Restart, LuckOK, TypeOK
  <1>3. CallsOK'
    BY MadeResting DEF Restart, CallsOK
  <1>4. DeskOK'
    BY DEF Restart, DeskOK, TypeOK
  <1>5. Unnoticed \in NoticeType
    BY DEF Unnoticed, Noticing, NoticeType
  <1>6. MailOK'
    BY <1>5 DEF Restart, MailOK, TypeOK
  <1>7. AdminOK'
    BY DEF Restart, AdminOK, TypeOK
  <1> QED
    BY <1>1, <1>2, <1>3, <1>4, <1>6, <1>7, TypePartsNext

LEMMA TypeStep ==
  TypeOK /\ [Next]_vars => TypeOK'
  <1> SUFFICES ASSUME TypeOK, [Next]_vars
               PROVE  TypeOK'
    OBVIOUS
  <1>1. ASSUME NEW c \in Calls, NEW a \in Alerts, Acknowledge(c, a) \/ Suppress(c, a)
        PROVE  TypeOK'
    BY <1>1, RequestTypes
  <1>2. ASSUME NEW c \in Calls,
               \/ AckSet(c) \/ AckLog(c) \/ ReadFlag(c) \/ Flip(c) \/ Log(c)
               \/ (\E v \in Contents : SaveSettings(c, v)) \/ Look(c) \/ Save(c)
               \/ RequestFault(c)
        PROVE  TypeOK'
    BY <1>2, FlagTypes, LogTypes, SettingsTypes, FaultTypes
  <1>3. ASSUME NEW p \in People, ChangeAccount(p) \/ \E v \in Prefs : SavePrefs(p, v)
        PROVE  TypeOK'
    BY <1>3, PeopleTypes
  <1>4. ASSUME NEW a \in Alerts,
               \/ Insert(a) \/ (\E s \in Levels : Notify(a, s))
               \/ Check(a) \/ ReadSettings(a) \/ ReadUsers(a) \/ ReadOptIns(a)
               \/ Mail(a) \/ Mark(a) \/ NoticeFault(a)
        PROVE  TypeOK'
    BY <1>4, StartTypes, ReadTypes, NoticeFaultTypes
  <1>5. CASE Restart
    BY <1>5, RestartTypes
  <1>6. CASE UNCHANGED vars
    BY <1>6, Unmoved, TypePartsNext DEF vars, admin
  <1> QED
    BY <1>1, <1>2, <1>3, <1>4, <1>5, <1>6 DEF Next

-----------------------------------------------------------------------------
(* The history.                                                            *)

Alternates(t) ==
  /\ Len(t) > 0 => t[1] = "suppressed"
  /\ \A i \in 1..Len(t) : \A j \in 1..Len(t) : j = i + 1 => t[i] # t[j]

SaysSuppressed(t) == Len(t) > 0 /\ t[Len(t)] = "suppressed"

At(c, q, a) == call[c].pc = q /\ call[c].alert = a
Toggles(c, a) == Toggling(c) /\ call[c].alert = a

\* What the history of alert a lacks is the entry of the one toggle under way.
Told(a) ==
  /\ Alternates(toggles[a])
  /\ \A c, d \in Calls : Toggles(c, a) /\ Toggles(d, a) => c = d
  /\ (\A c \in Calls : ~At(c, "log", a)) => (alerts[a].suppressed <=> SaysSuppressed(toggles[a]))
  /\ \A c \in Calls : At(c, "flip", a) => (call[c].flag <=> ~alerts[a].suppressed)
  /\ \A c \in Calls : At(c, "log", a) =>
       (call[c].flag <=> alerts[a].suppressed) /\ (call[c].flag <=> ~SaysSuppressed(toggles[a]))

AckInv ==
  /\ \A a \in Alerts : acks[a] > 0 => alerts[a].ack
  /\ \A c \in Calls : call[c].pc = "ackLog" => alerts[call[c].alert].ack

HistInv == AckInv /\ \A a \in Alerts \ torn : Told(a)

\* The toggles of a are as they were, or one that had not flipped the flag is
\* over.
LEMMA ToldKept ==
  ASSUME NEW a \in Alerts, Told(a), toggles'[a] = toggles[a],
         alerts'[a].suppressed = alerts[a].suppressed,
         \A c \in Calls : call'[c] = call[c] \/ (~Toggles(c, a)' /\ ~At(c, "log", a))
  PROVE  Told(a)'
  <1>1. Alternates(toggles[a])'
    BY DEF Told
  <1>2. \A c \in Calls : Toggles(c, a)' => call'[c] = call[c] /\ Toggles(c, a)
    BY DEF Toggles, Toggling
  <1>3. \A c \in Calls : \A q \in {"flip", "log"} :
          At(c, q, a)' => call'[c] = call[c] /\ At(c, q, a)
    BY DEF Toggles, Toggling, At
  <1>4. \A c \in Calls : At(c, "log", a) => At(c, "log", a)'
    BY DEF At
  <1> QED
    BY <1>1, <1>2, <1>3, <1>4 DEF Told

\* The step of one call, seen from an alert.
Else(c) == \A d \in Calls : d # c => call'[d] = call[d]

LEMMA SuppressTold ==
  ASSUME TypeOK, HistInv, NEW c \in Calls, NEW b \in Alerts, Suppress(c, b),
         NEW a \in Alerts, a \notin torn'
  PROVE  Told(a)'
  <1>1. a \notin torn /\ Told(a)
    BY DEF Suppress, HistInv
  <1>2. Else(c) /\ call'[c].pc = "read" /\ call'[c].alert = b /\ call[c].pc = "rest"
    BY DEF Suppress, Begin, Goes, Else, OnAlert, TypeOK
  <1>3. toggles' = toggles /\ alerts' = alerts
    BY DEF Suppress, Begin
  <1>4. CASE a # b
    BY <1>1, <1>2, <1>3, <1>4, ToldKept DEF Else, Toggles, At
  <1>5. CASE a = b
    <2>1. \A d \in Calls : ~Toggles(d, a)
      BY <1>5 DEF Suppress, Toggles
    <2>2. \A d \in Calls : Toggles(d, a)' => d = c
      BY <1>2, <2>1 DEF Else, Toggles, Toggling
    <2>3. \A d \in Calls : ~At(d, "log", a) /\ ~At(d, "flip", a)
      BY <2>1 DEF Toggles, Toggling, At
    <2>4. \A d \in Calls : ~At(d, "log", a)' /\ ~At(d, "flip", a)'
      BY <1>2, <2>3 DEF Else, At
    <2> QED
      BY <1>1, <1>3, <2>2, <2>3, <2>4 DEF Told
  <1> QED
    BY <1>4, <1>5

LEMMA FlagTold ==
  ASSUME TypeOK, HistInv, NEW c \in Calls, ReadFlag(c) \/ Flip(c), NEW a \in Alerts,
         a \notin torn'
  PROVE  Told(a)'
  <1>1. a \notin torn /\ Told(a) /\ toggles' = toggles
    BY DEF ReadFlag, Flip, HistInv, desk
  <1>2. call[c].alert \in Alerts
    BY CallFields DEF ReadFlag, Flip
  <1>3. CASE ReadFlag(c)
    <2>1. alerts' = alerts /\ call[c].pc = "read"
      BY <1>3 DEF ReadFlag
    <2>2. CASE Ends(c)
      <3>1. Else(c) /\ call'[c].pc = "rest"
        BY <2>2 DEF Ends, Goes, Resting, Else, TypeOK
      <3> QED
        BY <1>1, <2>1, <3>1, ToldKept DEF Else, Toggles, Toggling, At
    <2>3. CASE Goes(c, OnAlert("flip", call[c].alert, ~alerts[call[c].alert].suppressed))
      <3>1. /\ Else(c) /\ call'[c].pc = "flip" /\ call'[c].alert = call[c].alert
            /\ call'[c].flag <=> ~alerts[call[c].alert].suppressed
        BY <2>3 DEF Goes, OnAlert, Else, TypeOK
      <3>2. CASE a # call[c].alert
        BY <1>1, <2>1, <3>1, <3>2, ToldKept DEF Else, Toggles, At
      <3>3. CASE a = call[c].alert
        <4>1. \A d \in Calls : Toggles(d, a)' <=> Toggles(d, a)
          BY <2>1, <3>1, <3>3 DEF Else, Toggles, Toggling
        <4>2. \A d \in Calls : At(d, "log", a)' <=> At(d, "log", a)
          BY <2>1, <3>1, <3>3 DEF Else, At
        <4>3. Toggles(c, a)
          BY <2>1, <3>3 DEF Toggles, Toggling
        <4>4. \A d \in Calls : At(d, "flip", a)' => d = c
          BY <1>1, <3>1, <4>3 DEF Else, At, Told, Toggles, Toggling
        <4>5. \A d \in Calls : ~At(d, "log", a)
          BY <1>1, <2>1, <4>3 DEF At, Told, Toggles, Toggling
        <4> QED
          BY <1>1, <2>1, <3>1, <3>3, <4>1, <4>2, <4>4, <4>5 DEF Told, Else
      <3> QED
        BY <3>2, <3>3
    <2> QED
      BY <1>3, <2>2, <2>3 DEF ReadFlag
  <1>4. CASE Flip(c)
    <2>1. /\ call[c].pc = "flip" /\ Else(c)
          /\ call'[c].pc = "log" /\ call'[c].alert = call[c].alert
          /\ call'[c].flag = call[c].flag
      <3>1. call[c] \in [pc : {"ack", "ackLog", "read", "flip", "log"}, alert : Alerts,
                         flag : BOOLEAN]
        BY <1>4, MadeResting DEF Flip, TypeOK, CallType
      <3> QED
        BY <1>4, <3>1 DEF Flip, Goes, Else, TypeOK
    <2>2. /\ \A b \in Alerts : b # call[c].alert => alerts'[b] = alerts[b]
          /\ alerts'[call[c].alert].suppressed = call[c].flag
      BY <1>2, <1>4 DEF Flip, Flipped, TypeOK
    <2>3. CASE a # call[c].alert
      BY <1>1, <2>1, <2>2, <2>3, ToldKept DEF Else, Toggles, At
    <2>4. CASE a = call[c].alert
      <3>1. At(c, "flip", a) /\ Toggles(c, a)
        BY <2>1, <2>4 DEF At, Toggles, Toggling
      <3>2. \A d \in Calls : ~At(d, "log", a)
        BY <1>1, <2>1, <3>1 DEF At, Told, Toggles, Toggling
      <3>3. call[c].flag <=> ~SaysSuppressed(toggles[a])
        BY <1>1, <3>1, <3>2 DEF Told
      <3>4. \A d \in Calls : Toggles(d, a)' => d = c
        BY <1>1, <2>1, <3>1 DEF Else, Told, Toggles, Toggling
      <3>5. At(c, "log", a)' /\ ~At(c, "flip", a)'
        BY <2>1, <2>4 DEF At
      <3>6. \A d \in Calls : At(d, "log", a)' \/ At(d, "flip", a)' => d = c
        BY <3>4 DEF At, Toggles, Toggling
      <3> QED
        BY <1>1, <2>1, <2>2, <2>4, <3>3, <3>4, <3>5, <3>6 DEF Told
    <2> QED
      BY <2>3, <2>4
  <1> QED
    BY <1>3, <1>4

LEMMA LogTold ==
  ASSUME TypeOK, HistInv, NEW c \in Calls, Log(c), NEW a \in Alerts, a \notin torn'
  PROVE  Told(a)'
  <1>1. a \notin torn /\ Told(a) /\ alerts' = alerts
    BY DEF Log, HistInv
  <1>2. call[c].alert \in Alerts /\ call[c].pc = "log" /\ Else(c) /\ call'[c].pc = "rest"
    BY CallFields DEF Log, Ends, Goes, Resting, Else, TypeOK
  <1>3. CASE a # call[c].alert
    <2>1. toggles'[a] = toggles[a]
      BY <1>2, <1>3 DEF Log, Logged, TypeOK
    <2> QED
      BY <1>1, <1>2, <1>3, <2>1, ToldKept DEF Else, Toggles, Toggling, At
  <1>4. CASE a = call[c].alert
    <2> DEFINE t == toggles[a]
               e == Entry(call[c].flag)
    <2>1. t \in Seq({"suppressed", "unsuppressed"}) /\ Len(t) \in Nat
      BY DEF TypeOK
    <2>2. toggles'[a] = Append(t, e)
      BY <1>4 DEF Log, Logged, TypeOK
    <2>3. Toggles(c, a) /\ At(c, "log", a)
      BY <1>2, <1>4 DEF Toggles, Toggling, At
    <2>4. /\ call[c].flag <=> alerts[a].suppressed
          /\ call[c].flag <=> ~SaysSuppressed(t)
      BY <1>1, <2>3 DEF Told
    <2>5. /\ call[c].flag <=> e = "suppressed"
          /\ e \in {"suppressed", "unsuppressed"}
      BY DEF Entry
    <2>6. \A d \in Calls : ~Toggles(d, a)'
      BY <1>1, <1>2, <2>3 DEF Else, Told, Toggles, Toggling
    <2>7. \A d \in Calls : ~At(d, "log", a)' /\ ~At(d, "flip", a)'
      BY <2>6 DEF At, Toggles, Toggling
    <2>8. Alternates(t)
      BY <1>1 DEF Told
    <2> HIDE DEF e, t
    <2>9. /\ Len(Append(t, e)) = Len(t) + 1 /\ Append(t, e)[Len(t) + 1] = e
          /\ \A i \in 1..Len(t) : Append(t, e)[i] = t[i]
      BY <2>1, <2>5
    <2>10. SaysSuppressed(Append(t, e)) <=> alerts[a].suppressed
      BY <2>1, <2>4, <2>5, <2>9 DEF SaysSuppressed
    <2>11. Alternates(Append(t, e))
      <3>1. Len(t) = 0 => e = "suppressed"
        BY <2>4, <2>5 DEF SaysSuppressed
      <3>2. Append(t, e)[1] = "suppressed"
        BY <2>1, <2>8, <2>9, <3>1 DEF Alternates
      <3>3. Len(t) > 0 => t[Len(t)] # e
        BY <2>4, <2>5 DEF SaysSuppressed
      <3>4. ASSUME NEW i \in 1..(Len(t) + 1), NEW j \in 1..(Len(t) + 1), j = i + 1
            PROVE  Append(t, e)[i] # Append(t, e)[j]
        <4>1. CASE j \in 1..Len(t)
          BY <2>1, <2>8, <2>9, <3>4, <4>1 DEF Alternates
        <4>2. CASE j = Len(t) + 1
          BY <2>1, <2>9, <3>3, <3>4, <4>2
        <4> QED
          BY <2>1, <4>1, <4>2
      <3> QED
        BY <2>9, <3>2, <3>4 DEF Alternates
    <2> QED
      BY <1>1, <2>2, <2>6, <2>7, <2>10, <2>11 DEF Told
  <1> QED
    BY <1>3, <1>4

\* A request on something else, or one that fails, leaves behind no toggle.
LEMMA FaultTold ==
  ASSUME TypeOK, HistInv, NEW c \in Calls, RequestFault(c), NEW a \in Alerts, a \notin torn'
  PROVE  Told(a)'
  <1>1. a \notin torn /\ Told(a) /\ (call[c].pc \in {"flip", "log"} => call[c].alert # a)
    BY DEF RequestFault, HistInv
  <1>2. Else(c) /\ call'[c].pc = "rest"
    BY DEF RequestFault, Ends, Goes, Resting, Else, TypeOK
  <1>3. toggles'[a] = toggles[a]
    BY <1>1 DEF RequestFault, Logged, TypeOK
  <1>4. alerts'[a].suppressed = alerts[a].suppressed
    <2>1. CASE UNCHANGED alerts
      BY <2>1
    <2>2. CASE alerts' = [alerts EXCEPT ![call[c].alert].ack = TRUE]
      BY <2>2 DEF TypeOK
    <2>3. CASE call[c].pc = "flip" /\ alerts' = Flipped(c)
      BY <1>1, <2>3 DEF Flipped, TypeOK
    <2> QED
      BY <2>1, <2>2, <2>3 DEF RequestFault
  <1> QED
    BY <1>1, <1>2, <1>3, <1>4, ToldKept DEF Else, Toggles, Toggling, At

LEMMA RestartTold ==
  ASSUME TypeOK, HistInv, Restart, NEW a \in Alerts, a \notin torn'
  PROVE  Told(a)'
  <1>1. a \notin torn /\ Told(a) /\ \A c \in Calls : ~At(c, "log", a)
    BY DEF Restart, HistInv, At
  <1>2. toggles' = toggles /\ alerts' = alerts /\ \A c \in Calls : call'[c].pc = "rest"
    BY DEF Restart, Resting
  <1> QED
    BY <1>1, <1>2, ToldKept DEF Toggles, Toggling

\* Every other step leaves the toggles and the flag of suppression alone.
Quiet(c) ==
  /\ UNCHANGED <<toggles, torn>>
  /\ \A a \in Alerts : alerts'[a].suppressed = alerts[a].suppressed
  /\ \A d \in Calls : d # c => call'[d] = call[d]
  /\ ~Toggling(c)' /\ ~Toggling(c)

LEMMA QuietTold ==
  ASSUME HistInv, NEW c \in Calls, Quiet(c), NEW a \in Alerts, a \notin torn'
  PROVE  Told(a)'
  <1>1. a \notin torn /\ Told(a)
    BY DEF Quiet, HistInv
  <1> QED
    BY <1>1, ToldKept DEF Quiet, Toggles, Toggling, At

LEMMA QuietSteps ==
  ASSUME TypeOK, NEW c \in Calls,
         \/ \E a \in Alerts : Acknowledge(c, a)
         \/ AckSet(c) \/ AckLog(c)
         \/ (\E v \in Contents : SaveSettings(c, v)) \/ Look(c) \/ Save(c)
  PROVE  Quiet(c)
  <1>1. ASSUME NEW a \in Alerts, Acknowledge(c, a)
        PROVE  Quiet(c)
    BY <1>1 DEF Acknowledge, Begin, Goes, OnAlert, Quiet, Toggling, TypeOK
  <1>2. CASE AckSet(c)
    <2>1. call[c].pc = "ack" /\ UNCHANGED <<toggles, torn>>
      BY <1>2 DEF AckSet, desk
    <2>2. \A a \in Alerts : alerts'[a].suppressed = alerts[a].suppressed
      <3>1. CASE UNCHANGED alerts
        BY <3>1
      <3>2. CASE alerts' = [alerts EXCEPT ![call[c].alert].ack = TRUE]
        BY <3>2 DEF TypeOK
      <3> QED
        BY <1>2, <3>1, <3>2 DEF AckSet
    <2>3. Goes(c, Resting) \/ Goes(c, OnAlert("ackLog", call[c].alert, TRUE))
      BY <1>2 DEF AckSet, Ends
    <2>4. Else(c) /\ call'[c].pc \in {"rest", "ackLog"}
      BY <2>3 DEF Goes, Resting, OnAlert, Else, TypeOK
    <2> QED
      BY <2>1, <2>2, <2>4 DEF Quiet, Toggling, Else
  <1>3. CASE AckLog(c)
    BY <1>3 DEF AckLog, Ends, Goes, Resting, Quiet, Toggling, TypeOK
  <1>4. ASSUME NEW v \in Contents, SaveSettings(c, v)
        PROVE  Quiet(c)
    BY <1>4 DEF SaveSettings, Goes, OnSettings, Quiet, Toggling, TypeOK, desk
  <1>5. CASE Look(c)
    <2>1. PICK i : Goes(c, OnSettings("save", call[c].content, i))
      BY <1>5 DEF Look
    <2>2. Else(c) /\ call'[c].pc = "save"
      BY <2>1 DEF Goes, OnSettings, Else, TypeOK
    <2> QED
      BY <1>5, <2>2 DEF Look, Quiet, Toggling, Else, desk
  <1>6. CASE Save(c)
    BY <1>6 DEF Save, Ends, Goes, Resting, Quiet, Toggling, TypeOK, desk
  <1> QED
    BY <1>1, <1>2, <1>3, <1>4, <1>5, <1>6

\* Steps that are not requests leave the history, and its flags, alone.
LEMMA StillFlags ==
  ASSUME TypeOK,
         \/ UNCHANGED vars
         \/ \E p \in People : ChangeAccount(p) \/ \E v \in Prefs : SavePrefs(p, v)
         \/ \E a \in Alerts :
              \/ Insert(a) \/ (\E s \in Levels : Notify(a, s))
              \/ Check(a) \/ ReadSettings(a) \/ ReadUsers(a) \/ ReadOptIns(a)
              \/ Mail(a) \/ Mark(a) \/ NoticeFault(a)
  PROVE  /\ UNCHANGED <<toggles, acks, torn, call>>
         /\ \A a \in Alerts : /\ alerts'[a].suppressed = alerts[a].suppressed
                              /\ alerts'[a].ack = alerts[a].ack
  <1>1. UNCHANGED <<toggles, acks, torn, call>>
    BY DEF vars, desk, ChangeAccount, SavePrefs, Insert, Notify, Check, ReadSettings,
           ReadUsers, ReadOptIns, Mail, Mark, NoticeFault, Calm
  <1> DEFINE Same == \A a \in Alerts : /\ alerts'[a].suppressed = alerts[a].suppressed
                                      /\ alerts'[a].ack = alerts[a].ack
  <1>2. UNCHANGED alerts => Same
    OBVIOUS
  <1>3. ASSUME NEW a \in Alerts,
               \/ alerts' = [alerts EXCEPT ![a].there = TRUE]
               \/ alerts' = [alerts EXCEPT ![a].notified = TRUE]
        PROVE  Same
    <2>1. CASE alerts' = [alerts EXCEPT ![a].there = TRUE]
      BY <2>1 DEF TypeOK
    <2>2. CASE alerts' = [alerts EXCEPT ![a].notified = TRUE]
      BY <2>2 DEF TypeOK
    <2> QED
      BY <1>3, <2>1, <2>2
  <1> HIDE DEF Same
  <1>4. UNCHANGED vars \/ (\E p \in People : ChangeAccount(p) \/ \E v \in Prefs : SavePrefs(p, v))
          => Same
    BY <1>2 DEF vars, ChangeAccount, SavePrefs
  <1>5. ASSUME NEW a \in Alerts,
               \/ Insert(a) \/ (\E s \in Levels : Notify(a, s))
               \/ Check(a) \/ ReadSettings(a) \/ ReadUsers(a) \/ ReadOptIns(a)
               \/ Mail(a) \/ Mark(a) \/ NoticeFault(a)
        PROVE  Same
    BY <1>2, <1>3, <1>5 DEF Insert, Notify, Check, ReadSettings, ReadUsers, ReadOptIns,
                            Mail, Mark, NoticeFault, Calm
  <1>6. Same
    BY <1>4, <1>5
  <1> QED
    BY <1>1, <1>6 DEF Same

-----------------------------------------------------------------------------
(* Acknowledgements.                                                       *)

LEMMA AckKept ==
  ASSUME TypeOK, AckInv, acks' = acks,
         \A a \in Alerts : alerts[a].ack => alerts'[a].ack,
         \A c \in Calls : call'[c].pc = "ackLog" =>
           call'[c] = call[c] \/ alerts'[call'[c].alert].ack
  PROVE  AckInv'
  <1>1. \A c \in Calls : call[c].pc = "ackLog" => call[c].alert \in Alerts
    BY CallFields
  <1> QED
    BY <1>1 DEF AckInv

LEMMA AckStep ==
  ASSUME TypeOK, AckInv, [Next]_vars
  PROVE  AckInv'
  <1>1. ASSUME NEW c \in Calls, AckSet(c)
        PROVE  AckInv'
    <2>1. call[c].pc = "ack" /\ call[c].alert \in Alerts /\ acks' = acks
      BY <1>1, CallFields DEF AckSet, desk
    <2>2. CASE Ends(c) /\ UNCHANGED alerts
      BY <2>1, <2>2, AckKept DEF Ends, Goes, Resting, TypeOK
    <2>3. CASE /\ alerts' = [alerts EXCEPT ![call[c].alert].ack = TRUE]
               /\ Goes(c, OnAlert("ackLog", call[c].alert, TRUE))
      <3>1. /\ alerts'[call[c].alert].ack
            /\ \A a \in Alerts : alerts[a].ack => alerts'[a].ack
        BY <2>1, <2>3 DEF TypeOK
      <3>2. Else(c) /\ call'[c].alert = call[c].alert
        BY <2>3 DEF Goes, OnAlert, Else, TypeOK
      <3> QED
        BY <2>1, <3>1, <3>2, AckKept DEF Else
    <2> QED
      BY <1>1, <2>2, <2>3 DEF AckSet
  <1>2. ASSUME NEW c \in Calls, acks' = [acks EXCEPT ![call[c].alert] = @ + 1],
               call[c].pc = "ackLog", Ends(c), UNCHANGED alerts
        PROVE  AckInv'
    <2>1. alerts[call[c].alert].ack
      BY <1>2 DEF AckInv
    <2>2. \A a \in Alerts : a # call[c].alert => acks'[a] = acks[a]
      BY <1>2 DEF TypeOK
    <2>3. \A d \in Calls : call'[d].pc = "ackLog" => call'[d] = call[d]
      BY <1>2 DEF Ends, Goes, Resting, TypeOK
    <2> QED
      BY <1>2, <2>1, <2>2, <2>3 DEF AckInv
  <1>3. ASSUME NEW c \in Calls, Log(c) \/ Save(c)
        PROVE  AckInv'
    BY <1>3, AckKept DEF Log, Save, Ends, Goes, Resting, TypeOK, desk
  <1>4. ASSUME NEW c \in Calls,
               \/ \E a \in Alerts : Acknowledge(c, a) \/ Suppress(c, a)
               \/ (\E v \in Contents : SaveSettings(c, v)) \/ Look(c)
        PROVE  AckInv'
    <2>1. acks' = acks /\ alerts' = alerts
      BY <1>4 DEF Acknowledge, Suppress, Begin, SaveSettings, Look, desk
    <2>2. \E v : Goes(c, v) /\ v.pc # "ackLog"
      <3>1. ASSUME NEW a \in Alerts, Acknowledge(c, a) \/ Suppress(c, a)
            PROVE  Goes(c, OnAlert("ack", a, TRUE)) \/ Goes(c, OnAlert("read", a, TRUE))
        BY <3>1 DEF Acknowledge, Suppress, Begin
      <3>2. \A v \in Contents : SaveSettings(c, v) => Goes(c, OnSettings("look", v, 0))
        BY DEF SaveSettings
      <3>3. Look(c) => \E i : Goes(c, OnSettings("save", call[c].content, i))
        BY DEF Look
      <3>4. /\ \A a, f : OnAlert("ack", a, f).pc # "ackLog" /\ OnAlert("read", a, f).pc # "ackLog"
            /\ \A v, i : /\ OnSettings("look", v, i).pc # "ackLog"
                        /\ OnSettings("save", v, i).pc # "ackLog"
        BY DEF OnAlert, OnSettings
      <3> HIDE DEF OnAlert, OnSettings
      <3> QED
        BY <1>4, <3>1, <3>2, <3>3, <3>4
    <2>3. Else(c) /\ call'[c].pc # "ackLog"
      BY <2>2 DEF Goes, Else, TypeOK
    <2> QED
      BY <2>1, <2>3, AckKept DEF Else
  <1>5. ASSUME NEW c \in Calls, ReadFlag(c)
        PROVE  AckInv'
    <2>1. acks' = acks /\ alerts' = alerts
      BY <1>5 DEF ReadFlag, desk
    <2>2. \/ Goes(c, Resting)
          \/ Goes(c, OnAlert("flip", call[c].alert, ~alerts[call[c].alert].suppressed))
      BY <1>5 DEF ReadFlag, Ends
    <2>3. Else(c) /\ call'[c].pc # "ackLog"
      BY <2>2 DEF Goes, Resting, OnAlert, Else, TypeOK
    <2> QED
      BY <2>1, <2>3, AckKept DEF Else
  <1>6. ASSUME NEW c \in Calls, Flip(c)
        PROVE  AckInv'
    <2>1. \A a \in Alerts : alerts'[a].ack = alerts[a].ack
      BY <1>6 DEF Flip, Flipped, TypeOK
    <2>2. call[c] \in [pc : {"ack", "ackLog", "read", "flip", "log"}, alert : Alerts,
                       flag : BOOLEAN]
      BY <1>6, MadeResting DEF Flip, TypeOK, CallType
    <2>3. Else(c) /\ call'[c].pc = "log"
      BY <1>6, <2>2 DEF Flip, Goes, Else, TypeOK
    <2> QED
      BY <1>6, <2>1, <2>3, AckKept DEF Flip, desk, Else
  <1>7. ASSUME NEW c \in Calls, RequestFault(c)
        PROVE  AckInv'
    <2>1. \A d \in Calls : call'[d].pc = "ackLog" => call'[d] = call[d]
      BY <1>7 DEF RequestFault, Ends, Goes, Resting, TypeOK
    <2>2. CASE UNCHANGED <<alerts, acks>>
      BY <2>1, <2>2, AckKept
    <2>3. CASE call[c].pc = "ackLog" /\ acks' = [acks EXCEPT ![call[c].alert] = @ + 1]
               /\ UNCHANGED alerts
      BY <1>2, <1>7, <2>3 DEF RequestFault
    <2>4. CASE alerts' = [alerts EXCEPT ![call[c].alert].ack = TRUE] /\ UNCHANGED acks
      <3>1. \A a \in Alerts : alerts[a].ack => alerts'[a].ack
        BY <2>4 DEF TypeOK
      <3> QED
        BY <2>1, <2>4, <3>1, AckKept
    <2>5. CASE alerts' = Flipped(c) /\ UNCHANGED acks
      <3>1. \A a \in Alerts : alerts[a].ack => alerts'[a].ack
        BY <2>5 DEF Flipped, TypeOK
      <3> QED
        BY <2>1, <2>5, <3>1, AckKept
    <2> QED
      BY <1>7, <2>2, <2>3, <2>4, <2>5 DEF RequestFault
  <1>8. CASE Restart
    BY <1>8, AckKept DEF Restart, Resting
  <1>9. CASE UNCHANGED <<acks, call>> /\ \A a \in Alerts : alerts'[a].ack = alerts[a].ack
    BY <1>9, AckKept
  <1> QED
    BY <1>1, <1>2, <1>3, <1>4, <1>5, <1>6, <1>7, <1>8, <1>9, StillFlags DEF Next, AckLog

LEMMA HistStep ==
  TypeOK /\ HistInv /\ [Next]_vars => HistInv'
  <1> SUFFICES ASSUME TypeOK, HistInv, [Next]_vars
               PROVE  HistInv'
    OBVIOUS
  <1>1. AckInv'
    BY AckStep DEF HistInv
  <1>2. ASSUME NEW a \in Alerts, a \notin torn'
        PROVE  Told(a)'
    <2>1. ASSUME NEW c \in Calls, \E b \in Alerts : Suppress(c, b)
          PROVE  Told(a)'
      BY <1>2, <2>1, SuppressTold
    <2>2. ASSUME NEW c \in Calls,
                 ReadFlag(c) \/ Flip(c) \/ Log(c) \/ RequestFault(c)
          PROVE  Told(a)'
      BY <1>2, <2>2, FlagTold, LogTold, FaultTold
    <2>3. ASSUME NEW c \in Calls,
                 \/ \E b \in Alerts : Acknowledge(c, b)
                 \/ AckSet(c) \/ AckLog(c)
                 \/ (\E v \in Contents : SaveSettings(c, v)) \/ Look(c) \/ Save(c)
          PROVE  Told(a)'
      BY <1>2, <2>3, QuietSteps, QuietTold
    <2>4. CASE Restart
      BY <1>2, <2>4, RestartTold
    <2>5. CASE /\ UNCHANGED <<toggles, acks, torn, call>>
               /\ \A b \in Alerts : alerts'[b].suppressed = alerts[b].suppressed
      <3>1. a \notin torn /\ Told(a)
        BY <1>2, <2>5 DEF HistInv
      <3> QED
        BY <2>5, <3>1, ToldKept
    <2> QED
      BY <2>1, <2>2, <2>3, <2>4, <2>5, StillFlags DEF Next
  <1> QED
    BY <1>1, <1>2 DEF HistInv

LEMMA HistInit ==
  Init => HistInv
  <1> SUFFICES ASSUME Init
               PROVE  HistInv
    OBVIOUS
  <1>1. \A c \in Calls : call[c].pc = "rest"
    BY DEF Init, Resting
  <1>2. \A a \in Alerts : toggles[a] = <<>> /\ acks[a] = 0 /\ ~alerts[a].suppressed
    BY DEF Init, NewRow
  <1>3. Len(<<>>) = 0
    OBVIOUS
  <1>4. ASSUME NEW a \in Alerts
        PROVE  Told(a)
    BY <1>1, <1>2, <1>3 DEF Told, Alternates, SaysSuppressed, At, Toggles, Toggling
  <1> QED
    BY <1>1, <1>2, <1>4 DEF HistInv, AckInv

-----------------------------------------------------------------------------
(* The mails.                                                              *)

\* An alert that is about to be mailed has not been mailed; one that has been
\* is marked, or just about to be.
MailOf(a) ==
  /\ mails[a] <= 1
  /\ notice[a].pc \in {"settings", "users", "optIns", "mail"} => mails[a] = 0
  /\ mails[a] # 0 => alerts[a].notified \/ notice[a].pc = "mark"

MailInv == \A a \in Alerts \ unmarked : MailOf(a)

LEMMA MailKept ==
  ASSUME NEW a \in Alerts, MailOf(a), mails'[a] = mails[a],
         alerts[a].notified => alerts'[a].notified,
         \/ notice'[a] = notice[a]
         \/ notice[a].pc # "mark" /\ notice'[a].pc \in {"rest", "check", "done", "failed"}
  PROVE  MailOf(a)'
  BY DEF MailOf

\* An alert whose flag is set stays marked, whatever else happens to its row.
LEMMA MarksStay ==
  ASSUME TypeOK, [Next]_vars, NEW a \in Alerts, alerts[a].notified
  PROVE  alerts'[a].notified
  <1>1. \/ UNCHANGED alerts
        \/ \E b \in Alerts :
             \/ alerts' = [alerts EXCEPT ![b].there = TRUE]
             \/ alerts' = [alerts EXCEPT ![b].notified = TRUE]
        \/ \E c \in Calls :
             \/ alerts' = [alerts EXCEPT ![call[c].alert].ack = TRUE]
             \/ alerts' = Flipped(c)
    <2>1. ASSUME NEW c \in Calls,
                 AckSet(c) \/ ReadFlag(c) \/ Flip(c) \/ RequestFault(c)
          PROVE  \/ UNCHANGED alerts
                 \/ alerts' = [alerts EXCEPT ![call[c].alert].ack = TRUE]
                 \/ alerts' = Flipped(c)
      <3>1. AckSet(c) => \/ UNCHANGED alerts
                         \/ alerts' = [alerts EXCEPT ![call[c].alert].ack = TRUE]
        BY DEF AckSet
      <3> QED
        BY <2>1, <3>1 DEF ReadFlag, Flip, RequestFault
    <2>2. ASSUME NEW b \in Alerts, Insert(b) \/ Mark(b) \/ NoticeFault(b)
          PROVE  \/ UNCHANGED alerts
                 \/ alerts' = [alerts EXCEPT ![b].there = TRUE]
                 \/ alerts' = [alerts EXCEPT ![b].notified = TRUE]
      BY <2>2 DEF Insert, Mark, NoticeFault
    <2>3. ASSUME NEW c \in Calls,
                 \/ \E b \in Alerts : Acknowledge(c, b) \/ Suppress(c, b)
                 \/ AckLog(c) \/ Log(c)
                 \/ (\E v \in Contents : SaveSettings(c, v)) \/ Look(c) \/ Save(c)
          PROVE  UNCHANGED alerts
      BY <2>3 DEF Acknowledge, Suppress, Begin, AckLog, Log, SaveSettings, Look, Save
    <2>4. ASSUME NEW b \in Alerts,
                 \/ \E s \in Levels : Notify(b, s)
                 \/ Check(b) \/ ReadSettings(b) \/ ReadUsers(b) \/ ReadOptIns(b) \/ Mail(b)
          PROVE  UNCHANGED alerts
      BY <2>4 DEF Notify, Check, ReadSettings, ReadUsers, ReadOptIns, Mail, Calm
    <2>5. ASSUME \/ UNCHANGED vars \/ Restart
                 \/ \E p \in People : ChangeAccount(p) \/ \E v \in Prefs : SavePrefs(p, v)
          PROVE  UNCHANGED alerts
      BY <2>5 DEF vars, Restart, ChangeAccount, SavePrefs
    <2> QED
      BY <2>1, <2>2, <2>3, <2>4, <2>5 DEF Next
  <1>2. ASSUME NEW b \in Alerts, alerts' = [alerts EXCEPT ![b].there = TRUE]
        PROVE  alerts'[a].notified
    BY <1>2 DEF TypeOK
  <1>3. ASSUME NEW b \in Alerts, alerts' = [alerts EXCEPT ![b].notified = TRUE]
        PROVE  alerts'[a].notified
    BY <1>3 DEF TypeOK
  <1>4. ASSUME NEW c \in Calls, alerts' = [alerts EXCEPT ![call[c].alert].ack = TRUE]
        PROVE  alerts'[a].notified
    BY <1>4 DEF TypeOK
  <1>5. ASSUME NEW c \in Calls, alerts' = Flipped(c)
        PROVE  alerts'[a].notified
    BY <1>5 DEF Flipped, TypeOK
  <1> QED
    BY <1>1, <1>2, <1>3, <1>4, <1>5

LEMMA PcMoves ==
  ASSUME TypeOK, NEW a \in Alerts,
         NEW q \in {"rest", "check", "settings", "users", "optIns", "mail", "mark",
                    "done", "failed"},
         Says(a, [notice[a] EXCEPT !.pc = q])
  PROVE  notice'[a].pc = q /\ notice'[a].to = notice[a].to
  <1> DEFINE n == [notice[a] EXCEPT !.pc = q]
  <1>1. n \in NoticeType /\ n.pc = q /\ n.to = notice[a].to
    BY SamePeople, Zenon
  <1>2. Says(a, n)
    OBVIOUS
  <1> HIDE DEF n
  <1> QED
    BY <1>1, <1>2, NoticeMoves

\* The steps of notifyAlert, by where they lead.
LEMMA NoticeLeads ==
  ASSUME TypeOK, NEW a \in Alerts,
         \/ Check(a) \/ ReadSettings(a) \/ ReadUsers(a) \/ ReadOptIns(a)
         \/ Mail(a) \/ Mark(a) \/ NoticeFault(a) \/ \E s \in Levels : Notify(a, s)
  PROVE  /\ \A b \in Alerts : b # a => notice'[b] = notice[b] /\ mails'[b] = mails[b]
         /\ \A s \in Levels : Notify(a, s) =>
              notice[a].pc = "rest" /\ notice'[a].pc = "check" /\ UNCHANGED <<mails, unmarked>>
         /\ Check(a) => /\ notice[a].pc = "check" /\ UNCHANGED <<mails, unmarked>>
                        /\ notice'[a].pc = IF alerts[a].notified THEN "done" ELSE "settings"
         /\ ReadSettings(a) =>
              /\ notice[a].pc = "settings" /\ UNCHANGED <<mails, unmarked>>
              /\ notice'[a].pc \in {"done", "users", "optIns"}
         /\ ReadUsers(a) =>
              /\ notice[a].pc = "users" /\ UNCHANGED <<mails, unmarked>>
              /\ notice'[a].pc = "optIns"
         /\ ReadOptIns(a) =>
              /\ notice[a].pc = "optIns" /\ UNCHANGED <<mails, unmarked>>
              /\ notice'[a].pc \in {"done", "mail"}
  <1> DEFINE Step == \E n : Says(a, n)
  <1>1. Step /\ (mails' = mails \/ mails' = [mails EXCEPT ![a] = @ + 1])
    BY DEF Check, ReadSettings, ReadUsers, ReadOptIns, Mail, Mark, NoticeFault, Notify, Calm
  <1>2. \A b \in Alerts : b # a => notice'[b] = notice[b] /\ mails'[b] = mails[b]
    BY <1>1 DEF Says, TypeOK
  <1>3. ASSUME NEW n, Says(a, n)
        PROVE  notice'[a] = n
    BY <1>3 DEF Says, TypeOK
  <1>4. \A s \in Levels : Notify(a, s) =>
          notice[a].pc = "rest" /\ notice'[a].pc = "check" /\ UNCHANGED <<mails, unmarked>>
    BY <1>3 DEF Notify, Noticing
  <1>5. Check(a) => /\ notice[a].pc = "check" /\ UNCHANGED <<mails, unmarked>>
                    /\ notice'[a].pc = IF alerts[a].notified THEN "done" ELSE "settings"
    <2> DEFINE q == IF alerts[a].notified THEN "done" ELSE "settings"
    <2>1. LET n == [notice[a] EXCEPT !.pc = q] IN n.pc = q
      BY SamePeople
    <2>2. Check(a) => /\ notice[a].pc = "check" /\ UNCHANGED <<mails, unmarked>>
                      /\ Says(a, [notice[a] EXCEPT !.pc = q])
      BY DEF Check, Calm
    <2> HIDE DEF q
    <2>3. Check(a) => /\ notice[a].pc = "check" /\ UNCHANGED <<mails, unmarked>>
                      /\ notice'[a].pc = q
      BY <1>3, <2>1, <2>2
    <2> QED
      BY <2>3 DEF q
  <1>6. ReadUsers(a) => /\ notice[a].pc = "users" /\ UNCHANGED <<mails, unmarked>>
                        /\ notice'[a].pc = "optIns"
    BY <1>3 DEF ReadUsers, Calm, Noticing
  <1>7. ReadOptIns(a) => /\ notice[a].pc = "optIns" /\ UNCHANGED <<mails, unmarked>>
                         /\ notice'[a].pc \in {"done", "mail"}
    BY <1>3 DEF ReadOptIns, Calm, Noticing
  <1>8. ASSUME ReadSettings(a)
        PROVE  /\ notice[a].pc = "settings" /\ UNCHANGED <<mails, unmarked>>
               /\ notice'[a].pc \in {"done", "users", "optIns"}
    <2>1. CASE Says(a, [notice[a] EXCEPT !.pc = "done"])
      <3>1. [notice[a] EXCEPT !.pc = "done"].pc = "done"
        BY SamePeople
      <3>2. \E n : Says(a, n) /\ n.pc = "done"
        BY <2>1, <3>1
      <3> QED
        BY <1>3, <1>8, <3>2 DEF ReadSettings, Calm
    <2>2. CASE \E v : Says(a, Noticing(IF v.users = {} THEN "optIns" ELSE "users",
                                        notice[a].sev, v.users, v.to))
      <3>1. \E n : Says(a, n) /\ n.pc \in {"users", "optIns"}
        BY <2>2 DEF Noticing
      <3> QED
        BY <1>3, <1>8, <3>1 DEF ReadSettings, Calm
    <2> QED
      BY <1>8, <2>1, <2>2 DEF ReadSettings
  <1> QED
    BY <1>2, <1>4, <1>5, <1>6, <1>7, <1>8

LEMMA MailStep ==
  TypeOK /\ MailInv /\ [Next]_vars => MailInv'
  <1> SUFFICES ASSUME TypeOK, MailInv, [Next]_vars, NEW a \in Alerts, a \notin unmarked'
               PROVE  MailOf(a)'
    BY DEF MailInv
  <1>1. unmarked \subseteq unmarked'
    BY DEF Next, vars, mail, Acknowledge, Suppress, Begin, AckSet, AckLog, ReadFlag, Flip, Log,
           SaveSettings, Look, Save, RequestFault, ChangeAccount, SavePrefs, Insert, Notify,
           Check, ReadSettings, ReadUsers, ReadOptIns, Mail, Mark, NoticeFault, Restart, Calm
  <1>2. MailOf(a) /\ (alerts[a].notified => alerts'[a].notified)
    BY <1>1, MarksStay DEF MailInv
  <1>3. mails[a] \in Nat
    BY DEF TypeOK
  <1>4. CASE mails'[a] = mails[a] /\ notice'[a] = notice[a]
    BY <1>2, <1>4, MailKept
  <1>5. ASSUME NEW b \in Alerts,
               \/ Check(b) \/ ReadSettings(b) \/ ReadUsers(b) \/ ReadOptIns(b)
               \/ \E s \in Levels : Notify(b, s)
        PROVE  MailOf(a)'
    <2>1. CASE a # b
      BY <1>4, <1>5, <2>1, NoticeLeads
    <2>2. CASE a = b
      <3>1. mails' = mails
        BY <1>5, NoticeLeads
      <3>2. CASE Check(a)
        BY <1>2, <3>1, <3>2, NoticeLeads DEF MailOf
      <3>3. CASE \E s \in Levels : Notify(a, s)
        BY <1>2, <3>1, <3>3, NoticeLeads, MailKept
      <3>4. CASE ReadSettings(a) \/ ReadUsers(a) \/ ReadOptIns(a)
        BY <1>2, <3>1, <3>4, NoticeLeads DEF MailOf
      <3> QED
        BY <1>5, <2>2, <3>2, <3>3, <3>4
    <2> QED
      BY <2>1, <2>2
  <1>6. ASSUME NEW b \in Alerts, Mail(b) \/ Mark(b) \/ NoticeFault(b)
        PROVE  MailOf(a)'
    <2>1. CASE a # b
      BY <1>4, <1>6, <2>1, NoticeLeads
    <2>2. CASE a = b /\ Mail(b)
      <3>1. mails'[a] = mails[a] + 1 /\ notice[a].pc = "mail"
        BY <2>2 DEF Mail, TypeOK
      <3>2. notice'[a].pc = "mark"
        BY <2>2, PcMoves DEF Mail
      <3> QED
        BY <1>2, <3>1, <3>2 DEF MailOf
    <2>3. CASE a = b /\ Mark(b)
      <3>1. mails' = mails /\ alerts'[a].notified
        BY <2>3 DEF Mark, TypeOK
      <3>2. notice'[a].pc = "done"
        BY <2>3, PcMoves DEF Mark
      <3> QED
        BY <1>2, <3>1, <3>2 DEF MailOf
    <2>4. CASE a = b /\ NoticeFault(b)
      <3>1. notice'[a].pc = "failed"
        BY <2>4, PcMoves DEF NoticeFault
      <3>2. CASE notice[a].pc = "mark"
        <4>1. alerts'[a].notified /\ mails' = mails
          BY <2>4, <3>2 DEF NoticeFault, TypeOK
        <4> QED
          BY <1>2, <3>1, <4>1 DEF MailOf
      <3>3. CASE notice[a].pc # "mark"
        <4>1. mails' = mails
          BY <2>4, <3>3 DEF NoticeFault
        <4> QED
          BY <1>2, <3>1, <3>3, <4>1, MailKept
      <3> QED
        BY <3>2, <3>3
    <2> QED
      BY <1>6, <2>1, <2>2, <2>3, <2>4
  <1>7. CASE Restart
    <2>1. notice[a].pc # "mark" /\ mails' = mails /\ notice'[a].pc = "rest"
      BY <1>7 DEF Restart, Unnoticed, Noticing
    <2> QED
      BY <1>2, <2>1, MailKept
  <1>8. CASE UNCHANGED mail
    BY <1>4, <1>8 DEF mail
  <1> QED
    BY <1>5, <1>6, <1>7, <1>8
       DEF Next, vars, Acknowledge, Suppress, Begin, AckSet, AckLog, ReadFlag, Flip, Log,
           SaveSettings, Look, Save, RequestFault, ChangeAccount, SavePrefs, Insert

-----------------------------------------------------------------------------
(* The settings.                                                           *)

Saver(c) == call[c].pc \in {"look", "save"}

\* Saves that have not overlapped are under way one at a time; one that is to
\* insert has found no row.
RowInv ==
  crowded \/ /\ Len(settings) <= 1
             /\ \A c, d \in Calls : Saver(c) /\ Saver(d) => c = d
             /\ \A c \in Calls : call[c].pc = "save" /\ call[c].row = 0 => settings = <<>>

\* Nothing but the end of a save happens to the savers.
LEMMA RowKept ==
  ASSUME RowInv, UNCHANGED <<settings, crowded>>,
         \A c \in Calls : call'[c] = call[c] \/ ~Saver(c)'
  PROVE  RowInv'
  BY DEF RowInv, Saver

LEMMA RowStep ==
  TypeOK /\ RowInv /\ [Next]_vars => RowInv'
  <1> SUFFICES ASSUME TypeOK, RowInv, [Next]_vars
               PROVE  RowInv'
    OBVIOUS
  <1>1. settings \in Seq(Contents) /\ Len(settings) \in Nat
    BY DEF TypeOK
  <1>2. ASSUME NEW c \in Calls, settings' = Saved(c), call[c].pc = "save", Ends(c),
               crowded' = crowded
        PROVE  RowInv'
    <2>1. Else(c) /\ ~Saver(c)'
      BY <1>2 DEF Ends, Goes, Resting, Else, Saver, TypeOK
    <2>2. SUFFICES ASSUME ~crowded
                   PROVE  RowInv'
      BY <1>2 DEF RowInv
    <2>3. \A d \in Calls : ~Saver(d)'
      BY <1>2, <2>1, <2>2 DEF RowInv, Saver, Else
    <2>4. Len(settings') <= 1
      <3>1. CASE call[c].row = 0
        <4>1. settings = <<>> /\ Len(settings) = 0
          BY <1>2, <2>2, <3>1 DEF RowInv
        <4>2. settings' = Append(settings, call[c].content)
          BY <1>2, <3>1 DEF Saved
        <4>3. call[c].content \in Contents
          BY <1>2, CallFields
        <4> QED
          BY <1>1, <4>1, <4>2, <4>3
      <3>2. CASE call[c].row # 0
        <4>1. settings' = [settings EXCEPT ![call[c].row] = call[c].content]
          BY <1>2, <3>2 DEF Saved
        <4>2. Len(settings') = Len(settings)
          BY <1>1, <4>1
        <4> QED
          BY <2>2, <4>2 DEF RowInv
      <3> QED
        BY <3>1, <3>2
    <2> QED
      BY <2>3, <2>4 DEF RowInv, Saver
  <1>3. ASSUME NEW c \in Calls, NEW v \in Contents, SaveSettings(c, v)
        PROVE  RowInv'
    <2>1. Else(c) /\ call'[c].pc = "look" /\ settings' = settings
      BY <1>3 DEF SaveSettings, Goes, OnSettings, Else, TypeOK
    <2>2. CASE \E d \in Calls : Saver(d)
      BY <1>3, <2>2 DEF SaveSettings, RowInv, Saver
    <2>3. CASE \A d \in Calls : ~Saver(d)
      BY <1>3, <2>1, <2>3 DEF SaveSettings, RowInv, Saver, Else
    <2> QED
      BY <2>2, <2>3
  <1>4. ASSUME NEW c \in Calls, Look(c)
        PROVE  RowInv'
    <2>1. PICK i \in IF settings = <<>> THEN {0} ELSE DOMAIN settings :
            Goes(c, OnSettings("save", call[c].content, i))
      BY <1>4 DEF Look
    <2>2. Else(c) /\ call'[c].pc = "save" /\ call'[c].row = i
      BY <2>1 DEF Goes, OnSettings, Else, TypeOK
    <2>3. i = 0 => settings = <<>>
      BY <1>1, <2>1
    <2>4. UNCHANGED <<settings, crowded>> /\ call[c].pc = "look"
      BY <1>4 DEF Look, admin
    <2>5. Saver(c)
      BY <2>4 DEF Saver
    <2> QED
      BY <2>2, <2>3, <2>4, <2>5 DEF RowInv, Saver, Else
  <1>5. ASSUME NEW c \in Calls, UNCHANGED <<settings, crowded>>, Else(c), ~Saver(c)'
        PROVE  RowInv'
    BY <1>5, RowKept DEF Else
  <1>6. ASSUME NEW c \in Calls, NEW a \in Alerts, Acknowledge(c, a) \/ Suppress(c, a)
        PROVE  RowInv'
    <2>1. Goes(c, OnAlert("ack", a, TRUE)) \/ Goes(c, OnAlert("read", a, TRUE))
      BY <1>6 DEF Acknowledge, Suppress, Begin
    <2>2. Else(c) /\ ~Saver(c)'
      BY <2>1 DEF Goes, OnAlert, Else, Saver, TypeOK
    <2> QED
      BY <1>5, <1>6, <2>2 DEF Acknowledge, Suppress, Begin, admin
  <1>7. ASSUME NEW c \in Calls, AckSet(c) \/ ReadFlag(c)
        PROVE  RowInv'
    <2>1. UNCHANGED <<settings, crowded>>
      BY <1>7 DEF AckSet, ReadFlag, admin
    <2>2. \/ Ends(c) \/ Goes(c, OnAlert("ackLog", call[c].alert, TRUE))
          \/ Goes(c, OnAlert("flip", call[c].alert, ~alerts[call[c].alert].suppressed))
      BY <1>7 DEF AckSet, ReadFlag
    <2>3. Else(c) /\ ~Saver(c)'
      BY <2>2 DEF Ends, Goes, Resting, OnAlert, Else, Saver, TypeOK
    <2> QED
      BY <1>5, <2>1, <2>3
  <1>8. ASSUME NEW c \in Calls, Flip(c)
        PROVE  RowInv'
    <2>1. call[c] \in [pc : {"ack", "ackLog", "read", "flip", "log"}, alert : Alerts,
                       flag : BOOLEAN]
      BY <1>8, MadeResting DEF Flip, TypeOK, CallType
    <2>2. Else(c) /\ ~Saver(c)'
      BY <1>8, <2>1 DEF Flip, Goes, Else, Saver, TypeOK
    <2> QED
      BY <1>5, <1>8, <2>2 DEF Flip, admin
  <1>9. ASSUME NEW c \in Calls, Ends(c), UNCHANGED <<settings, crowded>>
        PROVE  RowInv'
    <2>1. Else(c) /\ ~Saver(c)'
      BY <1>9 DEF Ends, Goes, Resting, Else, Saver, TypeOK
    <2> QED
      BY <1>5, <1>9, <2>1
  <1>10. ASSUME NEW c \in Calls, AckLog(c) \/ Log(c) \/ Save(c) \/ RequestFault(c)
         PROVE  RowInv'
    BY <1>2, <1>9, <1>10 DEF AckLog, Log, Save, RequestFault, admin
  <1>11. CASE Restart
    BY <1>11, RowKept DEF Restart, Resting, Saver
  <1>12. CASE UNCHANGED <<settings, crowded, call>>
    BY <1>12, RowKept
  <1> QED
    BY <1>3, <1>4, <1>6, <1>7, <1>8, <1>10, <1>11, <1>12
       DEF Next, vars, admin, ChangeAccount, SavePrefs, Insert, Notify, Check, ReadSettings,
           ReadUsers, ReadOptIns, Mail, Mark, NoticeFault, Calm

-----------------------------------------------------------------------------
(* The recipients.                                                         *)

\* What a notice has gathered so far, if there is one row of settings and
\* nothing has changed.
Gathered(a) ==
  /\ Len(settings) = 1 /\ settings[1].on /\ notice[a].sev >= settings[1].min
  /\ notice[a].pc = "users" =>
       notice[a].to = settings[1].to /\ notice[a].users = settings[1].users
  /\ notice[a].pc = "optIns" =>
       notice[a].to = settings[1].to \cup (settings[1].users \cap active)

PeopleOf(a) ==
  /\ notice[a].pc \in {"check", "settings"} => notice[a].to = {}
  /\ a \notin stirred /\ Len(settings) <= 1 /\ notice[a].pc \in {"users", "optIns"} => Gathered(a)

PeopleInv == \A a \in Alerts : PeopleOf(a)

\* The facts of the settings that the steps of a notice rely on.
LEMMA OneRow ==
  ASSUME TypeOK, Len(settings) <= 1
  PROVE  /\ settings = <<>> \/ Len(settings) = 1
         /\ \A i \in DOMAIN settings : i = 1 /\ Len(settings) = 1
         /\ Len(settings) = 1 => 1 \in DOMAIN settings /\ settings[1] \in Content
  <1>1. settings \in Seq(Contents) /\ Len(settings) \in Nat
    BY DEF TypeOK
  <1>2. Len(settings) = 0 => settings = <<>>
    BY <1>1
  <1>3. DOMAIN settings = 1..Len(settings)
    BY <1>1
  <1>4. Len(settings) = 1 => settings[1] \in Content
    BY <1>1, DeskAssumption
  <1> QED
    BY <1>1, <1>2, <1>3, <1>4

LEMMA SettingsStep ==
  ASSUME TypeOK, PeopleInv, NEW a \in Alerts, ReadSettings(a)
  PROVE  /\ PeopleOf(a)'
         /\ Len(settings) <= 1 /\ notice'[a].pc = "done" => notice'[a].to = Due(notice[a].sev)
  <1>1. notice[a].to = {} /\ UNCHANGED <<settings, active, stirred>>
    BY DEF ReadSettings, Calm, admin, PeopleInv, PeopleOf
  <1>2. CASE Says(a, [notice[a] EXCEPT !.pc = "done"])
             /\ (Len(settings) <= 1 => Due(notice[a].sev) = {})
    <2>1. notice'[a].pc = "done" /\ notice'[a].to = {}
      BY <1>1, <1>2, PcMoves
    <2> QED
      BY <1>2, <2>1 DEF PeopleOf
  <1>3. ASSUME NEW i \in DOMAIN settings, settings[i].on, notice[a].sev >= settings[i].min,
               Says(a, Noticing(IF settings[i].users = {} THEN "optIns" ELSE "users",
                                notice[a].sev, settings[i].users, settings[i].to))
        PROVE  /\ PeopleOf(a)'
               /\ notice'[a].pc # "done"
    <2>1. /\ notice'[a].pc = IF settings[i].users = {} THEN "optIns" ELSE "users"
          /\ notice'[a].sev = notice[a].sev
          /\ notice'[a].users = settings[i].users /\ notice'[a].to = settings[i].to
      BY <1>3 DEF Says, Noticing, TypeOK
    <2>2. Len(settings) <= 1 => i = 1 /\ Len(settings) = 1
      BY OneRow
    <2>3. settings[i].users = {} => settings[i].to = settings[i].to \cup (settings[i].users \cap active)
      OBVIOUS
    <2> QED
      BY <1>1, <1>3, <2>1, <2>2, <2>3 DEF PeopleOf, Gathered
  <1>4. CASE settings = <<>> /\ Says(a, [notice[a] EXCEPT !.pc = "done"])
    <2>1. DOMAIN settings = {}
      BY <1>4
    <2> QED
      BY <1>2, <1>4, <2>1 DEF Due
  <1>5. ASSUME NEW i \in DOMAIN settings, ~(settings[i].on /\ notice[a].sev >= settings[i].min),
               Says(a, [notice[a] EXCEPT !.pc = "done"])
        PROVE  /\ PeopleOf(a)'
               /\ Len(settings) <= 1 /\ notice'[a].pc = "done" => notice'[a].to = Due(notice[a].sev)
    <2>1. Len(settings) <= 1 => \A j \in DOMAIN settings : j = i
      BY OneRow
    <2>2. Len(settings) <= 1 => Due(notice[a].sev) = {}
      BY <1>5, <2>1 DEF Due
    <2> QED
      BY <1>2, <1>5, <2>2
  <1>6. \/ settings = <<>> /\ Says(a, [notice[a] EXCEPT !.pc = "done"])
        \/ \E i \in DOMAIN settings :
             \/ /\ ~(settings[i].on /\ notice[a].sev >= settings[i].min)
                /\ Says(a, [notice[a] EXCEPT !.pc = "done"])
             \/ /\ settings[i].on /\ notice[a].sev >= settings[i].min
                /\ Says(a, Noticing(IF settings[i].users = {} THEN "optIns" ELSE "users",
                                    notice[a].sev, settings[i].users, settings[i].to))
    BY DEF ReadSettings
  <1> QED
    BY <1>3, <1>4, <1>5, <1>6

LEMMA OptInsStep ==
  ASSUME TypeOK, PeopleInv, NEW a \in Alerts, ReadUsers(a) \/ ReadOptIns(a)
  PROVE  /\ PeopleOf(a)'
         /\ a \notin stirred /\ Len(settings) <= 1 /\ notice'[a].pc \in {"mail", "done"}
              => notice'[a].to = Due(notice[a].sev)
  <1>1. UNCHANGED <<settings, active, stirred>> /\ PeopleOf(a)
    BY DEF ReadUsers, ReadOptIns, Calm, admin, PeopleInv
  <1>2. CASE ReadUsers(a)
    <2>1. /\ notice[a].pc = "users" /\ notice'[a].pc = "optIns"
          /\ notice'[a].sev = notice[a].sev
          /\ notice'[a].to = notice[a].to \cup (notice[a].users \cap active)
      BY <1>2 DEF ReadUsers, Says, Noticing, TypeOK
    <2> QED
      BY <1>1, <2>1 DEF PeopleOf, Gathered
  <1>3. CASE ReadOptIns(a)
    <2> DEFINE s == notice[a].sev
               all == notice[a].to \cup OptedIn(s)
    <2>1. /\ notice[a].pc = "optIns" /\ notice'[a].to = all
          /\ notice'[a].pc = IF all = {} THEN "done" ELSE "mail"
      BY <1>3 DEF ReadOptIns, Says, Noticing, TypeOK
    <2>2. ASSUME a \notin stirred, Len(settings) <= 1
          PROVE  all = Due(s)
      <3>1. Gathered(a)
        BY <1>1, <2>1, <2>2 DEF PeopleOf
      <3>2. 1 \in DOMAIN settings /\ \A i \in DOMAIN settings : i = 1
        BY <2>2, <3>1, OneRow DEF Gathered
      <3>3. settings[1].to \subseteq People /\ active \subseteq People
        BY <2>2, <3>1, OneRow DEF Gathered, Content, TypeOK
      <3>4. all = settings[1].to \cup (settings[1].users \cap active) \cup OptedIn(s)
        BY <2>1, <3>1 DEF Gathered
      <3>5. settings[1].on /\ s >= settings[1].min
        BY <3>1 DEF Gathered
      <3> HIDE DEF all, s
      <3> QED
        BY <3>2, <3>3, <3>4, <3>5 DEF Due, OptedIn
    <2>3. notice'[a].pc \in {"done", "mail"}
      BY <2>1
    <2> QED
      BY <2>1, <2>2, <2>3 DEF PeopleOf
  <1> QED
    BY <1>2, <1>3

RightPeopleStep ==
  \A a \in Alerts \ stirred :
    notice[a].pc \in {"settings", "users", "optIns"}
      /\ notice'[a].pc \in {"mail", "done"} /\ Len(settings) <= 1
    => notice'[a].to = Due(notice[a].sev)

LEMMA PeopleStep ==
  TypeOK /\ PeopleInv /\ [Next]_vars => PeopleInv' /\ RightPeopleStep
  <1> SUFFICES ASSUME TypeOK, PeopleInv, [Next]_vars, NEW a \in Alerts
               PROVE  /\ PeopleOf(a)'
                      /\ a \notin stirred /\ notice[a].pc \in {"settings", "users", "optIns"}
                           /\ notice'[a].pc \in {"mail", "done"} /\ Len(settings) <= 1
                         => notice'[a].to = Due(notice[a].sev)
    BY DEF PeopleInv, RightPeopleStep
  <1> DEFINE Goal == /\ PeopleOf(a)'
                     /\ a \notin stirred /\ notice[a].pc \in {"settings", "users", "optIns"}
                           /\ notice'[a].pc \in {"mail", "done"} /\ Len(settings) <= 1
                         => notice'[a].to = Due(notice[a].sev)
  <1>1. PeopleOf(a)
    BY DEF PeopleInv
  <1>2. ASSUME notice'[a] = notice[a], Stir \/ UNCHANGED <<settings, active, stirred>>
        PROVE  Goal
    <2>1. PeopleOf(a)'
      BY <1>1, <1>2 DEF PeopleOf, Gathered, Stir
    <2> QED
      BY <1>2, <2>1
  <1>3. ASSUME NEW q \in {"settings", "done", "failed", "mark"}, UNCHANGED <<settings, active, stirred>>,
               Says(a, [notice[a] EXCEPT !.pc = q]),
               notice[a].pc \in {"settings", "users", "optIns"} => q = "failed",
               q = "settings" => notice[a].pc = "check"
        PROVE  Goal
    BY <1>1, <1>3, PcMoves DEF PeopleOf
  <1>4. ASSUME NEW b \in Alerts,
               Check(b) \/ Mail(b) \/ Mark(b) \/ NoticeFault(b)
        PROVE  Goal
    <2>1. UNCHANGED <<settings, active, stirred>>
      BY <1>4 DEF Check, Mail, Mark, NoticeFault, Calm, admin
    <2>2. CASE a # b
      <3>1. notice'[a] = notice[a]
        BY <1>4, <2>2, NoticeLeads
      <3> QED
        BY <1>2, <2>1, <3>1
    <2>3. CASE a = b
      <3>1. \/ Check(a) /\ notice[a].pc = "check"
               /\ (Says(a, [notice[a] EXCEPT !.pc = "done"])
                     \/ Says(a, [notice[a] EXCEPT !.pc = "settings"]))
            \/ notice[a].pc = "mail" /\ Says(a, [notice[a] EXCEPT !.pc = "mark"])
            \/ notice[a].pc = "mark" /\ Says(a, [notice[a] EXCEPT !.pc = "done"])
            \/ Says(a, [notice[a] EXCEPT !.pc = "failed"])
        BY <1>4, <2>3 DEF Check, Mail, Mark, NoticeFault
      <3> QED
        BY <1>3, <2>1, <3>1
    <2> QED
      BY <2>2, <2>3
  <1>5. ASSUME NEW b \in Alerts, ReadSettings(b) \/ ReadUsers(b) \/ ReadOptIns(b)
        PROVE  Goal
    <2>1. CASE a # b
      <3>1. notice'[a] = notice[a] /\ UNCHANGED <<settings, active, stirred>>
        BY <1>5, <2>1, NoticeLeads DEF ReadSettings, ReadUsers, ReadOptIns, Calm, admin
      <3> QED
        BY <1>2, <3>1
    <2>2. CASE a = b /\ ReadSettings(a)
      <3>1. notice'[a].pc # "mail"
        BY <2>2, NoticeLeads
      <3> QED
        BY <2>2, <3>1, SettingsStep
    <2>3. CASE a = b /\ (ReadUsers(a) \/ ReadOptIns(a))
      BY <2>3, OptInsStep
    <2> QED
      BY <1>5, <2>1, <2>2, <2>3
  <1>6. ASSUME NEW b \in Alerts, NEW s \in Levels, Notify(b, s)
        PROVE  Goal
    <2>1. CASE a = b
      <3>1. notice[a].pc = "rest" /\ notice'[a].pc = "check" /\ notice'[a].to = {}
        BY <1>6, <2>1 DEF Notify, Says, Noticing, TypeOK
      <3> QED
        BY <3>1 DEF PeopleOf
    <2>2. CASE a # b
      <3>1. notice'[a] = notice[a]
        BY <1>6, <2>2, NoticeLeads
      <3>2. UNCHANGED <<settings, active>> /\ (a \in stirred' <=> a \in stirred)
        BY <1>6, <2>2 DEF Notify
      <3>3. PeopleOf(a)'
        BY <1>1, <3>1, <3>2 DEF PeopleOf, Gathered
      <3> QED
        BY <3>1, <3>3
    <2> QED
      BY <2>1, <2>2
  <1>7. CASE Restart
    <2>1. notice'[a].pc = "rest"
      BY <1>7 DEF Restart, Unnoticed, Noticing
    <2> QED
      BY <2>1 DEF PeopleOf
  <1>8. ASSUME NEW c \in Calls, Save(c) \/ RequestFault(c)
        PROVE  Goal
    <2>1. notice' = notice /\ (Stir \/ UNCHANGED <<settings, active, stirred>>)
      BY <1>8 DEF Save, RequestFault, mail
    <2> QED
      BY <1>2, <2>1
  <1>9. ASSUME NEW p \in People, ChangeAccount(p) \/ \E v \in Prefs : SavePrefs(p, v)
        PROVE  Goal
    <2>1. notice' = notice /\ Stir
      BY <1>9 DEF ChangeAccount, SavePrefs, mail
    <2> QED
      BY <1>2, <2>1
  <1>10. CASE UNCHANGED <<notice, settings, active, stirred>>
    BY <1>2, <1>10
  <1> QED
    BY <1>4, <1>5, <1>6, <1>7, <1>8, <1>9, <1>10
       DEF Next, vars, mail, admin, Acknowledge, Suppress, Begin, AckSet, AckLog, ReadFlag,
           Flip, Log, SaveSettings, Look, Insert

-----------------------------------------------------------------------------
(* The theorems.                                                           *)

DeskInv == TypeOK /\ HistInv /\ MailInv /\ RowInv /\ PeopleInv

LEMMA InvInit ==
  Init => DeskInv
  <1> SUFFICES ASSUME Init
               PROVE  DeskInv
    OBVIOUS
  <1>1. TypeOK /\ HistInv
    BY InitType, HistInit
  <1>2. \A a \in Alerts : mails[a] = 0 /\ notice[a].pc = "rest"
    BY DEF Init, Unnoticed, Noticing
  <1>3. MailInv /\ PeopleInv
    BY <1>2 DEF MailInv, MailOf, PeopleInv, PeopleOf
  <1>4. settings = <<>> /\ Len(settings) = 0 /\ \A c \in Calls : call[c].pc = "rest"
    BY DEF Init, Resting
  <1>5. RowInv
    BY <1>4 DEF RowInv, Saver
  <1> QED
    BY <1>1, <1>3, <1>5 DEF DeskInv

LEMMA InvStep ==
  DeskInv /\ [Next]_vars => DeskInv' /\ RightPeopleStep
  BY TypeStep, HistStep, MailStep, RowStep, PeopleStep DEF DeskInv

\* The invariant implies what is claimed of every state.
LEMMA InvClaims ==
  DeskInv => HistoryTells /\ MailedOnce /\ OneSettings
  <1> SUFFICES ASSUME DeskInv
               PROVE  HistoryTells /\ MailedOnce /\ OneSettings
    OBVIOUS
  <1>1. ASSUME NEW a \in Alerts \ torn
        PROVE  LET t == toggles[a] IN
               /\ Len(t) > 0 => t[1] = "suppressed"
               /\ \A i \in 1..Len(t) : \A j \in 1..Len(t) : j = i + 1 => t[i] # t[j]
               /\ (\A c \in Calls : call[c].pc = "log" => call[c].alert # a) =>
                    (alerts[a].suppressed <=> Len(t) > 0 /\ t[Len(t)] = "suppressed")
               /\ acks[a] > 0 => alerts[a].ack
    BY <1>1 DEF DeskInv, HistInv, AckInv, Told, Alternates, SaysSuppressed, At
  <1>2. HistoryTells
    BY <1>1 DEF HistoryTells
  <1>3. MailedOnce
    BY DEF DeskInv, MailInv, MailOf, MailedOnce
  <1>4. OneSettings
    BY DEF DeskInv, RowInv, OneSettings
  <1> QED
    BY <1>2, <1>3, <1>4

\* In every state, whatever overlaps, fails or restarts, the history of an
\* alert tells what became of it, no alert is mailed a second time, and there
\* is one row of settings, with the provisos of these properties.
THEOREM DeskCorrect ==
  Spec => []TypeOK /\ []HistoryTells /\ []MailedOnce /\ []OneSettings
  <1>1. DeskInv /\ UNCHANGED vars => DeskInv'
    BY InvStep
  <1>2. DeskInv => TypeOK
    BY DEF DeskInv
  <1> QED
    BY <1>2, InvInit, InvStep, InvClaims, PTL DEF Spec

\* MailedOnce: no alert is mailed twice, over restarts and reused ids, unless it
\* was handed over and its mark was not set.
COROLLARY MailedOnceCorrect == Spec => []MailedOnce
  BY DeskCorrect, PTL

\* OneSettings: saves of the settings leave a single row, unless the first ones
\* overlapped.
COROLLARY OneSettingsCorrect == Spec => []OneSettings
  BY DeskCorrect, PTL

\* An alert is mailed to exactly those it is due to, if what that depends on
\* does not change while it is looked up in three tables.
THEOREM PeopleCorrect ==
  Spec => RightPeople
  <1>1. DeskInv /\ [Next]_vars => [RightPeopleStep]_vars
    BY InvStep
  <1>2. RightPeopleStep <=>
          \A a \in Alerts \ stirred :
            notice[a].pc \in {"settings", "users", "optIns"}
              /\ notice'[a].pc \in {"mail", "done"} /\ Len(settings) <= 1
            => notice'[a].to = Due(notice[a].sev)
    BY DEF RightPeopleStep
  <1> QED
    BY <1>1, <1>2, InvInit, InvStep, PTL DEF Spec, RightPeople

=============================================================================

---------------------------- MODULE AccountsProofs ----------------------------
(***************************************************************************)
(* Theorems about Accounts, for any identities, e-mails, states and calls, *)
(* any schema, and any number of users and failures.                       *)
(***************************************************************************)
EXTENDS Accounts, TLAPS

Rows == [email : Emails, there : BOOLEAN]
PCs  == {"rest", "fetch", "link", "known", "byEmail", "check", "insert", "created",
         "again", "addLink"}

-----------------------------------------------------------------------------
(* What becomes of the record of a call.                                   *)

\* Call c waits for q, as i, with e-mail e and user u; the others are as they
\* were.
Moved(c, q, i, e, u) ==
  /\ call' \in [Calls -> CallType]
  /\ \A d \in Calls : d # c => call'[d] = call[d]
  /\ call'[c].pc = q /\ call'[c].ident = i /\ call'[c].email = e /\ call'[c].user = u

LEMMA GoesFacts ==
  ASSUME TypeOK, NEW c \in Calls, NEW v \in CallType, Goes(c, v)
  PROVE  Moved(c, v.pc, v.ident, v.email, v.user)
  BY DEF Goes, TypeOK, Moved

LEMMA CallFacts ==
  ASSUME TypeOK, NEW c \in Calls
  PROVE  /\ call[c] \in CallType /\ call[c].pc \in PCs
         /\ call[c].ident \in Identities \cup {Nobody}
         /\ call[c].email \in Emails \cup {Nobody} /\ call[c].user \in 0..MaxUsers
         /\ call[c].pc # "rest" => call[c].email \in Emails
         /\ call[c].pc \in {"known", "created", "again", "addLink"} => call[c].user \in Ids
         /\ call[c].pc \in {"fetch", "link", "known", "byEmail", "again", "addLink"} =>
              call[c].ident \in Identities
  <1>1. call[c] \in CallType
    BY DEF TypeOK
  <1> QED
    BY <1>1 DEF TypeOK, CallType, PCs

LEMMA IdFacts ==
  ASSUME TypeOK
  PROVE  /\ Len(users) \in Nat /\ Ids \subseteq 0..MaxUsers /\ Ids = DOMAIN users
         /\ \A u \in Ids : users[u] \in Rows
  <1>1. users \in Seq(Rows)
    BY DEF TypeOK, Rows
  <1>2. Len(users) \in Nat /\ DOMAIN users = 1..Len(users)
    BY <1>1
  <1>3. \A u \in 1..Len(users) : users[u] \in Rows
    <2> HIDE DEF Rows
    <2> QED
      BY <1>1
  <1>4. Len(users) <= MaxUsers
    BY DEF TypeOK
  <1> QED
    BY <1>2, <1>3, <1>4, AccountsAssumption DEF Ids

LEMMA ToFacts ==
  ASSUME TypeOK, NEW c \in Calls, NEW q \in PCs, To(c, q)
  PROVE  Moved(c, q, call[c].ident, call[c].email, call[c].user)
  <1> DEFINE v == [call[c] EXCEPT !.pc = q]
  <1>1. /\ v \in CallType /\ v.pc = q /\ v.ident = call[c].ident
        /\ v.email = call[c].email /\ v.user = call[c].user
    BY CallFacts DEF CallType, PCs
  <1>2. Goes(c, v)
    BY DEF To
  <1> HIDE DEF v
  <1>3. Moved(c, v.pc, v.ident, v.email, v.user)
    BY <1>1, <1>2, GoesFacts
  <1> QED
    BY <1>1, <1>3

LEMMA HasFacts ==
  ASSUME TypeOK, NEW c \in Calls, NEW q \in PCs, NEW u \in 0..MaxUsers, Has(c, q, u)
  PROVE  Moved(c, q, call[c].ident, call[c].email, u)
  <1> DEFINE v == [call[c] EXCEPT !.pc = q, !.user = u]
  <1>1. /\ v \in CallType /\ v.pc = q /\ v.ident = call[c].ident
        /\ v.email = call[c].email /\ v.user = u
    BY CallFacts DEF CallType, PCs
  <1>2. Goes(c, v)
    BY DEF Has
  <1> HIDE DEF v
  <1>3. Moved(c, v.pc, v.ident, v.email, v.user)
    BY <1>1, <1>2, GoesFacts
  <1> QED
    BY <1>1, <1>3

LEMMA EndsFacts ==
  ASSUME TypeOK, NEW c \in Calls, Ends(c)
  PROVE  Moved(c, "rest", Nobody, Nobody, 0)
  <1>1. /\ Resting \in CallType /\ Resting.pc = "rest" /\ Resting.ident = Nobody
        /\ Resting.email = Nobody /\ Resting.user = 0
    BY AccountsAssumption DEF Resting, CallType
  <1>2. Moved(c, Resting.pc, Resting.ident, Resting.email, Resting.user)
    BY <1>1, GoesFacts DEF Ends
  <1> QED
    BY <1>1, <1>2

LEMMA BeginFacts ==
  ASSUME TypeOK, NEW c \in Calls, NEW q \in PCs, NEW i \in Identities \cup {Nobody},
         NEW e \in Emails, Goes(c, [pc |-> q, ident |-> i, email |-> e, user |-> 0])
  PROVE  Moved(c, q, i, e, 0)
  <1> DEFINE v == [pc |-> q, ident |-> i, email |-> e, user |-> 0]
  <1>1. v \in CallType /\ v.pc = q /\ v.ident = i /\ v.email = e /\ v.user = 0
    BY AccountsAssumption DEF CallType, PCs
  <1> HIDE DEF v
  <1>2. Moved(c, v.pc, v.ident, v.email, v.user)
    BY <1>1, GoesFacts DEF v
  <1> QED
    BY <1>1, <1>2

-----------------------------------------------------------------------------
(* The invariants, with what makes them inductive.                         *)

\* No state has let in more than one callback, and one that may still be valid
\* has let in none.
StateInv == \A s \in States : served[s] <= 1 /\ (store[s].in # "gone" => served[s] = 0)

\* Of two creations that are under way with the same e-mail, the e-mail is in
\* raced; one that is about to insert has no user with its e-mail before it.
Apart(c, d) == Creating(c) /\ Creating(d) /\ call[c].email = call[d].email =>
                 c = d \/ call[c].email \in raced
Fresh(c)    == call[c].pc = "insert" => call[c].email \in raced \/ With(call[c].email) = {}
EmailInv    == /\ OneUserPerEmail
               /\ \A c, d \in Calls : Apart(c, d)
               /\ \A c \in Calls : Fresh(c)

\* Of two sign-ins that are under way with the same identity, the identity is in
\* mixed; one that is past its look for a link has none, and one that has found
\* a link is still linked, unless the user is gone.
Alone(c, d)  == call[c].ident = call[d].ident /\ call[c].ident \in Identities =>
                  c = d \/ call[c].ident \in mixed
Past == {"byEmail", "check", "insert", "created", "again", "addLink"}
Unlinked(c)  == call[c].pc \in Past /\ call[c].ident \in Identities =>
                  call[c].ident \in mixed \/ Linked(call[c].ident) = {}
StillLinked(c) == call[c].pc = "known" /\ Live(call[c].user) =>
                    call[c].ident \in mixed \/ call[c].user \in Linked(call[c].ident)
LinkInv == /\ LinkedOnce /\ AnswerIsLinked
           /\ \A c, d \in Calls : Alone(c, d)
           /\ \A c \in Calls : Unlinked(c) /\ StillLinked(c)

-----------------------------------------------------------------------------
(* The types.                                                              *)

\* What TypeOK says of the tables and the store, and of the calls.
TablesOK == /\ schema \in Schemas
            /\ users \in Seq(Rows) /\ Len(users) <= MaxUsers
            /\ links \subseteq [ident : Identities, user : Ids]
            /\ store \in [States -> [in : {"never", "kept", "late", "gone"},
                                     provider : Providers]]
HistoryOK == /\ served \in [States -> Nat]
             /\ answered \in [Identities -> SUBSET Ids]
             /\ raced \subseteq Emails /\ mixed \subseteq Identities
             /\ faults \in 0..MaxFaults
Fits(c)   == /\ call[c].pc # "rest" => call[c].email \in Emails
             /\ call[c].pc \in {"known", "created", "again", "addLink"} => call[c].user \in Ids
             /\ call[c].pc \in {"fetch", "link", "known", "byEmail", "again", "addLink"} =>
                  call[c].ident \in Identities
CallsOK   == call \in [Calls -> CallType] /\ \A c \in Calls : Fits(c)

LEMMA TypeParts == TypeOK <=> TablesOK /\ HistoryOK /\ CallsOK
  BY Zenon DEF TypeOK, TablesOK, HistoryOK, CallsOK, Fits, Rows

LEMMA TypePartsNext == TypeOK' <=> TablesOK' /\ HistoryOK' /\ CallsOK'
  BY Zenon DEF TypeOK, TablesOK, HistoryOK, CallsOK, Fits, Rows

\* A call that moves as Fits asks leaves all calls as it asks.
LEMMA MovedFits ==
  ASSUME TypeOK, NEW c \in Calls, NEW q, NEW i, NEW e, NEW u, Moved(c, q, i, e, u),
         Ids \subseteq Ids', q # "rest" => e \in Emails,
         q \in {"known", "created", "again", "addLink"} => u \in Ids',
         q \in {"fetch", "link", "known", "byEmail", "again", "addLink"} => i \in Identities
  PROVE  CallsOK'
  <1>1. ASSUME NEW d \in Calls PROVE Fits(d)'
    <2>1. CASE d = c
      BY <2>1 DEF Moved, Fits
    <2>2. CASE d # c
      <3>1. call'[d] = call[d] /\ Fits(d)
        BY <2>2, TypeParts DEF Moved, CallsOK
      <3> QED
        BY <3>1 DEF Fits
    <2> QED
      BY <2>1, <2>2
  <1> QED
    BY <1>1 DEF CallsOK, Moved

LEMMA SameCalls ==
  ASSUME TypeOK, UNCHANGED call, Ids \subseteq Ids'
  PROVE  CallsOK'
  BY TypeParts DEF CallsOK, Fits

\* A row is added, or one is marked as deleted.
LEMMA InsertedFacts ==
  ASSUME TypeOK, NEW c \in Calls, call[c].pc = "insert", Len(users) < MaxUsers,
         users' = Inserted(c)
  PROVE  /\ users' \in Seq(Rows) /\ Len(users') = Len(users) + 1
         /\ Ids' = Ids \cup {Len(users) + 1} /\ Len(users) + 1 \notin Ids
         /\ \A u \in Ids : users'[u] = users[u]
         /\ users'[Len(users) + 1] = User(call[c].email)
         /\ call[c].email \in Emails
  <1>1. users \in Seq(Rows) /\ Len(users) \in Nat
    BY IdFacts DEF TypeOK, Rows
  <1>2. call[c].email \in Emails
    BY CallFacts
  <1>3. User(call[c].email) \in Rows
    BY <1>2 DEF User, Rows
  <1> DEFINE r == User(call[c].email)
  <1>4. r \in Rows /\ users' = Append(users, r)
    BY <1>3 DEF Inserted
  <1> HIDE DEF r, Rows
  <1>5. /\ users' \in Seq(Rows) /\ Len(users') = Len(users) + 1
        /\ \A u \in 1..Len(users) : users'[u] = users[u]
        /\ users'[Len(users) + 1] = r
    BY <1>1, <1>4
  <1>6. Ids' = Ids \cup {Len(users) + 1} /\ Len(users) + 1 \notin Ids
    BY <1>1, <1>5 DEF Ids
  <1> QED
    BY <1>2, <1>5, <1>6 DEF Ids, r

LEMMA RemoveFacts ==
  ASSUME TypeOK, NEW v \in Ids, Remove(v)
  PROVE  /\ users' \in Seq(Rows) /\ Len(users') = Len(users) /\ Ids' = Ids
         /\ \A u \in Ids : u # v => users'[u] = users[u]
         /\ ~users'[v].there
  <1>1. users \in Seq(Rows) /\ Ids = DOMAIN users /\ Len(users) \in Nat
    BY IdFacts DEF TypeOK, Rows
  <1> DEFINE r == [users[v] EXCEPT !.there = FALSE]
  <1>2. r \in Rows /\ ~r.there
    BY IdFacts DEF Rows
  <1>3. users' = [users EXCEPT ![v] = r]
    BY DEF Remove
  <1> HIDE DEF r, Rows
  <1>4. users' \in Seq(Rows) /\ Len(users') = Len(users)
    BY <1>1, <1>2, <1>3
  <1>5. \A u \in Ids : users'[u] = IF u = v THEN r ELSE users[u]
    BY <1>1, <1>3
  <1> QED
    BY <1>1, <1>2, <1>4, <1>5 DEF Ids

\* What a step that leaves the tables alone leaves of the types.
LEMMA SameTables ==
  ASSUME TypeOK, UNCHANGED <<schema, users, links, store>>
  PROVE  TablesOK' /\ Ids' = Ids
  BY TypeParts DEF TablesOK, Ids

LEMMA SameHistory ==
  ASSUME TypeOK, Ids' = Ids, UNCHANGED <<served, answered, faults>>,
         raced' \subseteq Emails, mixed' \subseteq Identities
  PROVE  HistoryOK'
  BY TypeParts DEF HistoryOK

\* Where a creation begins with a call at rest, or in a sign-in.
LEMMA BeginCreateFacts ==
  ASSUME TypeOK, NEW c \in Calls, NEW i \in Identities \cup {Nobody}, NEW e \in Emails,
         BeginCreate(c, i, e)
  PROVE  /\ Moved(c, "check", i, e, 0)
         /\ raced \subseteq raced' /\ raced' \subseteq Emails
         /\ \A d \in Calls : d # c /\ Creating(d) /\ call[d].email = e => e \in raced'
  <1>1. Goes(c, [pc |-> "check", ident |-> i, email |-> e, user |-> 0])
    BY DEF BeginCreate
  <1>2. "check" \in PCs
    BY DEF PCs
  <1>3. Moved(c, "check", i, e, 0)
    BY <1>1, <1>2, BeginFacts
  <1>4. raced \subseteq Emails
    BY DEF TypeOK
  <1>5. raced' = raced \cup {f \in {e} : \E d \in Calls \ {c} :
                                  Creating(d) /\ call[d].email = f}
    BY DEF BeginCreate
  <1> QED
    BY <1>3, <1>4, <1>5

LEMMA BeginSignInFacts ==
  ASSUME TypeOK, NEW c \in Calls, NEW q \in PCs, NEW i \in Identities, NEW e \in Emails,
         BeginSignIn(c, q, i, e)
  PROVE  /\ Moved(c, q, i, e, 0)
         /\ mixed \subseteq mixed' /\ mixed' \subseteq Identities
         /\ \A d \in Calls : d # c /\ call[d].ident = i => i \in mixed'
  <1>1. Goes(c, [pc |-> q, ident |-> i, email |-> e, user |-> 0])
    BY DEF BeginSignIn
  <1>2. Moved(c, q, i, e, 0)
    BY <1>1, BeginFacts
  <1>3. mixed \subseteq Identities
    BY DEF TypeOK
  <1>4. mixed' = mixed \cup {j \in {i} : \E d \in Calls \ {c} : call[d].ident = j}
    BY DEF BeginSignIn
  <1> QED
    BY <1>2, <1>3, <1>4

\* Where a sign-in, or a creation, ends or waits for its next query.
LEMMA AnswersFacts ==
  ASSUME TypeOK, NEW c \in Calls, NEW u \in Ids, call[c].ident \in Identities,
         Answers(c, u)
  PROVE  /\ Moved(c, "rest", Nobody, Nobody, 0)
         /\ answered' \in [Identities -> SUBSET Ids]
         /\ answered'[call[c].ident] = answered[call[c].ident] \cup {u}
         /\ \A i \in Identities : i # call[c].ident => answered'[i] = answered[i]
  <1>1. answered \in [Identities -> SUBSET Ids]
    BY DEF TypeOK
  <1>2. Moved(c, "rest", Nobody, Nobody, 0)
    BY EndsFacts DEF Answers
  <1>3. answered' = [answered EXCEPT ![call[c].ident] = @ \cup {u}]
    BY DEF Answers
  <1> QED
    BY <1>1, <1>2, <1>3

\* A link is added to those there are, or none is.
LEMMA LinkFacts ==
  ASSUME TypeOK, NEW c \in Calls, call[c].pc = "addLink", links' = LinkAdded(c)
  PROVE  /\ links \subseteq links'
         /\ \A l \in links' :
              l \in links \/ (~Conflict(c) /\ l = Link(call[c].ident, call[c].user))
         /\ ~Conflict(c) => Link(call[c].ident, call[c].user) \in links'
         /\ links' \subseteq [ident : Identities, user : Ids]
         /\ call[c].ident \in Identities /\ call[c].user \in Ids
  <1>1. call[c].ident \in Identities /\ call[c].user \in Ids
    BY CallFacts
  <1>2. links \subseteq [ident : Identities, user : Ids]
    BY DEF TypeOK
  <1>3. Link(call[c].ident, call[c].user) \in [ident : Identities, user : Ids]
    BY <1>1 DEF Link
  <1> DEFINE k == Link(call[c].ident, call[c].user)
  <1>4. links' = IF Conflict(c) THEN links ELSE links \cup {k}
    BY DEF LinkAdded
  <1>5. k \in [ident : Identities, user : Ids]
    BY <1>3
  <1> HIDE DEF k
  <1>6. /\ links \subseteq links'
        /\ \A l \in links' : l \in links \/ (~Conflict(c) /\ l = k)
        /\ ~Conflict(c) => k \in links'
        /\ links' \subseteq [ident : Identities, user : Ids]
    <2> HIDE DEF Conflict
    <2>1. CASE Conflict(c)
      BY <2>1, <1>2, <1>4
    <2>2. CASE ~Conflict(c)
      BY <2>2, <1>2, <1>4, <1>5
    <2> QED
      BY <2>1, <2>2
  <1> QED
    BY <1>1, <1>6 DEF k

LEMMA TypeInit == Init => TypeOK
  <1> SUFFICES ASSUME Init PROVE TypeOK
    OBVIOUS
  <1>1. users = <<>> /\ Len(users) = 0 /\ users \in Seq(Rows)
    BY DEF Init
  <1>2. TablesOK
    <2>1. store \in [States -> [in : {"never"}, provider : Providers]]
      BY DEF Init
    <2>2. [in : {"never"}, provider : Providers]
            \subseteq [in : {"never", "kept", "late", "gone"}, provider : Providers]
      OBVIOUS
    <2>3. schema \in Schemas /\ links = {}
      BY DEF Init
    <2>4. store \in [States -> [in : {"never", "kept", "late", "gone"}, provider : Providers]]
      BY <2>1, <2>2
    <2> QED
      BY <1>1, <2>3, <2>4, AccountsAssumption DEF TablesOK
  <1>3. HistoryOK
    BY <1>1, AccountsAssumption DEF Init, HistoryOK, Ids
  <1>4. CallsOK
    <2>1. Resting \in CallType /\ Resting.pc = "rest"
      BY AccountsAssumption DEF Resting, CallType
    <2>2. call = [c \in Calls |-> Resting]
      BY DEF Init
    <2> HIDE DEF Resting
    <2> QED
      BY <2>1, <2>2 DEF CallsOK, Fits
  <1> QED
    BY <1>2, <1>3, <1>4, TypeParts

-----------------------------------------------------------------------------
(* What each kind of step does to the calls, the tables and the history.   *)

\* A step that only reads, or that ends a call.
LEMMA ReadsType ==
  ASSUME TypeOK, Reads, raced' \subseteq Emails, CallsOK'
  PROVE  TypeOK'
  <1>1. UNCHANGED <<schema, users, links, store>> /\ UNCHANGED <<served, answered, faults>>
    BY DEF Reads, web
  <1>2. mixed' \subseteq Identities
    BY DEF TypeOK, Reads
  <1>3. TablesOK' /\ Ids' = Ids
    BY <1>1, SameTables
  <1>4. HistoryOK'
    BY <1>1, <1>2, <1>3, SameHistory
  <1> QED
    BY <1>3, <1>4, TypePartsNext

LEMMA TypeAuthorize ==
  ASSUME TypeOK, NEW s \in States, NEW p \in Providers, Authorize(s, p)
  PROVE  TypeOK'
  <1>1. store' \in [States -> [in : {"never", "kept", "late", "gone"}, provider : Providers]]
    BY DEF TypeOK, Authorize
  <1>2. UNCHANGED <<schema, users, links, call, served, answered, raced, mixed, faults>>
    BY DEF Authorize, history
  <1>3. TablesOK' /\ HistoryOK'
    BY <1>1, <1>2, TypeParts DEF TablesOK, HistoryOK, Ids
  <1>4. CallsOK'
    BY <1>2, SameCalls DEF Ids
  <1> QED
    BY <1>3, <1>4, TypePartsNext

LEMMA TypeExpire ==
  ASSUME TypeOK, NEW s \in States, Expire(s)
  PROVE  TypeOK'
  <1>1. store' \in [States -> [in : {"never", "kept", "late", "gone"}, provider : Providers]]
    BY DEF TypeOK, Expire
  <1>2. UNCHANGED <<schema, users, links, call, served, answered, raced, mixed, faults>>
    BY DEF Expire, history
  <1>3. TablesOK' /\ HistoryOK'
    BY <1>1, <1>2, TypeParts DEF TablesOK, HistoryOK, Ids
  <1>4. CallsOK'
    BY <1>2, SameCalls DEF Ids
  <1> QED
    BY <1>3, <1>4, TypePartsNext

LEMMA TypeCallback ==
  ASSUME TypeOK, NEW c \in Calls, NEW s \in States, NEW i \in Identities, NEW e \in Emails,
         Callback(c, s, i, e)
  PROVE  TypeOK'
  <1>1. /\ store' \in [States -> [in : {"never", "kept", "late", "gone"}, provider : Providers]]
        /\ served' \in [States -> Nat]
    BY DEF TypeOK, Callback
  <1>2. UNCHANGED <<schema, users, links, answered, raced, faults>>
    BY DEF Callback
  <1>3. Moved(c, "fetch", i, e, 0) /\ mixed' \subseteq Identities
    BY BeginSignInFacts DEF Callback, PCs
  <1>4. TablesOK' /\ HistoryOK'
    BY <1>1, <1>2, <1>3, TypeParts DEF TablesOK, HistoryOK, Ids
  <1>5. CallsOK'
    BY <1>2, <1>3, MovedFits DEF Ids
  <1> QED
    BY <1>4, <1>5, TypePartsNext

LEMMA TypeTelegram ==
  ASSUME TypeOK, NEW c \in Calls, NEW i \in Identities, NEW e \in Emails, Telegram(c, i, e)
  PROVE  TypeOK'
  <1>1. /\ UNCHANGED <<schema, users, links, store>>
        /\ UNCHANGED <<served, answered, faults>> /\ UNCHANGED raced
    BY DEF Telegram, web
  <1>2. Moved(c, "link", i, e, 0) /\ mixed' \subseteq Identities
    BY BeginSignInFacts DEF Telegram, PCs
  <1>3. TablesOK' /\ Ids' = Ids
    BY <1>1, SameTables
  <1>4. raced' \subseteq Emails
    BY <1>1 DEF TypeOK
  <1>5. HistoryOK'
    BY <1>1, <1>2, <1>3, <1>4, SameHistory
  <1>6. CallsOK'
    BY <1>2, <1>3, MovedFits
  <1> QED
    BY <1>3, <1>5, <1>6, TypePartsNext

\* How a call that only reads goes on: at its next query with what it has, with
\* a user it has found, as a creation, or not at all.
Steps(c, q, u) ==
  /\ Reads /\ UNCHANGED raced
  /\ Moved(c, q, call[c].ident, call[c].email, u)
  /\ u \in Ids \/ u = call[c].user

LEMMA StepsType ==
  ASSUME TypeOK, NEW c \in Calls, NEW q, NEW u, Steps(c, q, u), call[c].pc # "rest",
         q \in {"known", "created", "again", "addLink"} => u \in Ids,
         q \in {"fetch", "link", "known", "byEmail", "again", "addLink"} =>
           call[c].ident \in Identities
  PROVE  TypeOK'
  <1>1. call[c].email \in Emails
    BY CallFacts
  <1>2. Ids' = Ids /\ raced' \subseteq Emails
    BY DEF Steps, Reads, Ids, TypeOK
  <1>3. Moved(c, q, call[c].ident, call[c].email, u)
    BY DEF Steps
  <1>4. CallsOK'
    BY <1>1, <1>2, <1>3, MovedFits
  <1> QED
    BY <1>2, <1>4, ReadsType DEF Steps

LEMMA EndsType ==
  ASSUME TypeOK, NEW c \in Calls, Reads, UNCHANGED raced, Ends(c)
  PROVE  TypeOK'
  <1>1. Ids' = Ids /\ raced' \subseteq Emails
    BY DEF Reads, Ids, TypeOK
  <1>2. Moved(c, "rest", Nobody, Nobody, 0)
    BY EndsFacts
  <1>3. CallsOK'
    BY <1>1, <1>2, MovedFits
  <1> QED
    BY <1>1, <1>3, ReadsType

LEMMA BeginType ==
  ASSUME TypeOK, NEW c \in Calls, NEW i \in Identities \cup {Nobody}, NEW e \in Emails,
         Reads, BeginCreate(c, i, e)
  PROVE  TypeOK'
  <1>1. Moved(c, "check", i, e, 0) /\ raced' \subseteq Emails
    BY BeginCreateFacts
  <1>2. Ids' = Ids
    BY DEF Reads, Ids
  <1>3. CallsOK'
    BY <1>1, <1>2, MovedFits
  <1> QED
    BY <1>1, <1>3, ReadsType

-----------------------------------------------------------------------------
(* The queries that only read, in these terms.                             *)

LEMMA FetchSteps ==
  ASSUME TypeOK, NEW c \in Calls, Fetch(c)
  PROVE  call[c].pc = "fetch" /\ Steps(c, "link", call[c].user)
  <1>1. "link" \in PCs
    BY DEF PCs
  <1>2. Moved(c, "link", call[c].ident, call[c].email, call[c].user)
    BY <1>1, ToFacts DEF Fetch
  <1> QED
    BY <1>2 DEF Fetch, Steps

LEMMA ReadLinkSteps ==
  ASSUME TypeOK, NEW c \in Calls, ReadLink(c)
  PROVE  /\ call[c].pc = "link"
         /\ \/ Linked(call[c].ident) = {} /\ Steps(c, "byEmail", call[c].user)
            \/ \E u \in Linked(call[c].ident) : Steps(c, "known", u)
  <1>1. "byEmail" \in PCs /\ "known" \in PCs
    BY DEF PCs
  <1>2. call[c].pc = "link" /\ Reads /\ UNCHANGED raced
    BY DEF ReadLink
  <1>3. CASE Linked(call[c].ident) = {} /\ To(c, "byEmail")
    BY <1>1, <1>2, <1>3, ToFacts DEF Steps
  <1>4. ASSUME NEW u \in Linked(call[c].ident), Has(c, "known", u)
        PROVE  Steps(c, "known", u)
    <2>1. u \in Ids /\ u \in 0..MaxUsers
      BY IdFacts DEF Linked
    <2>2. Moved(c, "known", call[c].ident, call[c].email, u)
      BY <1>1, <1>4, <2>1, HasFacts
    <2> QED
      BY <1>2, <2>1, <2>2 DEF Steps
  <1> QED
    BY <1>2, <1>3, <1>4 DEF ReadLink

LEMMA ByEmailSteps ==
  ASSUME TypeOK, NEW c \in Calls, ByEmail(c)
  PROVE  /\ call[c].pc = "byEmail" /\ Reads
         /\ call[c].ident \in Identities /\ call[c].email \in Emails
         /\ \/ BeginCreate(c, call[c].ident, call[c].email)
            \/ \E u \in Ids : Steps(c, "addLink", u)
  <1>1. "addLink" \in PCs
    BY DEF PCs
  <1>2. call[c].pc = "byEmail" /\ Reads
    BY DEF ByEmail
  <1>3. call[c].ident \in Identities /\ call[c].email \in Emails
    BY <1>2, CallFacts
  <1>4. ASSUME NEW u \in With(call[c].email), Has(c, "addLink", u), UNCHANGED raced
        PROVE  u \in Ids /\ Steps(c, "addLink", u)
    <2>1. u \in Ids /\ u \in 0..MaxUsers
      BY IdFacts DEF With
    <2>2. Moved(c, "addLink", call[c].ident, call[c].email, u)
      BY <1>1, <1>4, <2>1, HasFacts
    <2> QED
      BY <1>2, <1>4, <2>1, <2>2 DEF Steps
  <1> QED
    BY <1>2, <1>3, <1>4 DEF ByEmail

LEMMA CheckSteps ==
  ASSUME TypeOK, NEW c \in Calls, Check(c)
  PROVE  /\ call[c].pc = "check" /\ Reads /\ UNCHANGED raced
         /\ \/ With(call[c].email) = {} /\ Steps(c, "insert", call[c].user)
            \/ Ends(c)
  <1>1. "insert" \in PCs
    BY DEF PCs
  <1>2. call[c].pc = "check" /\ Reads /\ UNCHANGED raced
    BY DEF Check
  <1>3. CASE With(call[c].email) = {} /\ To(c, "insert")
    BY <1>1, <1>2, <1>3, ToFacts DEF Steps
  <1>4. CASE Ends(c)
    BY <1>2, <1>4
  <1> QED
    BY <1>2, <1>3, <1>4 DEF Check

LEMMA CreatedSteps ==
  ASSUME TypeOK, NEW c \in Calls, Created(c)
  PROVE  /\ call[c].pc \in {"created", "again"} /\ Reads /\ UNCHANGED raced
         /\ \/ Ends(c)
            \/ /\ call[c].ident \in Identities /\ call[c].user \in Ids
               /\ \E q \in {"again", "addLink"} : Steps(c, q, call[c].user)
  <1>1. call[c].pc \in {"created", "again"} /\ Reads /\ UNCHANGED raced
    BY DEF Created
  <1>2. ASSUME NEW q \in {"again", "addLink"}, To(c, q)
        PROVE  Steps(c, q, call[c].user)
    <2>1. q \in PCs
      BY DEF PCs
    <2>2. Moved(c, q, call[c].ident, call[c].email, call[c].user)
      BY <1>2, <2>1, ToFacts
    <2> QED
      BY <1>1, <2>2 DEF Steps
  <1>3. CASE Ends(c)
    BY <1>1, <1>3
  <1>4. CASE ~Ends(c)
    <2>1. /\ Live(call[c].user) /\ call[c].ident # Nobody
          /\ To(c, IF call[c].pc = "created" THEN "again" ELSE "addLink")
      BY <1>4 DEF Created
    <2>2. \E q \in {"again", "addLink"} : To(c, q)
      BY <2>1
    <2>3. call[c].ident \in Identities /\ call[c].user \in Ids
      BY <2>1, CallFacts DEF Live
    <2> QED
      BY <1>1, <1>2, <2>2, <2>3
  <1> QED
    BY <1>3, <1>4

LEMMA RefuseSteps ==
  ASSUME NEW c \in Calls, Refuse(c)
  PROVE  call[c].pc = "insert" /\ Reads /\ UNCHANGED raced /\ Ends(c)
  BY DEF Refuse

-----------------------------------------------------------------------------
(* TypeOK is kept.                                                         *)

\* A user or a link is inserted, with or without the reply.
LEMMA InsertedType ==
  ASSUME TypeOK, NEW c \in Calls, call[c].pc = "insert", Len(users) < MaxUsers,
         users' = Inserted(c), faults' \in 0..MaxFaults, CallsOK',
         UNCHANGED <<schema, links, store, served, answered, raced, mixed>>
  PROVE  TypeOK'
  <1>1. /\ users' \in Seq(Rows) /\ Len(users') = Len(users) + 1 /\ Ids \subseteq Ids'
        /\ Len(users) \in Nat
    BY InsertedFacts, IdFacts
  <1>2. links' \subseteq [ident : Identities, user : Ids']
    BY <1>1 DEF TypeOK
  <1>3. TablesOK'
    BY <1>1, <1>2, TypeParts, AccountsAssumption DEF TablesOK
  <1>4. answered' \in [Identities -> SUBSET (Ids')]
    BY <1>1 DEF TypeOK
  <1>5. HistoryOK'
    BY <1>4, TypeParts DEF HistoryOK
  <1> QED
    BY <1>3, <1>5, TypePartsNext

LEMMA LinkedType ==
  ASSUME TypeOK, NEW c \in Calls, call[c].pc = "addLink", links' = LinkAdded(c),
         faults' \in 0..MaxFaults, CallsOK', answered' \in [Identities -> SUBSET Ids],
         UNCHANGED <<schema, users, store, served, raced, mixed>>
  PROVE  TypeOK'
  <1>1. Ids' = Ids
    BY DEF Ids
  <1>2. links' \subseteq [ident : Identities, user : Ids']
    BY <1>1, LinkFacts
  <1>3. TablesOK'
    BY <1>2, TypeParts DEF TablesOK
  <1>4. HistoryOK'
    BY <1>1, TypeParts DEF HistoryOK
  <1> QED
    BY <1>3, <1>4, TypePartsNext

LEMMA TypeInsert ==
  ASSUME TypeOK, NEW c \in Calls, Insert(c)
  PROVE  TypeOK'
  <1>1. /\ call[c].pc = "insert" /\ Len(users) < MaxUsers /\ users' = Inserted(c)
        /\ UNCHANGED <<schema, links, store, served, answered, raced, mixed>>
        /\ UNCHANGED faults /\ Has(c, "created", Len(users) + 1)
    BY DEF Insert, web, history
  <1>2. /\ Ids \subseteq Ids' /\ Len(users) + 1 \in Ids' /\ Len(users) + 1 \in 0..MaxUsers
        /\ call[c].email \in Emails
    BY <1>1, InsertedFacts, IdFacts, AccountsAssumption
  <1>3. "created" \in PCs
    BY DEF PCs
  <1>4. Moved(c, "created", call[c].ident, call[c].email, Len(users) + 1)
    BY <1>1, <1>2, <1>3, HasFacts
  <1>5. CallsOK'
    BY <1>2, <1>4, MovedFits
  <1>6. faults' \in 0..MaxFaults
    BY <1>1 DEF TypeOK
  <1> QED
    BY <1>1, <1>5, <1>6, InsertedType

LEMMA TypeKnown ==
  ASSUME TypeOK, NEW c \in Calls, Known(c)
  PROVE  TypeOK'
  <1>1. /\ call[c].pc = "known" /\ UNCHANGED <<schema, users, links, store>>
        /\ UNCHANGED <<served, raced, mixed, faults>>
    BY DEF Known, web
  <1>2. call[c].user \in Ids /\ call[c].ident \in Identities
    BY <1>1, CallFacts
  <1>3. Moved(c, "rest", Nobody, Nobody, 0)
    BY EndsFacts DEF Known, Answers
  <1>4. answered' \in [Identities -> SUBSET Ids]
    <2>1. CASE Live(call[c].user)
      BY <1>2, <2>1, AnswersFacts DEF Known
    <2>2. CASE ~Live(call[c].user)
      BY <2>2 DEF Known, TypeOK
    <2> QED
      BY <2>1, <2>2
  <1>5. TablesOK' /\ Ids' = Ids
    BY <1>1, SameTables
  <1>6. HistoryOK'
    BY <1>1, <1>4, <1>5, TypeParts DEF HistoryOK
  <1>7. CallsOK'
    BY <1>3, <1>5, MovedFits
  <1> QED
    BY <1>5, <1>6, <1>7, TypePartsNext

LEMMA TypeAddLink ==
  ASSUME TypeOK, NEW c \in Calls, AddLink(c)
  PROVE  TypeOK'
  <1>1. /\ call[c].pc = "addLink" /\ UNCHANGED <<schema, users, store, served, raced, mixed>>
        /\ UNCHANGED faults
    BY DEF AddLink, web
  <1>2. call[c].user \in Ids /\ call[c].ident \in Identities /\ Ids' = Ids
    BY <1>1, CallFacts DEF Ids
  <1>3. faults' \in 0..MaxFaults
    BY <1>1 DEF TypeOK
  <1>4. Moved(c, "rest", Nobody, Nobody, 0)
    BY EndsFacts DEF AddLink, Answers
  <1>5. CallsOK'
    BY <1>2, <1>4, MovedFits
  <1>6. CASE Broken(c)
    <2>1. UNCHANGED <<schema, users, links, store>> /\ UNCHANGED answered
      BY <1>1, <1>6 DEF AddLink
    <2>2. TablesOK' /\ Ids' = Ids
      BY <2>1, SameTables
    <2>3. HistoryOK'
      BY <1>1, <2>1, <2>2, TypeParts DEF HistoryOK
    <2> QED
      BY <1>5, <2>2, <2>3, TypePartsNext
  <1>7. CASE ~Broken(c)
    <2>1. links' = LinkAdded(c) /\ Answers(c, call[c].user)
      BY <1>7 DEF AddLink
    <2>2. answered' \in [Identities -> SUBSET Ids]
      BY <1>2, <2>1, AnswersFacts
    <2> QED
      BY <1>1, <1>3, <1>5, <2>1, <2>2, LinkedType
  <1> QED
    BY <1>6, <1>7

LEMMA TypeRemove ==
  ASSUME TypeOK, NEW v \in Ids, Remove(v)
  PROVE  TypeOK'
  <1>1. users' \in Seq(Rows) /\ Len(users') = Len(users) /\ Ids' = Ids
    BY RemoveFacts
  <1>2. links' \subseteq links
    BY DEF Remove
  <1>3. UNCHANGED <<schema, call, store, served, answered, raced, mixed, faults>>
    BY DEF Remove, web, history
  <1>4. TablesOK'
    BY <1>1, <1>2, <1>3, TypeParts DEF TablesOK
  <1>5. HistoryOK'
    BY <1>1, <1>3, TypeParts DEF HistoryOK
  <1>6. CallsOK'
    BY <1>1, <1>3, SameCalls
  <1> QED
    BY <1>4, <1>5, <1>6, TypePartsNext

\* What a failure leaves: a call less, and perhaps what its query has done.
LEMMA FaultKinds ==
  ASSUME TypeOK, NEW c \in Calls, Fault(c)
  PROVE  /\ call[c].pc # "rest" /\ Moved(c, "rest", Nobody, Nobody, 0)
         /\ faults' \in 0..MaxFaults
         /\ UNCHANGED <<schema, store, served, answered, raced, mixed>>
         /\ \/ UNCHANGED <<users, links>>
            \/ /\ call[c].pc = "insert" /\ ~Refused(c) /\ Len(users) < MaxUsers
               /\ users' = Inserted(c) /\ UNCHANGED links
            \/ /\ call[c].pc = "addLink" /\ ~Broken(c)
               /\ links' = LinkAdded(c) /\ UNCHANGED users
  <1>1. Moved(c, "rest", Nobody, Nobody, 0)
    BY EndsFacts DEF Fault
  <1>2. faults' \in 0..MaxFaults
    <2>1. faults \in 0..MaxFaults /\ faults < MaxFaults /\ faults' = faults + 1
      BY DEF TypeOK, Fault
    <2> QED
      BY <2>1, AccountsAssumption
  <1> QED
    BY <1>1, <1>2 DEF Fault, web, history

LEMMA TypeFault ==
  ASSUME TypeOK, NEW c \in Calls, Fault(c)
  PROVE  TypeOK'
  <1>1. /\ Moved(c, "rest", Nobody, Nobody, 0) /\ faults' \in 0..MaxFaults
        /\ UNCHANGED <<schema, store, served, answered, raced, mixed>>
    BY FaultKinds
  <1>2. CASE UNCHANGED <<users, links>>
    <2>1. TablesOK' /\ Ids' = Ids
      BY <1>1, <1>2, SameTables
    <2>2. HistoryOK'
      BY <1>1, <2>1, TypeParts DEF HistoryOK
    <2>3. CallsOK'
      BY <1>1, <2>1, MovedFits
    <2> QED
      BY <2>1, <2>2, <2>3, TypePartsNext
  <1>3. CASE /\ call[c].pc = "insert" /\ Len(users) < MaxUsers
             /\ users' = Inserted(c) /\ UNCHANGED links
    <2>1. Ids \subseteq Ids'
      BY <1>3, InsertedFacts
    <2>2. CallsOK'
      BY <1>1, <2>1, MovedFits
    <2> QED
      BY <1>1, <1>3, <2>2, InsertedType
  <1>4. CASE call[c].pc = "addLink" /\ links' = LinkAdded(c) /\ UNCHANGED users
    <2>1. Ids' = Ids /\ answered' \in [Identities -> SUBSET Ids]
      BY <1>1, <1>4 DEF Ids, TypeOK
    <2>2. CallsOK'
      BY <1>1, <2>1, MovedFits
    <2> QED
      BY <1>1, <1>4, <2>1, <2>2, LinkedType
  <1> QED
    BY <1>2, <1>3, <1>4, FaultKinds

\* After a restart every call is at rest and no state is valid.
LEMMA RestartFacts ==
  ASSUME TypeOK, Restart
  PROVE  /\ call' \in [Calls -> CallType]
         /\ \A c \in Calls : call'[c].pc = "rest" /\ call'[c].ident = Nobody
         /\ store' \in [States -> [in : {"never", "kept", "late", "gone"},
                                   provider : Providers]]
         /\ \A s \in States : store'[s].in \in {"gone", store[s].in}
         /\ faults' \in 0..MaxFaults
         /\ UNCHANGED <<schema, users, links, served, answered, raced, mixed>>
  <1>1. /\ Resting \in CallType /\ Resting.pc = "rest" /\ Resting.ident = Nobody
    BY AccountsAssumption DEF Resting, CallType
  <1>2. call' = [c \in Calls |-> Resting]
    BY DEF Restart
  <1>3. faults' \in 0..MaxFaults
    <2>1. faults \in 0..MaxFaults /\ faults < MaxFaults /\ faults' = faults + 1
      BY DEF TypeOK, Restart
    <2> QED
      BY <2>1, AccountsAssumption
  <1>4. \A c \in Calls : call'[c] = Resting
    BY <1>2
  <1>5. call' \in [Calls -> CallType]
    <2> HIDE DEF Resting
    <2> QED
      BY <1>1, <1>2
  <1> DEFINE StoreType == [in : {"never", "kept", "late", "gone"}, provider : Providers]
  <1>6. store \in [States -> StoreType]
    BY DEF TypeOK
  <1>7. \A s \in States :
          /\ store'[s] = IF store[s].in = "never" THEN store[s]
                         ELSE [store[s] EXCEPT !.in = "gone"]
          /\ store'[s] \in StoreType /\ store'[s].in \in {"gone", store[s].in}
    BY <1>6 DEF Restart
  <1>8. store' \in [States -> StoreType]
    BY <1>7 DEF Restart
  <1> QED
    BY <1>1, <1>3, <1>4, <1>5, <1>7, <1>8 DEF Restart, history

LEMMA TypeRestart ==
  ASSUME TypeOK, Restart
  PROVE  TypeOK'
  <1>1. Ids' = Ids
    BY DEF Restart, Ids
  <1>2. TablesOK' /\ HistoryOK'
    BY <1>1, RestartFacts, TypeParts DEF TablesOK, HistoryOK
  <1>3. CallsOK'
    BY RestartFacts DEF CallsOK, Fits
  <1> QED
    BY <1>2, <1>3, TypePartsNext

LEMMA TypeStep == TypeOK /\ [Next]_vars => TypeOK'
  <1> SUFFICES ASSUME TypeOK, [Next]_vars PROVE TypeOK'
    OBVIOUS
  <1>1. CASE UNCHANGED vars
    BY <1>1, TypeParts, TypePartsNext
       DEF vars, web, history, TablesOK, HistoryOK, CallsOK, Fits, Ids
  <1>2. ASSUME NEW s \in States, Expire(s) \/ \E p \in Providers : Authorize(s, p)
        PROVE  TypeOK'
    BY <1>2, TypeExpire, TypeAuthorize
  <1>3. ASSUME NEW c \in Calls, NEW e \in Emails, Create(c, e)
        PROVE  TypeOK'
    <2>1. Reads /\ BeginCreate(c, Nobody, e) /\ Nobody \in Identities \cup {Nobody}
      BY <1>3 DEF Create
    <2> QED
      BY <2>1, BeginType
  <1>4. ASSUME NEW c \in Calls, NEW e \in Emails, NEW i \in Identities,
               Telegram(c, i, e) \/ \E s \in States : Callback(c, s, i, e)
        PROVE  TypeOK'
    BY <1>4, TypeTelegram, TypeCallback
  <1>5. ASSUME NEW c \in Calls, Fetch(c) PROVE TypeOK'
    <2>1. call[c].pc = "fetch" /\ Steps(c, "link", call[c].user)
      BY <1>5, FetchSteps
    <2>2. call[c].ident \in Identities
      BY <2>1, CallFacts
    <2> QED
      BY <2>1, <2>2, StepsType
  <1>6. ASSUME NEW c \in Calls, ReadLink(c) PROVE TypeOK'
    <2>1. call[c].pc = "link" /\ call[c].ident \in Identities
      BY <1>6, ReadLinkSteps, CallFacts
    <2>2. CASE Steps(c, "byEmail", call[c].user)
      BY <2>1, <2>2, StepsType
    <2>3. ASSUME NEW u \in Linked(call[c].ident), Steps(c, "known", u) PROVE TypeOK'
      BY <2>1, <2>3, StepsType DEF Linked
    <2> QED
      BY <1>6, <2>2, <2>3, ReadLinkSteps
  <1>7. ASSUME NEW c \in Calls, Known(c) \/ AddLink(c) \/ Insert(c) \/ Fault(c)
        PROVE  TypeOK'
    BY <1>7, TypeKnown, TypeAddLink, TypeInsert, TypeFault
  <1>8. ASSUME NEW c \in Calls, ByEmail(c) PROVE TypeOK'
    <2>1. /\ call[c].pc = "byEmail" /\ Reads /\ call[c].ident \in Identities
          /\ call[c].email \in Emails
      BY <1>8, ByEmailSteps
    <2>2. CASE BeginCreate(c, call[c].ident, call[c].email)
      BY <2>1, <2>2, BeginType
    <2>3. ASSUME NEW u \in Ids, Steps(c, "addLink", u) PROVE TypeOK'
      BY <2>1, <2>3, StepsType
    <2> QED
      BY <1>8, <2>2, <2>3, ByEmailSteps
  <1>9. ASSUME NEW c \in Calls, Check(c) \/ Refuse(c) \/ Created(c) PROVE TypeOK'
    <2>1. CASE Check(c)
      BY <2>1, CheckSteps, StepsType, EndsType
    <2>2. CASE Refuse(c)
      BY <2>2, RefuseSteps, EndsType
    <2>3. CASE Created(c)
      BY <2>3, CreatedSteps, StepsType, EndsType
    <2> QED
      BY <1>9, <2>1, <2>2, <2>3
  <1>10. ASSUME NEW u \in Ids, Remove(u) PROVE TypeOK'
    BY <1>10, TypeRemove
  <1>11. CASE Restart
    BY <1>11, TypeRestart
  <1> QED
    BY <1>1, <1>2, <1>3, <1>4, <1>5, <1>6, <1>7, <1>8, <1>9, <1>10, <1>11 DEF Next

-----------------------------------------------------------------------------
(* StateInv is kept.                                                       *)

LEMMA StateStep == TypeOK /\ StateInv /\ [Next]_vars => StateInv'
  <1> SUFFICES ASSUME TypeOK, StateInv, [Next]_vars PROVE StateInv'
    OBVIOUS
  <1>1. CASE UNCHANGED <<store, served>>
    BY <1>1 DEF StateInv
  <1>2. ASSUME NEW s \in States, Expire(s) \/ \E p \in Providers : Authorize(s, p)
        PROVE  StateInv'
    <2>1. /\ served' = served /\ store[s].in # "gone"
          /\ \A t \in States : t # s => store'[t] = store[t]
      BY <1>2 DEF Expire, Authorize, TypeOK
    <2> QED
      BY <2>1 DEF StateInv
  <1>3. ASSUME NEW c \in Calls, NEW s \in States, NEW i \in Identities, NEW e \in Emails,
               Callback(c, s, i, e)
        PROVE  StateInv'
    <2>1. store[s].in # "gone" /\ served[s] = 0
      BY <1>3 DEF Callback, Valid, StateInv
    <2>2. /\ store'[s].in = "gone" /\ served'[s] = 1
          /\ \A t \in States : t # s => store'[t] = store[t] /\ served'[t] = served[t]
      BY <1>3, <2>1 DEF Callback, TypeOK
    <2> QED
      BY <2>1, <2>2 DEF StateInv
  <1>4. CASE Restart
    BY <1>4, RestartFacts DEF StateInv
  <1>5. ASSUME NEW c \in Calls, Fault(c) PROVE StateInv'
    BY <1>1, <1>5, FaultKinds
  <1>6. ASSUME NEW c \in Calls,
               \/ \E e \in Emails : Create(c, e) \/ \E i \in Identities : Telegram(c, i, e)
               \/ Fetch(c) \/ ReadLink(c) \/ Known(c) \/ ByEmail(c) \/ AddLink(c)
               \/ Check(c) \/ Insert(c) \/ Refuse(c) \/ Created(c)
        PROVE  StateInv'
    <2>1. UNCHANGED web
      BY <1>6 DEF Create, Telegram, Fetch, ReadLink, Known, ByEmail, AddLink, Check, Insert,
                  Refuse, Created, Reads
    <2> QED
      BY <1>1, <2>1 DEF web
  <1>7. ASSUME NEW u \in Ids, Remove(u) PROVE StateInv'
    BY <1>1, <1>7 DEF Remove, web
  <1>8. CASE UNCHANGED vars
    BY <1>1, <1>8 DEF vars, web
  <1> QED
    BY <1>2, <1>3, <1>4, <1>5, <1>6, <1>7, <1>8 DEF Next

-----------------------------------------------------------------------------
(* EmailInv is kept.                                                       *)

\* The users with an e-mail are the same, or fewer, and some call moves.
LEMMA EmailMoved ==
  ASSUME TypeOK, EmailInv, NEW c \in Calls, NEW q, NEW i, NEW e, NEW u, Moved(c, q, i, e, u),
         UNCHANGED <<schema, users>>, raced \subseteq raced',
         q \in {"check", "insert"} =>
           \A d \in Calls : d # c /\ Creating(d) /\ call[d].email = e => e \in raced',
         q = "insert" => With(e) = {}
  PROVE  EmailInv'
  <1>1. \A f : With(f)' = With(f)
    BY Zenon DEF With, Live, Ids
  <1>2. OneUserPerEmail'
    BY <1>1 DEF OneUserPerEmail, EmailInv
  <1>3. \A d \in Calls : d # c => call'[d] = call[d] /\ Creating(d)' = Creating(d)
    BY DEF Moved, Creating
  <1>4. Creating(c)' => q \in {"check", "insert"}
    BY DEF Moved, Creating
  <1>5. ASSUME NEW d \in Calls, NEW d2 \in Calls PROVE Apart(d, d2)'
    <2>1. CASE d = c \/ d2 = c
      BY <1>3, <1>4, <2>1 DEF Apart, Moved
    <2>2. CASE d # c /\ d2 # c
      BY <1>3, <2>2 DEF Apart, EmailInv
    <2> QED
      BY <2>1, <2>2
  <1>6. ASSUME NEW d \in Calls PROVE Fresh(d)'
    <2>1. CASE d = c
      BY <1>1, <2>1 DEF Fresh, Moved
    <2>2. CASE d # c
      BY <1>1, <1>3, <2>2 DEF Fresh, EmailInv
    <2> QED
      BY <2>1, <2>2
  <1> QED
    BY <1>2, <1>5, <1>6 DEF EmailInv

\* A user is inserted, with or without the reply.
LEMMA EmailInserted ==
  ASSUME TypeOK, EmailInv, NEW c \in Calls, NEW q, NEW i, NEW e, NEW u, Moved(c, q, i, e, u),
         call[c].pc = "insert", ~Refused(c), Len(users) < MaxUsers, users' = Inserted(c),
         q \notin {"check", "insert"}, UNCHANGED <<schema, raced>>
  PROVE  EmailInv'
  <1> PICK m : m = call[c].email
    OBVIOUS
  <1>0. /\ Ids' = Ids \cup {Len(users) + 1}
        /\ \A u2 \in Ids : users'[u2] = users[u2]
        /\ users'[Len(users) + 1].email = m
    <2>1. User(m).email = m
      BY DEF User
    <2>2. /\ Ids' = Ids \cup {Len(users) + 1} /\ users'[Len(users) + 1] = User(m)
          /\ \A u2 \in Ids : users'[u2] = users[u2]
      BY InsertedFacts
    <2> QED
      BY <2>1, <2>2
  <1>1. With(m)' \subseteq With(m) \cup {Len(users) + 1}
    BY <1>0 DEF With, Live
  <1>2. ASSUME NEW f, f # m PROVE With(f)' = With(f)
    <2>1. \A u2 : u2 \in With(f)' <=> u2 \in With(f)
      BY <1>0, <1>2, InsertedFacts DEF With, Live
    <2> QED
      BY <2>1 DEF With
  <1>3. schema.email \/ m \notin raced => With(m) = {}
    BY DEF EmailInv, Fresh, Refused
  <1>4. OneUserPerEmail'
    BY <1>1, <1>2, <1>3 DEF OneUserPerEmail, EmailInv
  <1>5. \A d \in Calls : d # c => call'[d] = call[d] /\ Creating(d)' = Creating(d)
    BY DEF Moved, Creating
  <1>6. ~Creating(c)' /\ Creating(c)
    BY DEF Moved, Creating
  <1>7. ASSUME NEW d \in Calls, NEW d2 \in Calls PROVE Apart(d, d2)'
    BY <1>5, <1>6 DEF Apart, EmailInv
  <1>8. ASSUME NEW d \in Calls PROVE Fresh(d)'
    <2>1. CASE d = c
      BY <2>1, <1>6 DEF Fresh, Creating
    <2>2. CASE d # c /\ call[d].pc = "insert" /\ call[d].email = m
      <3>1. m \in raced
        BY <1>6, <2>2 DEF EmailInv, Apart, Creating
      <3> QED
        BY <1>5, <2>2, <3>1 DEF Fresh
    <2>3. CASE d # c /\ ~(call[d].pc = "insert" /\ call[d].email = m)
      BY <1>2, <1>5, <2>3 DEF Fresh, EmailInv
    <2> QED
      BY <2>1, <2>2, <2>3
  <1> QED
    BY <1>4, <1>7, <1>8 DEF EmailInv

LEMMA EmailRemove ==
  ASSUME TypeOK, EmailInv, NEW v \in Ids, Remove(v)
  PROVE  EmailInv'
  <1>1. UNCHANGED <<schema, call, raced>>
    BY DEF Remove, history
  <1>2. \A f : With(f)' \subseteq With(f)
    BY RemoveFacts DEF With, Live
  <1>3. OneUserPerEmail'
    BY <1>1, <1>2 DEF OneUserPerEmail, EmailInv
  <1>4. \A c, d \in Calls : Apart(c, d)'
    BY <1>1 DEF EmailInv, Apart, Creating
  <1>5. \A c \in Calls : Fresh(c)'
    BY <1>1, <1>2 DEF EmailInv, Fresh
  <1> QED
    BY <1>3, <1>4, <1>5 DEF EmailInv

LEMMA EmailRestart ==
  ASSUME TypeOK, EmailInv, Restart
  PROVE  EmailInv'
  <1>1. UNCHANGED <<schema, users, raced>> /\ \A c \in Calls : call'[c].pc = "rest"
    BY RestartFacts
  <1>2. OneUserPerEmail'
    BY <1>1 DEF OneUserPerEmail, EmailInv, With, Live, Ids
  <1>3. \A c \in Calls : ~Creating(c)' /\ Fresh(c)'
    BY <1>1 DEF Creating, Fresh
  <1>4. \A c, d \in Calls : Apart(c, d)'
    BY <1>3 DEF Apart
  <1> QED
    BY <1>2, <1>3, <1>4 DEF EmailInv

LEMMA EmailEnds ==
  ASSUME TypeOK, EmailInv, NEW c \in Calls, Moved(c, "rest", Nobody, Nobody, 0),
         UNCHANGED <<schema, users, raced>>
  PROVE  EmailInv'
  BY EmailMoved

LEMMA EmailStep == TypeOK /\ EmailInv /\ [Next]_vars => EmailInv'
  <1> SUFFICES ASSUME TypeOK, EmailInv, [Next]_vars PROVE EmailInv'
    OBVIOUS
  <1>1. CASE UNCHANGED <<schema, users, call, raced>>
    <2>1. \A f : With(f)' = With(f)
      BY <1>1, Zenon DEF With, Live, Ids
    <2> QED
      BY <1>1, <2>1 DEF EmailInv, OneUserPerEmail, Apart, Fresh, Creating
  <1>2. ASSUME NEW s \in States, Expire(s) \/ \E p \in Providers : Authorize(s, p)
        PROVE  EmailInv'
    BY <1>1, <1>2 DEF Expire, Authorize, history
  <1>3. ASSUME NEW c \in Calls, NEW i \in Identities \cup {Nobody}, NEW e \in Emails,
               Reads, BeginCreate(c, i, e)
        PROVE  EmailInv'
    <2>1. UNCHANGED <<schema, users>>
      BY <1>3 DEF Reads
    <2> QED
      BY <1>3, <2>1, BeginCreateFacts, EmailMoved
  <1>4. ASSUME NEW c \in Calls, NEW e \in Emails, Create(c, e)
        PROVE  EmailInv'
    BY <1>3, <1>4 DEF Create
  <1>5. ASSUME NEW c \in Calls, NEW e \in Emails, NEW i \in Identities, Telegram(c, i, e)
        PROVE  EmailInv'
    <2>1. Moved(c, "link", i, e, 0) /\ UNCHANGED <<schema, users, raced>>
      BY <1>5, BeginSignInFacts DEF Telegram, PCs
    <2> QED
      BY <2>1, EmailMoved
  <1>6. ASSUME NEW c \in Calls, NEW e \in Emails, NEW i \in Identities, NEW s \in States,
               Callback(c, s, i, e)
        PROVE  EmailInv'
    <2>1. Moved(c, "fetch", i, e, 0) /\ UNCHANGED <<schema, users, raced>>
      BY <1>6, BeginSignInFacts DEF Callback, PCs
    <2> QED
      BY <2>1, EmailMoved
  <1>7. ASSUME NEW c \in Calls, NEW q, NEW u, Steps(c, q, u), q \notin {"check", "insert"}
        PROVE  EmailInv'
    BY <1>7, EmailMoved DEF Steps, Reads
  <1>8. ASSUME NEW c \in Calls, Reads, UNCHANGED raced, Ends(c)
        PROVE  EmailInv'
    BY <1>8, EndsFacts, EmailEnds DEF Reads
  <1>9. ASSUME NEW c \in Calls, Fetch(c) \/ ReadLink(c)
        PROVE  EmailInv'
    BY <1>7, <1>9, FetchSteps, ReadLinkSteps
  <1>10. ASSUME NEW c \in Calls, ByEmail(c)
         PROVE  EmailInv'
    <2>1. CASE BeginCreate(c, call[c].ident, call[c].email)
      BY <1>3, <1>10, <2>1, ByEmailSteps
    <2>2. CASE ~BeginCreate(c, call[c].ident, call[c].email)
      BY <1>7, <1>10, <2>2, ByEmailSteps
    <2> QED
      BY <2>1, <2>2
  <1>11. ASSUME NEW c \in Calls, Known(c) \/ AddLink(c)
         PROVE  EmailInv'
    <2>1. Ends(c) /\ UNCHANGED <<schema, users, raced>>
      BY <1>11 DEF Known, AddLink, Answers
    <2> QED
      BY <2>1, EndsFacts, EmailEnds
  <1>12. ASSUME NEW c \in Calls, Check(c)
         PROVE  EmailInv'
    <2>1. CASE With(call[c].email) = {} /\ Steps(c, "insert", call[c].user)
      <3>1. call[c].pc = "check" /\ Creating(c)
        BY <1>12, CheckSteps DEF Creating
      <3>2. \A d \in Calls : d # c /\ Creating(d) /\ call[d].email = call[c].email =>
              call[c].email \in raced
        BY <3>1 DEF EmailInv, Apart
      <3> QED
        BY <2>1, <3>2, EmailMoved DEF Steps, Reads
    <2>2. CASE Ends(c)
      BY <1>8, <1>12, <2>2, CheckSteps
    <2> QED
      BY <1>12, <2>1, <2>2, CheckSteps
  <1>13. ASSUME NEW c \in Calls, Insert(c)
         PROVE  EmailInv'
    <2>1. Len(users) + 1 \in 0..MaxUsers /\ "created" \in PCs
      BY <1>13, IdFacts, AccountsAssumption DEF Insert, PCs
    <2>2. Moved(c, "created", call[c].ident, call[c].email, Len(users) + 1)
      BY <1>13, <2>1, HasFacts DEF Insert
    <2> QED
      BY <1>13, <2>2, EmailInserted DEF Insert, history
  <1>14. ASSUME NEW c \in Calls, Refuse(c)
         PROVE  EmailInv'
    BY <1>8, <1>14, RefuseSteps
  <1>15. ASSUME NEW c \in Calls, Created(c)
         PROVE  EmailInv'
    BY <1>7, <1>8, <1>15, CreatedSteps
  <1>16. ASSUME NEW c \in Calls, Fault(c)
         PROVE  EmailInv'
    <2>1. Moved(c, "rest", Nobody, Nobody, 0) /\ UNCHANGED <<schema, raced>>
      BY <1>16, FaultKinds
    <2>2. CASE UNCHANGED users
      BY <2>1, <2>2, EmailEnds
    <2>3. CASE /\ call[c].pc = "insert" /\ ~Refused(c) /\ Len(users) < MaxUsers
               /\ users' = Inserted(c)
      BY <2>1, <2>3, EmailInserted
    <2> QED
      BY <1>16, <2>2, <2>3, FaultKinds
  <1>17. ASSUME NEW u \in Ids, Remove(u) PROVE EmailInv'
    BY <1>17, EmailRemove
  <1>18. CASE Restart
    BY <1>18, EmailRestart
  <1>19. CASE UNCHANGED vars
    BY <1>1, <1>19 DEF vars, history
  <1> QED
    BY <1>2, <1>4, <1>5, <1>6, <1>9, <1>10, <1>11, <1>12, <1>13, <1>14, <1>15, <1>16, <1>17,
       <1>18, <1>19 DEF Next

-----------------------------------------------------------------------------
(* LinkInv is kept.                                                        *)

\* Some call moves; the users and the links are the same.
LEMMA LinkMoved ==
  ASSUME TypeOK, LinkInv, NEW c \in Calls, NEW q, NEW i, NEW e, NEW u, Moved(c, q, i, e, u),
         UNCHANGED <<schema, users, links>>, mixed \subseteq mixed', AnswerIsLinked',
         i \in Identities => \/ i = call[c].ident
                            \/ \A d \in Calls : d # c /\ call[d].ident = i => i \in mixed',
         q \in Past /\ i \in Identities => i \in mixed' \/ Linked(i) = {},
         q = "known" => i \in mixed' \/ u \in Linked(i)
  PROVE  LinkInv'
  <1>1. \A j : Linked(j)' = Linked(j)
    BY Zenon DEF Linked, Ids
  <1>2. \A w : Live(w)' = Live(w)
    BY DEF Live, Ids
  <1>3. LinkedOnce'
    BY <1>1 DEF LinkedOnce, LinkInv
  <1>4. \A d \in Calls : d # c => call'[d] = call[d]
    BY DEF Moved
  <1>5. ASSUME NEW d \in Calls, NEW d2 \in Calls PROVE Alone(d, d2)'
    <2>1. CASE d = c \/ d2 = c
      BY <1>4, <2>1 DEF Alone, Moved, LinkInv
    <2>2. CASE d # c /\ d2 # c
      BY <1>4, <2>2 DEF Alone, LinkInv
    <2> QED
      BY <2>1, <2>2
  <1>6. ASSUME NEW d \in Calls PROVE Unlinked(d)' /\ StillLinked(d)'
    <2>1. CASE d = c
      BY <1>1, <2>1 DEF Unlinked, StillLinked, Moved
    <2>2. CASE d # c
      BY <1>1, <1>2, <1>4, <2>2 DEF Unlinked, StillLinked, LinkInv
    <2> QED
      BY <2>1, <2>2
  <1> QED
    BY <1>3, <1>5, <1>6 DEF LinkInv

\* A step that changes no answer.
LEMMA SameAnswers ==
  ASSUME LinkInv, UNCHANGED <<users, links, answered>>, mixed \subseteq mixed'
  PROVE  AnswerIsLinked'
  <1>1. \A j, w : Linked(j)' = Linked(j) /\ Live(w)' = Live(w)
    BY Zenon DEF Linked, Live, Ids
  <1> QED
    BY <1>1 DEF LinkInv, AnswerIsLinked

LEMMA LinkEnds ==
  ASSUME TypeOK, LinkInv, NEW c \in Calls, Moved(c, "rest", Nobody, Nobody, 0),
         UNCHANGED <<schema, users, links, answered, mixed>>
  PROVE  LinkInv'
  <1>1. AnswerIsLinked'
    BY SameAnswers
  <1>2. Nobody \notin Identities /\ "rest" \notin Past
    BY AccountsAssumption DEF Past
  <1> QED
    BY <1>1, <1>2, LinkMoved

\* A user is inserted, with or without the reply.
LEMMA LinkInserted ==
  ASSUME TypeOK, LinkInv, NEW c \in Calls, NEW q \in {"created", "rest"}, NEW i, NEW e, NEW u,
         Moved(c, q, i, e, u), i \in {call[c].ident, Nobody}, call[c].pc = "insert",
         Len(users) < MaxUsers, users' = Inserted(c), UNCHANGED <<schema, links, answered, mixed>>
  PROVE  LinkInv'
  <1>1. \A w \in Ids : Live(w)' = Live(w)
    BY InsertedFacts DEF Live
  <1>2. ASSUME NEW j \in Identities PROVE Linked(j)' = Linked(j)
    <2>1. \A w : Link(j, w) \in links => w \in Ids
      BY DEF TypeOK, Link
    <2>2. Ids \subseteq Ids'
      BY InsertedFacts
    <2>3. \A w : w \in Linked(j)' <=> w \in Linked(j)
      BY <2>1, <2>2 DEF Linked, Link
    <2> QED
      BY <2>3 DEF Linked
  <1>3. LinkedOnce'
    BY <1>2 DEF LinkedOnce, LinkInv
  <1>4. AnswerIsLinked'
    <2>1. answered \in [Identities -> SUBSET Ids]
      BY DEF TypeOK
    <2> QED
      BY <1>1, <1>2, <2>1 DEF AnswerIsLinked, LinkInv
  <1>5. \A d \in Calls : d # c => call'[d] = call[d]
    BY DEF Moved
  <1>6. Nobody \notin Identities
    BY AccountsAssumption
  <1>7. ASSUME NEW d \in Calls, NEW d2 \in Calls PROVE Alone(d, d2)'
    <2>1. CASE d = c \/ d2 = c
      BY <1>5, <1>6, <2>1 DEF Alone, Moved, LinkInv
    <2>2. CASE d # c /\ d2 # c
      BY <1>5, <2>2 DEF Alone, LinkInv
    <2> QED
      BY <2>1, <2>2
  <1>8. ASSUME NEW d \in Calls PROVE Unlinked(d)' /\ StillLinked(d)'
    <2>1. CASE d = c
      <3>1. i \in Identities => i \in mixed \/ Linked(i) = {}
        BY <1>6 DEF LinkInv, Unlinked, Past
      <3> QED
        BY <1>2, <2>1, <3>1 DEF Unlinked, StillLinked, Moved
    <2>2. CASE d # c
      <3>1. call'[d] = call[d] /\ Unlinked(d) /\ StillLinked(d)
        BY <1>5, <2>2 DEF LinkInv
      <3>2. Unlinked(d)'
        BY <1>2, <3>1 DEF Unlinked
      <3>3. call[d].pc = "known" => call[d].user \in Ids /\ call[d].ident \in Identities
        BY CallFacts
      <3>4. StillLinked(d)'
        BY <1>1, <1>2, <3>1, <3>3 DEF StillLinked
      <3> QED
        BY <3>2, <3>4
    <2> QED
      BY <2>1, <2>2
  <1> QED
    BY <1>3, <1>4, <1>7, <1>8 DEF LinkInv

\* A link is inserted, with or without the reply.
LEMMA LinkedLink ==
  ASSUME TypeOK, LinkInv, NEW c \in Calls, Moved(c, "rest", Nobody, Nobody, 0),
         call[c].pc = "addLink", links' = LinkAdded(c), UNCHANGED <<schema, users, mixed>>,
         \A j \in Identities : \/ answered'[j] = answered[j]
                             \/ /\ j = call[c].ident
                                /\ answered'[j] = answered[j] \cup {call[c].user}
  PROVE  LinkInv'
  <1> PICK i : i = call[c].ident
    OBVIOUS
  <1> PICK u : u = call[c].user
    OBVIOUS
  <1>1. /\ i \in Identities /\ u \in Ids /\ Ids' = Ids /\ links \subseteq links'
        /\ \A l \in links' : l \in links \/ (~Conflict(c) /\ l = Link(i, u))
        /\ ~Conflict(c) => Link(i, u) \in links'
    BY LinkFacts DEF Ids
  <1>2. \A w : Live(w)' = Live(w)
    BY DEF Live, Ids
  <1>3. \A j : Linked(j) \subseteq Linked(j)'
    BY <1>1 DEF Linked, Link
  <1>4. \A j : j # i => Linked(j)' = Linked(j)
    <2>1. \A j, w : j # i => Link(j, w) # Link(i, u)
      BY DEF Link
    <2> QED
      BY <1>1, <1>3, <2>1 DEF Linked, Link
  <1>5. i \in mixed \/ Linked(i) = {}
    BY <1>1 DEF LinkInv, Unlinked, Past
  <1>6. /\ Linked(i)' \subseteq Linked(i) \cup {u}
        /\ Linked(i) = {} => Linked(i)' = {u}
        /\ schema.link /\ Linked(i) # {} => Linked(i)' = Linked(i)
    <2>1. \A w : Link(i, w) = Link(i, u) => w = u
      BY DEF Link
    <2>2. Conflict(c) <=> schema.link /\ Linked(i) # {}
      BY DEF Conflict
    <2>3. \A w \in Linked(i)' : w \in Linked(i) \/ (~Conflict(c) /\ w = u)
      BY <1>1, <2>1 DEF Linked
    <2>4. ~Conflict(c) => u \in Linked(i)'
      BY <1>1 DEF Linked, Link
    <2> QED
      BY <1>3, <2>2, <2>3, <2>4
  <1>7. LinkedOnce'
    <2>1. ASSUME NEW j \in Identities, schema.link \/ j \notin mixed,
                 NEW v \in Linked(j)', NEW w \in Linked(j)'
          PROVE  v = w
      <3>1. CASE j = i
        BY <1>5, <1>6, <2>1, <3>1 DEF LinkInv, LinkedOnce
      <3>2. CASE j # i
        BY <1>4, <2>1, <3>2 DEF LinkInv, LinkedOnce
      <3> QED
        BY <3>1, <3>2
    <2> QED
      BY <2>1 DEF LinkedOnce
  <1>8. AnswerIsLinked'
    <2>1. ASSUME NEW j \in Identities, j \notin mixed, NEW w \in answered'[j], Live(w)
          PROVE  w \in Linked(j)'
      <3>1. CASE w \in answered[j]
        BY <1>3, <2>1, <3>1 DEF LinkInv, AnswerIsLinked
      <3>2. CASE j = i /\ w = u
        BY <1>5, <1>6, <2>1, <3>2
      <3> QED
        BY <2>1, <3>1, <3>2
    <2> QED
      BY <1>2, <2>1 DEF AnswerIsLinked
  <1>9. \A d \in Calls : d # c => call'[d] = call[d]
    BY DEF Moved
  <1>10. Nobody \notin Identities
    BY AccountsAssumption
  <1>11. ASSUME NEW d \in Calls, NEW d2 \in Calls PROVE Alone(d, d2)'
    <2>1. CASE d = c \/ d2 = c
      BY <1>9, <1>10, <2>1 DEF Alone, Moved
    <2>2. CASE d # c /\ d2 # c
      BY <1>9, <2>2 DEF Alone, LinkInv
    <2> QED
      BY <2>1, <2>2
  <1>12. ASSUME NEW d \in Calls PROVE Unlinked(d)' /\ StillLinked(d)'
    <2>1. CASE d = c
      BY <2>1 DEF Unlinked, StillLinked, Moved, Past
    <2>2. CASE d # c
      <3>1. call'[d] = call[d] /\ Unlinked(d) /\ StillLinked(d)
        BY <1>9, <2>2 DEF LinkInv
      <3>2. call[d].ident = i => i \in mixed
        BY <1>1, <2>2 DEF LinkInv, Alone
      <3>3. Unlinked(d)'
        BY <1>4, <3>1, <3>2 DEF Unlinked
      <3>4. StillLinked(d)'
        BY <1>2, <1>3, <3>1 DEF StillLinked
      <3> QED
        BY <3>3, <3>4
    <2> QED
      BY <2>1, <2>2
  <1> QED
    BY <1>7, <1>8, <1>11, <1>12 DEF LinkInv

LEMMA LinkRemove ==
  ASSUME TypeOK, LinkInv, NEW v \in Ids, Remove(v)
  PROVE  LinkInv'
  <1>1. /\ UNCHANGED <<schema, call, answered, mixed>> /\ Ids' = Ids
        /\ links' \subseteq links /\ \A l \in links : l.user # v => l \in links'
    BY RemoveFacts DEF Remove, history
  <1>2. \A w : Live(w)' => Live(w) /\ w # v
    BY <1>1, RemoveFacts DEF Live
  <1>3. \A j : Linked(j)' \subseteq Linked(j)
    BY <1>1 DEF Linked, Link
  <1>4. \A j, w : w # v /\ w \in Linked(j) => w \in Linked(j)'
    <2>1. \A j, w : Link(j, w).user = w
      BY DEF Link
    <2> QED
      BY <1>1, <2>1 DEF Linked, Link
  <1>5. LinkedOnce'
    BY <1>1, <1>3 DEF LinkInv, LinkedOnce
  <1>6. AnswerIsLinked'
    BY <1>1, <1>2, <1>4 DEF LinkInv, AnswerIsLinked
  <1>7. \A c, d \in Calls : Alone(c, d)'
    BY <1>1 DEF LinkInv, Alone
  <1>8. \A c \in Calls : Unlinked(c)' /\ StillLinked(c)'
    BY <1>1, <1>2, <1>3, <1>4 DEF LinkInv, Unlinked, StillLinked
  <1> QED
    BY <1>5, <1>6, <1>7, <1>8 DEF LinkInv

LEMMA LinkRestart ==
  ASSUME TypeOK, LinkInv, Restart
  PROVE  LinkInv'
  <1>1. /\ UNCHANGED <<schema, users, links, answered, mixed>> /\ Nobody \notin Identities
        /\ \A c \in Calls : call'[c].pc = "rest" /\ call'[c].ident = Nobody
    BY RestartFacts, AccountsAssumption
  <1>2. AnswerIsLinked'
    BY <1>1, SameAnswers
  <1>3. LinkedOnce'
    BY <1>1 DEF LinkInv, LinkedOnce, Linked, Ids
  <1>4. \A c, d \in Calls : Alone(c, d)'
    BY <1>1 DEF Alone
  <1>5. \A c \in Calls : Unlinked(c)' /\ StillLinked(c)'
    BY <1>1 DEF Unlinked, StillLinked, Past
  <1> QED
    BY <1>2, <1>3, <1>4, <1>5 DEF LinkInv

LEMMA LinkStep == TypeOK /\ LinkInv /\ [Next]_vars => LinkInv'
  <1> SUFFICES ASSUME TypeOK, LinkInv, [Next]_vars PROVE LinkInv'
    OBVIOUS
  <1>1. Nobody \notin Identities /\ Past \cap {"rest", "fetch", "link", "known"} = {}
    BY AccountsAssumption DEF Past
  <1>2. CASE UNCHANGED <<schema, users, links, call, answered, mixed>>
    <2>1. \A j, w : Linked(j)' = Linked(j) /\ Live(w)' = Live(w)
      BY <1>2, Zenon DEF Linked, Live, Ids
    <2> QED
      BY <1>2, <2>1
         DEF LinkInv, LinkedOnce, AnswerIsLinked, Alone, Unlinked, StillLinked
  <1>3. ASSUME NEW s \in States, Expire(s) \/ \E p \in Providers : Authorize(s, p)
        PROVE  LinkInv'
    BY <1>2, <1>3 DEF Expire, Authorize, history
  <1>4. ASSUME NEW c \in Calls, NEW e \in Emails, Create(c, e)
        PROVE  LinkInv'
    <2>1. Reads /\ BeginCreate(c, Nobody, e) /\ Nobody \in Identities \cup {Nobody}
      BY <1>4 DEF Create
    <2>2. Moved(c, "check", Nobody, e, 0) /\ UNCHANGED <<schema, users, links, answered, mixed>>
      BY <2>1, BeginCreateFacts DEF Reads
    <2> QED
      BY <1>1, <2>2, SameAnswers, LinkMoved
  <1>5. ASSUME NEW c \in Calls, NEW e \in Emails, NEW i \in Identities, NEW q \in {"link", "fetch"},
               BeginSignIn(c, q, i, e), UNCHANGED <<schema, users, links, answered>>
        PROVE  LinkInv'
    <2>1. /\ Moved(c, q, i, e, 0) /\ mixed \subseteq mixed'
          /\ \A d \in Calls : d # c /\ call[d].ident = i => i \in mixed'
      BY <1>5, BeginSignInFacts DEF PCs
    <2>2. AnswerIsLinked'
      BY <1>5, <2>1, SameAnswers
    <2>3. q \notin Past /\ q # "known"
      BY DEF Past
    <2> QED
      BY <1>5, <2>1, <2>2, <2>3, LinkMoved
  <1>6. ASSUME NEW c \in Calls, NEW e \in Emails, NEW i \in Identities,
               Telegram(c, i, e) \/ \E s \in States : Callback(c, s, i, e)
        PROVE  LinkInv'
    BY <1>5, <1>6 DEF Telegram, Callback
  <1>7. ASSUME NEW c \in Calls, Reads, Ends(c)
        PROVE  LinkInv'
    BY <1>7, EndsFacts, LinkEnds DEF Reads
  \* A call that goes on past the look for a link, or has been there before.
  <1>8. ASSUME NEW c \in Calls, NEW q, NEW u, Steps(c, q, u),
               q \in Past => call[c].pc \in Past \/ Linked(call[c].ident) = {},
               q = "known" => u \in Linked(call[c].ident)
        PROVE  LinkInv'
    <2>1. /\ Moved(c, q, call[c].ident, call[c].email, u)
          /\ UNCHANGED <<schema, users, links, answered, mixed>>
      BY <1>8 DEF Steps, Reads
    <2>2. q \in Past /\ call[c].ident \in Identities =>
            call[c].ident \in mixed \/ Linked(call[c].ident) = {}
      BY <1>8 DEF LinkInv, Unlinked
    <2> QED
      BY <1>8, <2>1, <2>2, SameAnswers, LinkMoved
  <1>9. ASSUME NEW c \in Calls, Fetch(c)
        PROVE  LinkInv'
    BY <1>1, <1>8, <1>9, FetchSteps
  <1>10. ASSUME NEW c \in Calls, ReadLink(c)
         PROVE  LinkInv'
    BY <1>1, <1>8, <1>10, ReadLinkSteps
  <1>11. ASSUME NEW c \in Calls, ByEmail(c)
         PROVE  LinkInv'
    <2>1. call[c].pc \in Past
      BY <1>11, ByEmailSteps DEF Past
    <2>2. CASE BeginCreate(c, call[c].ident, call[c].email)
      <3>1. /\ Moved(c, "check", call[c].ident, call[c].email, 0)
            /\ UNCHANGED <<schema, users, links, answered, mixed>>
        BY <1>11, <2>2, BeginCreateFacts, ByEmailSteps DEF Reads
      <3>2. call[c].ident \in Identities =>
              call[c].ident \in mixed \/ Linked(call[c].ident) = {}
        BY <2>1 DEF LinkInv, Unlinked
      <3> QED
        BY <3>1, <3>2, SameAnswers, LinkMoved
    <2>3. CASE ~BeginCreate(c, call[c].ident, call[c].email)
      BY <1>8, <1>11, <2>1, <2>3, ByEmailSteps
    <2> QED
      BY <2>2, <2>3
  <1>12. ASSUME NEW c \in Calls, Known(c)
         PROVE  LinkInv'
    <2>1. /\ call[c].pc = "known" /\ UNCHANGED <<schema, users, links, mixed>>
          /\ Moved(c, "rest", Nobody, Nobody, 0)
      BY <1>12, EndsFacts DEF Known, Answers
    <2>2. call[c].user \in Ids /\ call[c].ident \in Identities
      BY <2>1, CallFacts
    <2>3. CASE ~Live(call[c].user)
      BY <1>12, <2>1, <2>3, LinkEnds DEF Known
    <2>4. CASE Live(call[c].user)
      <3>1. /\ answered'[call[c].ident] = answered[call[c].ident] \cup {call[c].user}
            /\ \A i \in Identities : i # call[c].ident => answered'[i] = answered[i]
        BY <1>12, <2>2, <2>4, AnswersFacts DEF Known
      <3>2. call[c].ident \in mixed \/ call[c].user \in Linked(call[c].ident)
        BY <2>1, <2>4 DEF LinkInv, StillLinked
      <3>3. \A j, w : Linked(j)' = Linked(j) /\ Live(w)' = Live(w)
        BY <2>1, Zenon DEF Linked, Live, Ids
      <3>4. AnswerIsLinked'
        BY <2>1, <3>1, <3>2, <3>3 DEF LinkInv, AnswerIsLinked
      <3> QED
        BY <1>1, <2>1, <3>4, LinkMoved
    <2> QED
      BY <2>3, <2>4
  <1>13. ASSUME NEW c \in Calls, AddLink(c)
         PROVE  LinkInv'
    <2>1. /\ call[c].pc = "addLink" /\ UNCHANGED <<schema, users, mixed>>
          /\ Moved(c, "rest", Nobody, Nobody, 0)
      BY <1>13, EndsFacts DEF AddLink, Answers
    <2>2. CASE Broken(c)
      BY <1>13, <2>1, <2>2, LinkEnds DEF AddLink
    <2>3. CASE ~Broken(c)
      <3>1. call[c].user \in Ids /\ call[c].ident \in Identities
        BY <2>1, CallFacts
      <3>2. links' = LinkAdded(c) /\ Answers(c, call[c].user)
        BY <1>13, <2>3 DEF AddLink
      <3>3. /\ answered'[call[c].ident] = answered[call[c].ident] \cup {call[c].user}
            /\ \A i \in Identities : i # call[c].ident => answered'[i] = answered[i]
        BY <3>1, <3>2, AnswersFacts
      <3> QED
        BY <2>1, <3>2, <3>3, LinkedLink
    <2> QED
      BY <2>2, <2>3
  <1>14. ASSUME NEW c \in Calls, Check(c)
         PROVE  LinkInv'
    <2>1. call[c].pc \in Past
      BY <1>14, CheckSteps DEF Past
    <2> QED
      BY <1>7, <1>8, <1>14, <2>1, CheckSteps
  <1>15. ASSUME NEW c \in Calls, Insert(c)
         PROVE  LinkInv'
    <2>1. Len(users) + 1 \in 0..MaxUsers /\ "created" \in PCs
      BY <1>15, IdFacts, AccountsAssumption DEF Insert, PCs
    <2>2. Moved(c, "created", call[c].ident, call[c].email, Len(users) + 1)
      BY <1>15, <2>1, HasFacts DEF Insert
    <2>3. /\ call[c].pc = "insert" /\ Len(users) < MaxUsers /\ users' = Inserted(c)
          /\ UNCHANGED <<schema, links, answered, mixed>>
      BY <1>15 DEF Insert, history
    <2> QED
      BY <2>2, <2>3, LinkInserted
  <1>16. ASSUME NEW c \in Calls, Refuse(c)
         PROVE  LinkInv'
    BY <1>7, <1>16, RefuseSteps
  <1>17. ASSUME NEW c \in Calls, Created(c)
         PROVE  LinkInv'
    <2>1. call[c].pc \in Past
      BY <1>17, CreatedSteps DEF Past
    <2> QED
      BY <1>7, <1>8, <1>17, <2>1, CreatedSteps
  <1>18. ASSUME NEW c \in Calls, Fault(c)
         PROVE  LinkInv'
    <2>1. Moved(c, "rest", Nobody, Nobody, 0) /\ UNCHANGED <<schema, answered, mixed>>
      BY <1>18, FaultKinds
    <2>2. CASE UNCHANGED <<users, links>>
      BY <2>1, <2>2, LinkEnds
    <2>3. CASE /\ call[c].pc = "insert" /\ Len(users) < MaxUsers /\ users' = Inserted(c)
               /\ UNCHANGED links
      BY <2>1, <2>3, LinkInserted
    <2>4. CASE call[c].pc = "addLink" /\ links' = LinkAdded(c) /\ UNCHANGED users
      BY <2>1, <2>4, LinkedLink
    <2> QED
      BY <1>18, <2>2, <2>3, <2>4, FaultKinds
  <1>19. ASSUME NEW u \in Ids, Remove(u) PROVE LinkInv'
    BY <1>19, LinkRemove
  <1>20. CASE Restart
    BY <1>20, LinkRestart
  <1>21. CASE UNCHANGED vars
    BY <1>2, <1>21 DEF vars, history
  <1> QED
    BY <1>3, <1>4, <1>6, <1>9, <1>10, <1>11, <1>12, <1>13, <1>14, <1>15, <1>16, <1>17, <1>18,
       <1>19, <1>20, <1>21 DEF Next

-----------------------------------------------------------------------------
(* The theorem.                                                            *)

LEMMA AccountsInit == Init => StateInv /\ EmailInv /\ LinkInv
  <1> SUFFICES ASSUME Init PROVE StateInv /\ EmailInv /\ LinkInv
    OBVIOUS
  <1>1. Ids = {}
    BY DEF Init, Ids
  <1>2. /\ \A c \in Calls : call[c].pc = "rest" /\ call[c].ident = Nobody
        /\ Nobody \notin Identities
    BY AccountsAssumption DEF Init, Resting
  <1>3. StateInv
    BY DEF Init, StateInv
  <1>4. EmailInv
    BY <1>1, <1>2 DEF EmailInv, OneUserPerEmail, With, Apart, Fresh, Creating
  <1>5. LinkInv
    <2>1. \A i \in Identities : Linked(i) = {} /\ answered[i] = {}
      BY <1>1 DEF Init, Linked
    <2> QED
      BY <1>2, <2>1
         DEF LinkInv, LinkedOnce, AnswerIsLinked, Alone, Unlinked, StillLinked, Past
  <1> QED
    BY <1>3, <1>4, <1>5

\* Sign-ins and creations of users, whatever fails, restarts, expires or is
\* deleted between any two of their queries, and whatever the schema enforces,
\* leave one user with an e-mail and one link of an identity, unless the schema
\* allows more and calls for that e-mail or identity overlapped; an identity
\* stays linked to whom it was signed in as, and a state lets in one callback.
THEOREM AccountsCorrect ==
  Spec => []TypeOK /\ []OneUserPerEmail /\ []LinkedOnce /\ []AnswerIsLinked /\ []StateOnce
  <1> DEFINE IInv == TypeOK /\ StateInv /\ EmailInv /\ LinkInv
  <1>1. Init => IInv
    BY TypeInit, AccountsInit
  <1>2. IInv /\ [Next]_vars => IInv'
    BY TypeStep, StateStep, EmailStep, LinkStep
  <1>3. IInv => TypeOK /\ OneUserPerEmail /\ LinkedOnce /\ AnswerIsLinked /\ StateOnce
    BY DEF EmailInv, LinkInv, StateInv, StateOnce
  <1> QED
    BY <1>1, <1>2, <1>3, PTL DEF Spec

\* OneUserPerEmail: sign-ins and creations leave one user with an e-mail, if it is
\* unique in the schema or they did not overlap.
COROLLARY OneUserCorrect == Spec => []OneUserPerEmail
  BY AccountsCorrect, PTL

\* AnswerIsLinked: whom an identity was signed in as, it stays linked to as long
\* as that user exists, unless sign-ins of that identity overlapped.
COROLLARY AnswerCorrect == Spec => []AnswerIsLinked
  BY AccountsCorrect, PTL

\* StateOnce: an authorization state lets in a single callback.
COROLLARY StateOnceCorrect == Spec => []StateOnce
  BY AccountsCorrect, PTL

=============================================================================

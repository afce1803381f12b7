-------------------------------- MODULE Accounts --------------------------------
(***************************************************************************)
(* How people come by their accounts: the sign-in with an identity of      *)
(* another provider (src/src/oidc/oidc.service.ts) and the creation and    *)
(* deletion of users (src/src/users/users.service.ts).  A first sign-in    *)
(* looks for a link, for a user with the e-mail, creates the user and then *)
(* the link: up to seven queries without a transaction, between which      *)
(* other sign-ins and creations run.                                       *)
(*                                                                         *)
(* A continuation touches nothing but the locals of its call, so a step is *)
(* the execution of a query together with what follows its reply.          *)
(***************************************************************************)
EXTENDS Integers, Sequences, FiniteSets

CONSTANTS
  Providers,    \* ids of rows of oidc_providers, which stay
  Identities,   \* whom providers may name: a provider's subjects
  ProviderOf,   \* the provider of each identity
  Emails,
  States,       \* the values the parameter state may have
  Calls,        \* sign-ins and creations that may be under way at the same time
  Schemas,      \* what the schema may be, see below
  MaxUsers,     \* bound on the rows of users, over all time
  MaxFaults     \* bound on failed queries and fetches, lost replies, restarts

\* The schema is not part of the repository: e-mails, and the identities that
\* are linked, may be unique, and user_idp_links.user_id a plain number or a
\* reference that cascades or refuses a deletion.
Schema == [email : BOOLEAN, link : BOOLEAN, fk : {"none", "cascade", "restrict"}]

Nobody == "nobody"   \* instead of an identity or an e-mail

ASSUME AccountsAssumption ==
  /\ Schemas \subseteq Schema
  /\ ProviderOf \in [Identities -> Providers] /\ Nobody \notin Identities
  /\ MaxUsers \in Nat /\ MaxFaults \in Nat

VARIABLES
  schema,     \* the schema the database has
  users,      \* table users: the rows by id, with those that were deleted
  links,      \* table user_idp_links
  store,      \* stateStore, with the states not in it
  call,       \* the calls under way
  served,     \* history: the callbacks that each state has let in
  answered,   \* history: the users that sign-ins of each identity have had
  raced,      \* history: e-mails of which two creations overlapped
  mixed,      \* history: identities of which two sign-ins overlapped
  faults

web     == <<store, served>>
history == <<answered, raced, mixed>>
vars    == <<schema, users, links, call, web, history, faults>>

-----------------------------------------------------------------------------
Ids     == 1..Len(users)
Live(u) == u \in Ids /\ users[u].there

With(e)    == {u \in Ids : Live(u) /\ users[u].email = e}
Link(i, u) == [ident |-> i, user |-> u]
Linked(i)  == {u \in Ids : Link(i, u) \in links}

\* A call: the query it waits for, the identity that signs in, the e-mail, and
\* the user it has found or created.
Resting == [pc |-> "rest", ident |-> Nobody, email |-> Nobody, user |-> 0]

Goes(c, v) == call' = [call EXCEPT ![c] = v]
Ends(c)    == Goes(c, Resting)
To(c, q)   == Goes(c, [call[c] EXCEPT !.pc = q])
Has(c, q, u) == Goes(c, [call[c] EXCEPT !.pc = q, !.user = u])

Creating(c) == call[c].pc \in {"check", "insert"}

\* What a query that only reads leaves alone.
Reads == UNCHANGED <<schema, users, links, web, answered, mixed, faults>>

\* create(email) begins, for an administrator or for a sign-in.
BeginCreate(c, i, e) ==
  /\ Goes(c, [pc |-> "check", ident |-> i, email |-> e, user |-> 0])
  /\ raced' = raced \cup {f \in {e} : \E d \in Calls \ {c} : Creating(d) /\ call[d].email = f}

\* A sign-in begins.
BeginSignIn(c, q, i, e) ==
  /\ Goes(c, [pc |-> q, ident |-> i, email |-> e, user |-> 0])
  /\ mixed' = mixed \cup {j \in {i} : \E d \in Calls \ {c} : call[d].ident = j}

-----------------------------------------------------------------------------
(* The state of an authorization.                                          *)

\* buildAuthorizationUrl puts a state in the store, once it has the provider.
Authorize(s, p) ==
  /\ store[s].in = "never"
  /\ store' = [store EXCEPT ![s] = [in |-> "kept", provider |-> p]]
  /\ UNCHANGED <<schema, users, links, call, served, history, faults>>

\* Ten minutes go by; the entry stays.
Expire(s) ==
  /\ store[s].in = "kept"
  /\ store' = [store EXCEPT ![s].in = "late"]
  /\ UNCHANGED <<schema, users, links, call, served, history, faults>>

Valid(s, p) == store[s].in = "kept" /\ store[s].provider = p

CallbackKeeps(c, s, i, e) ==   \* variant: the state is not deleted
  /\ call[c].pc = "rest" /\ Valid(s, ProviderOf[i])
  /\ served' = [served EXCEPT ![s] = @ + 1]
  /\ BeginSignIn(c, "fetch", i, e)
  /\ UNCHANGED <<schema, users, links, store, answered, raced, faults>>

\* handleCallback, which uses up a valid state before its first await; an
\* invalid one changes nothing.  Who signs in is what the provider will say.
Callback(c, s, i, e) ==
  /\ call[c].pc = "rest" /\ Valid(s, ProviderOf[i])
  /\ store' = [store EXCEPT ![s].in = "gone"]
  /\ served' = [served EXCEPT ![s] = @ + 1]
  /\ BeginSignIn(c, "fetch", i, e)
  /\ UNCHANGED <<schema, users, links, answered, raced, faults>>

\* handleTelegram, whose data are signed and need no state.
Telegram(c, i, e) ==
  /\ call[c].pc = "rest"
  /\ BeginSignIn(c, "link", i, e)
  /\ UNCHANGED <<schema, users, links, web, answered, raced, faults>>

\* The provider's row, its endpoints, the token and the userinfo are fetched.
Fetch(c) ==
  /\ call[c].pc = "fetch" /\ To(c, "link") /\ Reads /\ UNCHANGED raced

-----------------------------------------------------------------------------
(* findOrCreateOidcUser.                                                   *)

LinkUnread(c) ==   \* variant: the links are not looked at
  /\ call[c].pc = "link" /\ To(c, "byEmail") /\ Reads /\ UNCHANGED raced

\* SELECT user_id FROM user_idp_links: any row, if there is one.
ReadLink(c) ==
  /\ call[c].pc = "link" /\ Reads /\ UNCHANGED raced
  /\ \/ Linked(call[c].ident) = {} /\ To(c, "byEmail")
     \/ \E u \in Linked(call[c].ident) : Has(c, "known", u)

Answers(c, u) ==
  /\ Ends(c)
  /\ answered' = [answered EXCEPT ![call[c].ident] = @ \cup {u}]

\* findById of the linked user, who may be gone: UnauthorizedException.
Known(c) ==
  /\ call[c].pc = "known"
  /\ IF Live(call[c].user) THEN Answers(c, call[c].user) ELSE Ends(c) /\ UNCHANGED answered
  /\ UNCHANGED <<schema, users, links, web, raced, mixed, faults>>

ByEmailUnlinked(c) ==   \* variant: only a created user is linked
  /\ call[c].pc = "byEmail"
  /\ \/ /\ With(call[c].email) = {}
        /\ BeginCreate(c, call[c].ident, call[c].email) /\ UNCHANGED answered
     \/ \E u \in With(call[c].email) : Answers(c, u) /\ UNCHANGED raced
  /\ UNCHANGED <<schema, users, links, web, mixed, faults>>

\* findByEmail: any row; without one the user is created.
ByEmail(c) ==
  /\ call[c].pc = "byEmail" /\ Reads
  /\ \/ With(call[c].email) = {} /\ BeginCreate(c, call[c].ident, call[c].email)
     \/ \E u \in With(call[c].email) : Has(c, "addLink", u) /\ UNCHANGED raced

\* The INSERT of the link: ON CONFLICT DO NOTHING, an error if the user is gone
\* and the column is a reference, or a new link.
Conflict(c) == schema.link /\ Linked(call[c].ident) # {}
Broken(c)   == schema.fk # "none" /\ ~Live(call[c].user) /\ ~Conflict(c)
LinkAdded(c) ==
  IF Conflict(c) THEN links ELSE links \cup {Link(call[c].ident, call[c].user)}

AddLink(c) ==
  /\ call[c].pc = "addLink"
  /\ IF Broken(c)
     THEN Ends(c) /\ UNCHANGED <<links, answered>>
     ELSE links' = LinkAdded(c) /\ Answers(c, call[c].user)
  /\ UNCHANGED <<schema, users, web, raced, mixed, faults>>

-----------------------------------------------------------------------------
(* UsersService.                                                           *)

\* create, called by an administrator.
Create(c, e) ==
  /\ call[c].pc = "rest" /\ BeginCreate(c, Nobody, e) /\ Reads

CheckForgets(c) ==   \* variant: an e-mail in use is not rejected
  /\ call[c].pc = "check" /\ To(c, "insert") /\ Reads /\ UNCHANGED raced

\* findByEmail of create: ConflictException, or the password is hashed.
Check(c) ==
  /\ call[c].pc = "check" /\ Reads /\ UNCHANGED raced
  /\ IF With(call[c].email) = {} THEN To(c, "insert") ELSE Ends(c)

Refused(c) == schema.email /\ With(call[c].email) # {}

User(e) == [email |-> e, there |-> TRUE]
Inserted(c) == Append(users, User(call[c].email))

Insert(c) ==
  /\ call[c].pc = "insert" /\ ~Refused(c) /\ Len(users) < MaxUsers
  /\ users' = Inserted(c)
  /\ Has(c, "created", Len(users) + 1)
  /\ UNCHANGED <<schema, links, web, history, faults>>

\* The INSERT is refused, by the constraint or by the bound on rows.
Refuse(c) ==
  /\ call[c].pc = "insert" /\ (Refused(c) \/ Len(users) = MaxUsers)
  /\ Ends(c) /\ Reads /\ UNCHANGED raced

\* findById at the end of create, and again in the sign-in: a user that was
\* deleted meanwhile makes either throw.
Created(c) ==
  /\ call[c].pc \in {"created", "again"} /\ Reads /\ UNCHANGED raced
  /\ IF ~Live(call[c].user) \/ call[c].ident = Nobody THEN Ends(c)
     ELSE To(c, IF call[c].pc = "created" THEN "again" ELSE "addLink")

\* remove.
Remove(u) ==
  /\ Live(u)
  /\ LET mine == {l \in links : l.user = u} IN
     /\ schema.fk = "restrict" => mine = {}
     /\ links' = IF schema.fk = "cascade" THEN links \ mine ELSE links
  /\ users' = [users EXCEPT ![u].there = FALSE]
  /\ UNCHANGED <<schema, call, web, history, faults>>

-----------------------------------------------------------------------------
(* Failures.                                                               *)

\* A query or a fetch fails, or it is executed and its reply is lost: the call
\* ends there.
Fault(c) ==
  /\ call[c].pc # "rest" /\ faults < MaxFaults /\ faults' = faults + 1 /\ Ends(c)
  /\ \/ UNCHANGED <<users, links>>
     \/ /\ call[c].pc = "insert" /\ ~Refused(c) /\ Len(users) < MaxUsers
        /\ users' = Inserted(c) /\ UNCHANGED links
     \/ /\ call[c].pc = "addLink" /\ ~Broken(c)
        /\ links' = LinkAdded(c) /\ UNCHANGED users
  /\ UNCHANGED <<schema, web, history>>

\* The process restarts: the store and what was under way are gone.
Restart ==
  /\ faults < MaxFaults /\ faults' = faults + 1
  /\ call' = [c \in Calls |-> Resting]
  /\ store' = [s \in States |->
                 IF store[s].in = "never" THEN store[s] ELSE [store[s] EXCEPT !.in = "gone"]]
  /\ UNCHANGED <<schema, users, links, served, history>>

-----------------------------------------------------------------------------
Init ==
  /\ schema \in Schemas
  /\ users = <<>> /\ links = {}
  /\ store \in [States -> [in : {"never"}, provider : Providers]]
  /\ \A s, t \in States : store[s] = store[t]
  /\ call = [c \in Calls |-> Resting]
  /\ served = [s \in States |-> 0]
  /\ answered = [i \in Identities |-> {}]
  /\ raced = {} /\ mixed = {}
  /\ faults = 0

Next ==
  \/ \E s \in States : Expire(s) \/ \E p \in Providers : Authorize(s, p)
  \/ \E c \in Calls :
       \/ \E e \in Emails :
            \/ Create(c, e)
            \/ \E i \in Identities : Telegram(c, i, e) \/ \E s \in States : Callback(c, s, i, e)
       \/ Fetch(c) \/ ReadLink(c) \/ Known(c) \/ ByEmail(c) \/ AddLink(c)
       \/ Check(c) \/ Insert(c) \/ Refuse(c) \/ Created(c) \/ Fault(c)
  \/ \E u \in Ids : Remove(u)
  \/ Restart

Spec == Init /\ [][Next]_vars

-----------------------------------------------------------------------------
(* Properties. *)

CallType ==
  [pc : {"rest", "fetch", "link", "known", "byEmail", "check", "insert", "created",
         "again", "addLink"},
   ident : Identities \cup {Nobody}, email : Emails \cup {Nobody}, user : 0..MaxUsers]

\* The types of the tables, the store and the calls.
TypeOK ==
  /\ schema \in Schemas
  /\ users \in Seq([email : Emails, there : BOOLEAN]) /\ Len(users) <= MaxUsers
  /\ links \subseteq [ident : Identities, user : Ids]
  /\ store \in [States -> [in : {"never", "kept", "late", "gone"}, provider : Providers]]
  /\ call \in [Calls -> CallType]
  /\ \A c \in Calls :
       /\ call[c].pc # "rest" => call[c].email \in Emails
       /\ call[c].pc \in {"known", "created", "again", "addLink"} => call[c].user \in Ids
       /\ call[c].pc \in {"fetch", "link", "known", "byEmail", "again", "addLink"} =>
            call[c].ident \in Identities
  /\ served \in [States -> Nat]
  /\ answered \in [Identities -> SUBSET Ids]
  /\ raced \subseteq Emails /\ mixed \subseteq Identities
  /\ faults \in 0..MaxFaults

\* findByEmail takes any user with the e-mail: there is never a second one, if
\* the schema makes e-mails unique; without that, if the creations of users
\* with that e-mail, by administrators and by sign-ins, did not overlap.
OneUserPerEmail ==
  \A e \in Emails : schema.email \/ e \notin raced => \A u, v \in With(e) : u = v

\* findOrCreateOidcUser takes any link of the identity: there is never a second
\* one, if the schema forbids it; without that, if the sign-ins of the identity
\* did not overlap, whatever its e-mail was changed to in between, whatever
\* failed and whoever was deleted.
LinkedOnce ==
  \A i \in Identities : schema.link \/ i \notin mixed =>
    \A u, v \in Linked(i) : u = v

\* Whom an identity was signed in as, it will be signed in as again: as long as
\* that user exists, the link leads there.  Of two sign-ins of the same identity
\* that overlap, the INSERT of the second link may do nothing.
AnswerIsLinked ==
  \A i \in Identities \ mixed : \A u \in answered[i] : Live(u) => u \in Linked(i)

\* A state lets in one callback at most: it goes before the first await, so a
\* callback that is repeated, at once or after a failure, is turned away.
StateOnce == \A s \in States : served[s] <= 1

=============================================================================

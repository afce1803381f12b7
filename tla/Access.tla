-------------------------------- MODULE Access --------------------------------
(***************************************************************************)
(* The administration of accounts behind its guards: JwtAuthGuard and      *)
(* PermissionsGuard (src/src/auth/guards), the permission cache            *)
(* (src/src/permissions), UsersController.update and remove with their     *)
(* queries (src/src/users) and the groups (src/src/groups).  A request     *)
(* reads its author's row, consults the cache, reads the row it is about   *)
(* and then writes, in queries of their own between which others run.      *)
(*                                                                         *)
(* A continuation touches only the locals of its request, but for the      *)
(* cache, so a step is the execution of a query with what follows its      *)
(* reply; a reload of the cache is two, the query and its reply.  The last *)
(* findById, for the answer, is left out.                                  *)
(***************************************************************************)
EXTENDS Permissions, Integers, FiniteSets

CONSTANTS
  Users,        \* ids of the users there are at first
  FirstUsers,   \* their rows
  Matrices,     \* what role_permissions may hold
  Roles,
  Values,       \* values of the columns other than role and is_active
  Jobs,         \* what clients may ask for, see below
  Calls,        \* requests that may be under way at the same time
  Schemas,      \* what the schema may be
  MaxGroups,    \* bound on the rows of groups, over all time
  MaxCalls,     \* bound on the requests
  MaxEdits,     \* bound on changes of role_permissions
  MaxFaults     \* bound on failed queries, lost replies and restarts

Gids   == 1..MaxGroups
Schema == [unique : BOOLEAN, fk : {"none", "cascade", "restrict"}]

\* A row is its columns, a DTO the columns that it gives.  name stands for all
\* columns that no guard looks at.
UserRow  == [role : Roles, active : {"on", "off"}, name : Values]
GroupRow == [role : Roles, name : Values]
Dto == UNION {[F -> Roles \cup {"on", "off"} \cup Values] : F \in SUBSET {"role", "active", "name"}}

\* A job: the operation, the id in its path, the user in it, and the DTO.
UserOps  == {"update", "remove"}
GroupOps == {"create", "amend", "drop", "join", "leave"}
NoDto == [f \in {} |-> "none"]
Job == [op : UserOps \cup GroupOps \cup {"reload"}, on : Users \cup Gids, who : Users, dto : Dto]

\* A DTO gives the columns the values they may have; create() gives them all.
Fits(j) ==
  /\ "role" \in DOMAIN j.dto => j.dto["role"] \in Roles
  /\ "active" \in DOMAIN j.dto => j.dto["active"] \in {"on", "off"}
  /\ "name" \in DOMAIN j.dto => j.dto["name"] \in Values
  /\ j.op \in UserOps => j.on \in Users
  /\ j.op \in GroupOps => j.on \in Gids
  /\ j.op = "create" => DOMAIN j.dto = {"role", "name"}

ASSUME AccessAssumption ==
  /\ FirstUsers \in [Users -> UserRow]
  /\ "superadmin" \in Roles
  /\ Jobs \subseteq Job /\ \A j \in Jobs : Fits(j)
  /\ Schemas \subseteq Schema
  /\ MaxGroups \in Nat /\ MaxCalls \in Nat /\ MaxEdits \in Nat /\ MaxFaults \in Nat

VARIABLES
  schema,    \* the schema the database has
  table,     \* table role_permissions
  cache,     \* PermissionsService.cache
  users,     \* table users
  groups,    \* table groups
  members,   \* table group_members
  tokens,    \* tokens that were signed and have not expired
  call,      \* the requests under way
  edits,     \* how often role_permissions was changed, that is, its edition
  held,      \* history: the edition in the cache
  made,      \* how many groups were created
  mixed,     \* history: names that two creations of groups, or a rename, were after
  calls,     \* how many requests there were
  faults

tables == <<schema, table, users, groups, members>>
bounds == <<edits, made, calls, faults>>
vars   == <<tables, cache, tokens, call, held, mixed, bounds>>

-----------------------------------------------------------------------------
(* Rows and requests.                                                      *)

MergedDefault(row, dto) ==   \* variant: the default of create() in an update
  [f \in DOMAIN row |-> IF f \in DOMAIN dto THEN dto[f] ELSE IF f = "role" THEN "viewer" ELSE row[f]]
\* SET column = COALESCE($n, column), for each column.
Merged(row, dto) == [f \in DOMAIN row |-> IF f \in DOMAIN dto THEN dto[f] ELSE row[f]]

Without(f, i) == [j \in DOMAIN f \ {i} |-> f[j]]
With(f, i, v) == [j \in DOMAIN f \cup {i} |-> IF j = i THEN v ELSE f[j]]

Named(n) == {g \in DOMAIN groups : groups[g].name = n}

\* A request: the query it waits for, who sends it, the job, the author's role
\* as the guard read it, the matrix a reload has read, and, as history: the
\* edition when it came and the one it read, whether another reload ended
\* meanwhile, the roles the author has had meanwhile, whether they might write
\* users (delete users, for a removal), and the role of the target as it was read.
Request(q, by, op, on, who, dto, began, had) ==
  [pc |-> q, by |-> by, op |-> op, on |-> on, who |-> who, dto |-> dto, role |-> "none",
   seen |-> {}, began |-> began, read |-> 0, over |-> FALSE, had |-> had, right |-> FALSE,
   was |-> "none"]
Resting == Request("rest", 0, "none", 0, 0, NoDto, 0, {})

Goes(c, v) == call' = [call EXCEPT ![c] = v]
To(c, q)   == Goes(c, [call[c] EXCEPT !.pc = q])
Ends(c)    == Goes(c, Resting)

\* What a query that only reads leaves alone.
Reads == UNCHANGED <<tables, cache, tokens, held, mixed, bounds>>

-----------------------------------------------------------------------------
(* Signing in, and the guards.                                             *)

\* login: the password is right, and the account not disabled.
Login(u) ==
  /\ u \in DOMAIN users /\ users[u].active = "on"
  /\ tokens' = tokens \cup {[sub |-> u, role |-> users[u].role]}
  /\ UNCHANGED <<tables, cache, call, held, mixed, bounds>>

Creates(c, n) == call[c].op = "create" /\ call[c].dto["name"] = n

\* A request with a valid token comes; JwtAuthGuard looks its author up.
Arrive(c, t, j) ==
  /\ call[c].pc = "rest" /\ calls < MaxCalls /\ calls' = calls + 1
  /\ Goes(c, Request("author", t.sub, j.op, j.on, j.who, j.dto, edits,
                     {users[u].role : u \in DOMAIN users \cap {t.sub}}))
  /\ mixed' = mixed \cup {n \in Values : /\ j.op = "create" /\ j.dto["name"] = n
                                         /\ \E d \in Calls : Creates(d, n)}
  /\ UNCHANGED <<tables, cache, tokens, held, edits, made, faults>>

\* @Permission of the handler.
Needs ==
  [remove |-> <<"users", "delete">>,
   create |-> <<"groups", "write">>, amend |-> <<"groups", "write">>,
   join   |-> <<"groups", "write">>,
   drop   |-> <<"groups", "delete">>, leave |-> <<"groups", "delete">>]

CanWrite(role) == Can(cache, role, "users", "write")

\* What the cache says of an operation on another one's row.
HasRight(v, role) == Can(cache, role, "users", IF v.op = "remove" THEN "delete" ELSE "write")

\* A role that is the empty string is none to "dto.role" but one to COALESCE.
RoleGiven(dto) == "role" \in DOMAIN dto /\ dto["role"] # ""

\* PermissionsGuard, for the handlers that have a @Permission.
Permitted(v, role) ==
  v.op \in DOMAIN Needs => Can(cache, role, Needs[v.op][1], Needs[v.op][2])

AdmittedSelf(v, role) ==   \* variant: one's own row is one's own in all its columns
  /\ Permitted(v, role)
  /\ v.op = "update" /\ v.by # v.on => CanWrite(role)
  /\ v.op = "reload" => role = "superadmin"
  /\ v.op = "remove" => v.by # v.on
\* The guards, and what the handler checks before its first query.
Admitted(v, role) ==
  /\ Permitted(v, role)
  /\ v.op = "update" /\ (v.by # v.on \/ RoleGiven(v.dto)) => CanWrite(role)
  /\ v.op = "reload" => role = "superadmin"
  /\ v.op = "remove" => v.by # v.on

FirstQuery ==
  [update |-> "target", remove |-> "target", reload |-> "load", create |-> "named",
   amend |-> "found", join |-> "found", drop |-> "write", leave |-> "write"]

AuthorByToken(c) ==   \* variant: the role is that of some token of the author
  /\ call[c].pc = "author" /\ Reads
  /\ \E t \in tokens :
       /\ t.sub = call[c].by
       /\ IF t.sub \in DOMAIN users /\ users[t.sub].active = "on" /\ Admitted(call[c], t.role)
          THEN Goes(c, [call[c] EXCEPT !.pc = FirstQuery[call[c].op], !.role = t.role,
                                       !.right = HasRight(call[c], t.role)])
          ELSE Ends(c)

\* JwtAuthGuard has the author's row: the role is the row's, not the token's.
Author(c) ==
  /\ call[c].pc = "author" /\ Reads
  /\ LET u == call[c].by IN
     IF u \in DOMAIN users /\ users[u].active = "on" /\ Admitted(call[c], users[u].role)
     THEN LET v == [call[c] EXCEPT !.role = users[u].role,
                                   !.right = HasRight(call[c], users[u].role)]
          IN Goes(c, [v EXCEPT !.pc = FirstQuery[v.op]])
     ELSE Ends(c)

-----------------------------------------------------------------------------
(* The permission cache.                                                   *)

LoadHeld(c) ==   \* variant: what is cached is not read again
  /\ call[c].pc = "load" /\ Reads
  /\ Goes(c, [call[c] EXCEPT !.pc = "loaded", !.seen = cache, !.read = held])
\* The SELECT of load().
Load(c) ==
  /\ call[c].pc = "load" /\ Reads
  /\ LET v == [call[c] EXCEPT !.seen = table, !.read = edits]
     IN Goes(c, [v EXCEPT !.pc = "loaded"])

\* Its reply: the cache is replaced.
Loaded(c) ==
  /\ call[c].pc = "loaded"
  /\ cache' = call[c].seen /\ held' = call[c].read
  /\ call' = [d \in Calls |-> IF d = c THEN Resting
                              ELSE [call[d] EXCEPT !.over = @ \/ call[d].op = "reload"]]
  /\ UNCHANGED <<tables, tokens, mixed, bounds>>

\* role_permissions is changed in the database; nothing in src/ does.
Edit(m) ==
  /\ edits < MaxEdits /\ edits' = edits + 1
  /\ m # table /\ table' = m
  /\ UNCHANGED <<schema, users, groups, members, cache, tokens, call, held, mixed,
                 made, calls, faults>>

-----------------------------------------------------------------------------
(* The queries of the handlers.                                            *)

\* UsersController.update and remove have the row of the target.
Target(c) ==
  /\ call[c].pc = "target" /\ Reads
  /\ LET u == call[c].on IN
     IF u \in DOMAIN users /\ (users[u].role = "superadmin" => call[c].role = "superadmin")
     THEN Goes(c, [call[c] EXCEPT !.pc = IF call[c].op = "update" THEN "found" ELSE "write",
                                  !.was = users[u].role])
     ELSE Ends(c)

\* findById of UsersService.update, GroupsService.update and addMember.
Found(c) ==
  /\ call[c].pc = "found" /\ Reads
  /\ IF call[c].on \in (IF call[c].op = "update" THEN DOMAIN users ELSE DOMAIN groups)
     THEN To(c, "write") ELSE Ends(c)

NameUnchecked(c) ==   \* variant: the name is not looked up
  call[c].pc = "named" /\ Reads /\ To(c, "write")
\* GroupsService.create: ConflictException if the name is in use.
NameFree(c) ==
  /\ call[c].pc = "named" /\ Reads
  /\ IF Named(call[c].dto["name"]) = {} THEN To(c, "write") ELSE Ends(c)

Writes(c, op) == call[c].pc = "write" /\ call[c].op = op

\* What a query that writes users, or groups, leaves alone.
UsersOnly  == UNCHANGED <<schema, table, groups, cache, tokens, held, mixed, bounds>>
GroupsOnly == UNCHANGED <<schema, table, users, cache, tokens, held, edits, calls, faults>>

\* UPDATE users: nothing if the row is gone.
UpdateUser(c) ==
  /\ Writes(c, "update")
  /\ LET u == call[c].on
         row == Merged(users[u], call[c].dto)
     IN IF u \in DOMAIN users
        THEN /\ users' = [users EXCEPT ![u] = row]
             /\ call' = [d \in Calls |-> IF d = c THEN Resting
                                         ELSE IF call[d].by = u
                                         THEN [call[d] EXCEPT !.had = @ \cup {row.role}]
                                         ELSE call[d]]
        ELSE Ends(c) /\ UNCHANGED users
  /\ UsersOnly /\ UNCHANGED members

\* DELETE FROM users, or from groups, with the memberships.
Left(mine) == IF schema.fk = "cascade" THEN members \ mine ELSE members
Kept(mine) == schema.fk = "restrict" => mine = {}

RemoveUser(c) ==
  /\ Writes(c, "remove") /\ Ends(c)
  /\ LET mine == {m \in members : m[2] = call[c].on} IN
     IF Kept(mine) THEN users' = Without(users, call[c].on) /\ members' = Left(mine)
     ELSE UNCHANGED <<users, members>>
  /\ UsersOnly

\* INSERT INTO groups, unless the name must be unique and is not.
CreateGroup(c) ==
  /\ Writes(c, "create") /\ Ends(c)
  /\ IF made = MaxGroups \/ (schema.unique /\ Named(call[c].dto["name"]) # {})
     THEN UNCHANGED <<groups, made>>
     ELSE /\ made' = made + 1
          /\ groups' = With(groups, made', [role |-> call[c].dto["role"],
                                           name |-> call[c].dto["name"]])
  /\ GroupsOnly /\ UNCHANGED <<members, mixed>>

\* UPDATE groups: the name is not looked up before.
AmendGroup(c) ==
  /\ Writes(c, "amend") /\ Ends(c)
  /\ LET g   == call[c].on
         new == {call[c].dto[f] : f \in DOMAIN call[c].dto \cap {"name"}}
     IN IF g \notin DOMAIN groups \/ (schema.unique /\ \E n \in new : Named(n) \ {g} # {})
        THEN UNCHANGED <<groups, mixed>>
        ELSE /\ groups' = [groups EXCEPT ![g] = Merged(@, call[c].dto)]
             /\ mixed' = mixed \cup new
  /\ GroupsOnly /\ UNCHANGED <<members, made>>

DropGroup(c) ==
  /\ Writes(c, "drop") /\ Ends(c)
  /\ LET its == {m \in members : m[1] = call[c].on} IN
     IF Kept(its) THEN groups' = Without(groups, call[c].on) /\ members' = Left(its)
     ELSE UNCHANGED <<groups, members>>
  /\ GroupsOnly /\ UNCHANGED <<made, mixed>>

\* INSERT INTO group_members: a reference to a row that is gone is an error.
Join(c) ==
  /\ Writes(c, "join") /\ Ends(c)
  /\ members' = IF schema.fk # "none" /\ (call[c].on \notin DOMAIN groups \/ call[c].who \notin DOMAIN users)
                THEN members ELSE members \cup {<<call[c].on, call[c].who>>}
  /\ GroupsOnly /\ UNCHANGED <<groups, made, mixed>>

Leave(c) ==
  /\ Writes(c, "leave") /\ Ends(c)
  /\ members' = members \ {<<call[c].on, call[c].who>>}
  /\ GroupsOnly /\ UNCHANGED <<groups, made, mixed>>

-----------------------------------------------------------------------------
(* Failures.                                                               *)

\* A query fails: the request ends.  A reply that is lost after a write is
\* the write with nothing following, which is what the actions above are.
Fault(c) ==
  /\ call[c].pc # "rest" /\ faults < MaxFaults /\ faults' = faults + 1 /\ Ends(c)
  /\ UNCHANGED <<tables, cache, tokens, held, mixed, edits, made, calls>>

\* The process restarts.  It does not listen before onModuleInit has loaded
\* the cache.
Restart ==
  /\ faults < MaxFaults /\ faults' = faults + 1
  /\ call' = [c \in Calls |-> Resting]
  /\ cache' = table /\ held' = edits
  /\ UNCHANGED <<tables, tokens, mixed, edits, made, calls>>

-----------------------------------------------------------------------------
Init ==
  /\ schema \in Schemas
  /\ table \in Matrices /\ cache = table
  /\ users = FirstUsers /\ groups = [g \in {} |-> {}] /\ members = {}
  /\ tokens = {[sub |-> u, role |-> FirstUsers[u].role] : u \in Users}
  /\ call = [c \in Calls |-> Resting]
  /\ held = 0 /\ mixed = {}
  /\ edits = 0 /\ made = 0 /\ calls = 0 /\ faults = 0

Write(c) ==
  \/ UpdateUser(c) \/ RemoveUser(c) \/ CreateGroup(c) \/ AmendGroup(c)
  \/ DropGroup(c) \/ Join(c) \/ Leave(c)

Next ==
  \/ \E u \in Users : Login(u)
  \/ \E m \in Matrices : Edit(m)
  \/ \E c \in Calls :
       \/ \E t \in tokens, j \in Jobs : Arrive(c, t, j)
       \/ Author(c) \/ Load(c) \/ Loaded(c) \/ Target(c) \/ Found(c) \/ NameFree(c)
       \/ Write(c) \/ Fault(c)
  \/ Restart

Spec == Init /\ [][Next]_vars

-----------------------------------------------------------------------------
(* Properties. *)

CallType ==
  [pc : {"rest", "author", "target", "load", "loaded", "named", "found", "write"},
   by : Users \cup {0}, op : UserOps \cup GroupOps \cup {"reload", "none"},
   on : Users \cup Gids \cup {0}, who : Users \cup {0}, dto : Dto,
   role : Roles \cup {"none"}, seen : Matrices \cup {{}}, began : 0..MaxEdits,
   read : 0..MaxEdits, over : BOOLEAN, had : SUBSET Roles, right : BOOLEAN,
   was : Roles \cup {"none"}]

\* The types of the tables, the cache and the requests.
TypeOK ==
  /\ schema \in Schemas
  /\ table \in Matrices /\ cache \in Matrices \cup {{}}
  /\ DOMAIN users \subseteq Users /\ users \in [DOMAIN users -> UserRow]
  /\ DOMAIN groups \subseteq 1..made /\ groups \in [DOMAIN groups -> GroupRow]
  /\ members \subseteq Gids \X Users
  /\ tokens \subseteq [sub : Users, role : Roles]
  /\ call \in [Calls -> CallType]
  /\ held \in 0..edits /\ mixed \subseteq Values
  /\ edits \in 0..MaxEdits /\ made \in 0..MaxGroups
  /\ calls \in 0..MaxCalls /\ faults \in 0..MaxFaults

\* The role that the guards judge a request by is one that its author has had
\* since the request came, whatever role the token was signed with.
RoleIsCurrent ==
  \A c \in Calls : call[c].pc \notin {"rest", "author"} => call[c].role \in call[c].had

\* A row of users changes through an update of it, and goes through a removal of
\* it, that rests with that step: of another one who might write, or delete,
\* users when admitted, or of the user, who then deletes nothing and takes no
\* role but the empty one; and if the row read was a superadmin's, of one who
\* was admitted as a superadmin.  That is less than users.controller.ts says of
\* itself, see SuperadminsKept.
Authorized ==
  [][\A u \in DOMAIN users :
       LET gone == u \notin DOMAIN users'
       IN gone \/ users'[u] # users[u] =>
            \E c \in Calls :
              LET v == call[c] IN
              /\ Writes(c, IF gone THEN "remove" ELSE "update") /\ v.on = u /\ call'[c].pc = "rest"
              /\ v.by # u => v.right
              /\ v.by = u => ~gone
              /\ ~gone /\ users'[u].role \notin {users[u].role, ""} => v.right
              /\ v.was = "superadmin" => v.role = "superadmin"]_vars

\* What the comment on update() says: users "cannot change their own role", and
\* "superadmin accounts can only be modified by superadmins".  So the role of a
\* superadmin is changed by superadmins only.  The code does not keep to it:
\* "dto.role" lets one's own empty role pass, which COALESCE then writes, and
\* the row that was checked is not the one that is written.
SuperadminsKept ==
  [][\A u \in DOMAIN users \cap DOMAIN users' :
       users[u].role = "superadmin" /\ users'[u].role # "superadmin" =>
         \E c \in Calls : Writes(c, "update") /\ call[c].on = u /\ call[c].role = "superadmin"]_vars

\* No update is lost: a column changes only through a request whose DTO gives
\* that column, so requests about different columns of a row both take effect,
\* in whatever order their queries run.
FieldsKept ==
  [][/\ \A u \in DOMAIN users \cap DOMAIN users', f \in {"role", "active", "name"} :
          users'[u][f] # users[u][f] =>
            \E c \in Calls : Writes(c, "update") /\ call[c].on = u /\ f \in DOMAIN call[c].dto
     /\ \A g \in DOMAIN groups \cap DOMAIN groups', f \in {"role", "name"} :
          groups'[g][f] # groups[g][f] =>
            \E c \in Calls : Writes(c, "amend") /\ call[c].on = g /\ f \in DOMAIN call[c].dto]_vars

\* "Group name already in use": no two groups share a name, unless the creations
\* of groups of that name overlapped or a group was renamed to it.
NamesApart ==
  \A n \in Values \ mixed : \A g, h \in Named(n) : g = h

\* A reload that is answered has loaded a matrix no older than its request; the
\* cache goes back to an older one only if another reload ended meanwhile.
Reloaded ==
  [][\A c \in Calls :
       call[c].pc = "loaded" /\ cache' = call[c].seen /\ call'[c].pc = "rest" /\ faults' = faults =>
         held' >= call[c].began /\ (held' >= held \/ call[c].over)]_vars

=============================================================================

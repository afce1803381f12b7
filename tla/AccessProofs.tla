----------------------------- MODULE AccessProofs -----------------------------
(***************************************************************************)
(* Theorems about Access, for any users, roles, matrices, jobs and schema, *)
(* any number of requests at a time and in all, and any number of changes  *)
(* of the permissions, groups and failures.                                *)
(***************************************************************************)
EXTENDS Access, TLAPS

-----------------------------------------------------------------------------
(* Rows.                                                                   *)

\* An UPDATE leaves a row of its type if the DTO gives values of the columns.
LEMMA MergedGroup ==
  ASSUME NEW row \in GroupRow, NEW dto, 
         "role" \in DOMAIN dto => dto["role"] \in Roles,
         "name" \in DOMAIN dto => dto["name"] \in Values
  PROVE  Merged(row, dto) \in GroupRow
  BY DEF Merged, GroupRow

LEMMA MergedUser ==
  ASSUME NEW row \in UserRow, NEW dto, 
         "role" \in DOMAIN dto => dto["role"] \in Roles,
         "active" \in DOMAIN dto => dto["active"] \in {"on", "off"},
         "name" \in DOMAIN dto => dto["name"] \in Values
  PROVE  Merged(row, dto) \in UserRow
  BY DEF Merged, UserRow

\* It changes the columns that the DTO gives and no other.
LEMMA MergedField ==
  ASSUME NEW row \in UserRow, NEW dto
  PROVE  /\ \A f \in {"role", "active", "name"} :
              Merged(row, dto)[f] = IF f \in DOMAIN dto THEN dto[f] ELSE row[f]
         /\ Merged(row, dto).role = IF "role" \in DOMAIN dto THEN dto["role"] ELSE row.role
  BY DEF Merged, UserRow

LEMMA MergedGroupField ==
  ASSUME NEW row \in GroupRow, NEW dto
  PROVE  \A f \in {"role", "name"} :
              Merged(row, dto)[f] = IF f \in DOMAIN dto THEN dto[f] ELSE row[f]
  BY DEF Merged, GroupRow

-----------------------------------------------------------------------------
(* The record of a request.                                                *)

LEMMA NoDtoType == NoDto \in Dto /\ DOMAIN NoDto = {}
  <1>1. NoDto \in [{} -> Roles \cup {"on", "off"} \cup Values]
    BY DEF NoDto
  <1>2. {} \in SUBSET {"role", "active", "name"}
    OBVIOUS
  <1>3. DOMAIN NoDto = {}
    BY DEF NoDto
  <1> QED
    BY <1>1, <1>2, <1>3 DEF Dto

LEMMA RequestType ==
  ASSUME NEW q \in {"rest", "author"}, NEW by \in Users \cup {0},
         NEW op \in UserOps \cup GroupOps \cup {"reload", "none"},
         NEW on \in Users \cup Gids \cup {0}, NEW who \in Users \cup {0}, NEW dto \in Dto,
         NEW began \in 0..MaxEdits, NEW had \in SUBSET Roles
  PROVE  Request(q, by, op, on, who, dto, began, had) \in CallType
  <1>1. 0 \in 0..MaxEdits
    BY AccessAssumption
  <1> QED
    BY <1>1 DEF Request, CallType

LEMMA RestingType == Resting \in CallType /\ Resting.pc = "rest" /\ Resting.op = "none"
  <1>1. 0 \in 0..MaxEdits /\ {} \in SUBSET Roles
    BY AccessAssumption
  <1>2. Resting \in CallType
    BY <1>1, NoDtoType, RequestType DEF Resting
  <1> QED
    BY <1>2 DEF Resting, Request

\* What the request is about stays; what the guards found stays.
SameJob(v, w) ==
  /\ w.by = v.by /\ w.op = v.op /\ w.on = v.on /\ w.who = v.who /\ w.dto = v.dto
  /\ w.began = v.began
SameRight(v, w) == w.role = v.role /\ w.right = v.right

\* Only the record of c changes; it rests; it goes on to another query.
Others(c) ==
  /\ call' \in [Calls -> CallType]
  /\ \A d \in Calls \ {c} : call'[d] = call[d]
Rested(c) == Others(c) /\ call'[c] = Resting
Advanced(c, q) ==
  /\ Others(c) /\ call[c].pc \notin {"rest", "author"}
  /\ SameJob(call[c], call'[c]) /\ SameRight(call[c], call'[c])
  /\ call'[c].had = call[c].had /\ call'[c].pc = q

LEMMA GoesFacts ==
  ASSUME call \in [Calls -> CallType], NEW c \in Calls, NEW v \in CallType, Goes(c, v)
  PROVE  Others(c) /\ call'[c] = v
  BY DEF Goes, Others

LEMMA EndsFacts ==
  ASSUME call \in [Calls -> CallType], NEW c \in Calls, Ends(c)
  PROVE  Rested(c)
  BY GoesFacts, RestingType DEF Ends, Rested

\* The record becomes v, with another query to wait for.
LEMMA WaitFacts ==
  ASSUME call \in [Calls -> CallType], NEW c \in Calls, NEW v \in CallType,
         NEW q \in {"target", "load", "loaded", "named", "found", "write"},
         Goes(c, [v EXCEPT !.pc = q])
  PROVE  /\ Others(c) /\ SameJob(v, call'[c]) /\ SameRight(v, call'[c])
         /\ call'[c].had = v.had /\ call'[c].pc = q /\ call'[c].was = v.was
         /\ call'[c].seen = v.seen /\ call'[c].read = v.read /\ call'[c].over = v.over
  <1> DEFINE w == [v EXCEPT !.pc = q]
  <1>1. w \in CallType
    BY DEF CallType
  <1>2. /\ SameJob(v, w) /\ SameRight(v, w) /\ w.had = v.had /\ w.pc = q /\ w.was = v.was
        /\ w.seen = v.seen /\ w.read = v.read /\ w.over = v.over
    BY DEF CallType, SameJob, SameRight
  <1> HIDE DEF w
  <1>3. Goes(c, w)
    BY DEF w
  <1> QED
    BY <1>1, <1>2, <1>3, GoesFacts

LEMMA ToFacts ==
  ASSUME call \in [Calls -> CallType], NEW c \in Calls, NEW q \in {"found", "write"},
         call[c].pc \notin {"rest", "author"}, To(c, q)
  PROVE  Advanced(c, q) /\ call'[c].was = call[c].was
  <1> DEFINE v == call[c]
  <1>1. v \in CallType
    OBVIOUS
  <1>2. Goes(c, [v EXCEPT !.pc = q])
    BY DEF To
  <1> HIDE DEF v
  <1> QED
    BY <1>1, <1>2, WaitFacts DEF Advanced, v

\* The request goes on as it was; its history may have grown.
Kin(v, w) ==
  /\ SameJob(v, w) /\ SameRight(v, w) /\ w.pc = v.pc /\ w.was = v.was
  /\ w.seen = v.seen /\ w.read = v.read /\ (v.over => w.over) /\ v.had \subseteq w.had

LEMMA HadRecord ==
  ASSUME NEW v \in CallType, NEW r \in Roles
  PROVE  LET w == [v EXCEPT !.had = @ \cup {r}]
         IN w \in CallType /\ Kin(v, w) /\ w.had = v.had \cup {r}
  <1> DEFINE w == [v EXCEPT !.had = @ \cup {r}]
  <1>1. w \in CallType
    BY DEF CallType
  <1>2. /\ w.had = v.had \cup {r} /\ w.pc = v.pc /\ w.was = v.was /\ w.seen = v.seen
        /\ w.read = v.read /\ w.over = v.over
    BY DEF CallType
  <1>3. SameJob(v, w) /\ SameRight(v, w)
    BY DEF CallType, SameJob, SameRight
  <1> HIDE DEF w
  <1>4. Kin(v, w)
    BY <1>2, <1>3 DEF Kin
  <1> QED
    BY <1>1, <1>2, <1>4 DEF w

LEMMA OverRecord ==
  ASSUME NEW v \in CallType
  PROVE  LET w == [v EXCEPT !.over = @ \/ v.op = "reload"]
         IN w \in CallType /\ Kin(v, w) /\ (v.op = "reload" => w.over)
  <1> DEFINE w == [v EXCEPT !.over = @ \/ v.op = "reload"]
  <1>1. w \in CallType
    <2> DEFINE b == v.over \/ v.op = "reload"
    <2>1. b \in BOOLEAN
      OBVIOUS
    <2> HIDE DEF b
    <2>2. [v EXCEPT !.over = b] \in CallType
      BY <2>1 DEF CallType
    <2>3. w = [v EXCEPT !.over = b]
      BY DEF b
    <2> QED
      BY <2>2, <2>3
  <1>2. /\ w.had = v.had /\ w.pc = v.pc /\ w.was = v.was /\ w.seen = v.seen
        /\ w.read = v.read /\ (v.over \/ v.op = "reload" => w.over)
    BY DEF CallType
  <1>3. SameJob(v, w) /\ SameRight(v, w)
    BY DEF CallType, SameJob, SameRight
  <1> HIDE DEF w
  <1>4. Kin(v, w)
    BY <1>2, <1>3 DEF Kin
  <1> QED
    BY <1>1, <1>2, <1>4 DEF w

-----------------------------------------------------------------------------
(* What a request waits for fits its operation, and each action's step.     *)

Ok(v) ==
  v.pc # "rest" =>
    /\ v.by \in Users /\ v.who \in Users /\ v.op # "none" /\ Fits(v)
    /\ v.pc = "target" => v.op \in UserOps
    /\ v.pc = "found"  => v.op \in {"update", "amend", "join"}
    /\ v.pc = "named"  => v.op = "create"
    /\ v.pc \in {"load", "loaded"} => v.op = "reload"
    /\ v.pc = "loaded" => v.seen \in Matrices
    /\ v.pc = "write" => v.op # "reload"
CallsOk == \A c \in Calls : Ok(call[c])

\* The editions of the matrix: a matrix that was read is no older than the
\* request, and is older than the cache only if another reload ended meanwhile.
Aged(c) ==
  /\ call[c].began <= edits
  /\ call[c].pc = "loaded" =>
       /\ call[c].began <= call[c].read /\ call[c].read <= edits
       /\ held <= call[c].read \/ call[c].over
AllAged == \A c \in Calls : Aged(c)

Sound == TypeOK /\ CallsOk /\ AllAged

LEMMA CallFacts ==
  ASSUME Sound, NEW c \in Calls
  PROVE  /\ call \in [Calls -> CallType] /\ call[c] \in CallType /\ Ok(call[c])
         /\ call[c].dto \in Dto /\ call[c].role \in Roles \cup {"none"}
         /\ call[c].had \in SUBSET Roles /\ call[c].began \in 0..MaxEdits
         /\ call[c].read \in 0..MaxEdits /\ call[c].seen \in Matrices \cup {{}}
         /\ call[c].op \in UserOps \cup GroupOps \cup {"reload", "none"}
  <1>1. call[c] \in CallType
    BY DEF Sound, TypeOK
  <1>2. call \in [Calls -> CallType] /\ Ok(call[c])
    BY DEF Sound, TypeOK, CallsOk
  <1> QED
    BY <1>1, <1>2 DEF CallType

LEMMA SameJobFits ==
  ASSUME NEW v, NEW w, SameJob(v, w), Fits(v)
  PROVE  Fits(w)
  BY DEF SameJob, Fits

LEMMA RestingOk == Ok(Resting)
  BY RestingType DEF Ok

LEMMA FirstQueryFacts ==
  ASSUME NEW op \in UserOps \cup GroupOps \cup {"reload"}
  PROVE  /\ FirstQuery[op] \in {"target", "load", "named", "found", "write"}
         /\ FirstQuery[op] = "target" <=> op \in UserOps
         /\ FirstQuery[op] = "found" => op \in {"amend", "join"}
         /\ FirstQuery[op] = "named" <=> op = "create"
         /\ FirstQuery[op] = "load" <=> op = "reload"
         /\ FirstQuery[op] = "write" => op \in {"drop", "leave"}
  BY DEF FirstQuery, UserOps, GroupOps

LEMMA RowFacts ==
  ASSUME TypeOK, NEW u \in DOMAIN users
  PROVE  /\ u \in Users /\ users[u] \in UserRow /\ users[u].role \in Roles
  <1>1. u \in Users /\ users[u] \in UserRow
    BY DEF TypeOK
  <1> QED
    BY <1>1 DEF UserRow

\* The record that comes with a job.
Came(c) ==
  /\ Others(c) /\ call[c].pc = "rest" /\ call'[c].pc = "author" /\ Ok(call'[c])
  /\ call'[c].began = edits /\ call'[c].by \in Users
  /\ call'[c].by \in DOMAIN users => users[call'[c].by].role \in call'[c].had

LEMMA ArriveFacts ==
  ASSUME Sound, NEW c \in Calls, NEW t \in tokens, NEW j \in Jobs, Arrive(c, t, j)
  PROVE  Came(c) /\ call'[c].op = j.op /\ call'[c].dto = j.dto
  <1> DEFINE had == {users[u].role : u \in DOMAIN users \cap {t.sub}}
             w   == Request("author", t.sub, j.op, j.on, j.who, j.dto, edits, had)
  <1>1. t.sub \in Users
    BY DEF Sound, TypeOK
  <1>2. /\ j.op \in UserOps \cup GroupOps \cup {"reload"} /\ j.on \in Users \cup Gids
        /\ j.who \in Users /\ j.dto \in Dto /\ Fits(j)
    BY AccessAssumption DEF Job
  <1>3. \A r \in had : \E u \in DOMAIN users : r = users[u].role
    BY Zenon
  <1>4. t.sub \in DOMAIN users => users[t.sub].role \in had
    BY Zenon
  <1> HIDE DEF had
  <1>5. had \in SUBSET Roles
    BY <1>3, RowFacts DEF Sound
  <1>6. edits \in 0..MaxEdits
    BY DEF Sound, TypeOK
  <1>7. w \in CallType
    BY <1>1, <1>2, <1>5, <1>6, RequestType
  <1>8. /\ w.pc = "author" /\ w.by = t.sub /\ w.op = j.op /\ w.on = j.on /\ w.who = j.who
        /\ w.dto = j.dto /\ w.began = edits /\ w.had = had
    BY DEF Request
  <1>9. Goes(c, w) /\ call[c].pc = "rest"
    BY DEF Arrive, had
  <1> HIDE DEF w
  <1>10. Others(c) /\ call'[c] = w
    BY <1>7, <1>9, CallFacts, GoesFacts
  <1>11. Fits(w)
    BY <1>2, <1>8 DEF Fits
  <1>12. j.op # "none"
    BY <1>2 DEF UserOps, GroupOps
  <1>13. Ok(w)
    BY <1>1, <1>2, <1>8, <1>11, <1>12 DEF Ok
  <1> QED
    BY <1>1, <1>4, <1>8, <1>9, <1>10, <1>13 DEF Came

\* The author is admitted with the role that the row has.
Entered(c) ==
  LET v == call[c]  w == call'[c] IN
  /\ Others(c) /\ v.pc = "author" /\ SameJob(v, w) /\ w.had = v.had
  /\ w.pc = FirstQuery[v.op] /\ Ok(w)
  /\ v.by \in DOMAIN users /\ w.role = users[v.by].role
  /\ Admitted(v, w.role) /\ w.right = HasRight(v, w.role)

LEMMA AuthorFacts ==
  ASSUME Sound, NEW c \in Calls, Author(c)
  PROVE  Rested(c) \/ Entered(c)
  <1> DEFINE v == call[c]
             r == users[v.by].role
             b == HasRight(v, r)
             x == [v EXCEPT !.role = r, !.right = b]
             q == FirstQuery[v.op]
             w == call'[c]
  <1>0. v.pc = "author"
    BY DEF Author
  <1>1. CASE /\ v.by \in DOMAIN users /\ users[v.by].active = "on" /\ Admitted(v, r)
    <2>1. r \in Roles
      BY <1>1, RowFacts DEF Sound
    <2>2. b \in BOOLEAN
      BY DEF HasRight, Can
    <2>3. v.op \in UserOps \cup GroupOps \cup {"reload"} /\ v \in CallType /\ Ok(v)
      BY <1>0, CallFacts DEF Ok
    <2>4. q \in {"target", "load", "named", "found", "write"}
      BY <2>3, FirstQueryFacts
    <2>5. x.op = v.op
      BY <2>3 DEF CallType
    <2>6. Goes(c, [x EXCEPT !.pc = q])
      BY <1>1, <2>5 DEF Author
    <2> HIDE DEF r, b, q, v
    <2>a. x \in CallType
      BY <2>1, <2>2, <2>3 DEF CallType
    <2>b. x.role = r /\ x.right = b /\ x.had = v.had
      BY <2>1, <2>2, <2>3 DEF CallType
    <2>c. SameJob(v, x)
      BY <2>1, <2>2, <2>3 DEF CallType, SameJob
    <2>7. x \in CallType /\ SameJob(v, x) /\ x.role = r /\ x.right = b /\ x.had = v.had
      BY <2>a, <2>b, <2>c
    <2> HIDE DEF x
    <2>8. /\ Others(c) /\ SameJob(x, w) /\ SameRight(x, w) /\ w.had = x.had /\ w.pc = q
      BY <2>4, <2>6, <2>7, CallFacts, WaitFacts
    <2>9. SameJob(v, w) /\ w.role = r /\ w.right = b /\ w.had = v.had
      BY <2>7, <2>8 DEF SameJob, SameRight
    <2>10. Fits(w)
      BY <1>0, <2>3, <2>9, SameJobFits DEF Ok
    <2>11. Ok(w)
      BY <1>0, <2>3, <2>4, <2>8, <2>9, <2>10, FirstQueryFacts DEF Ok, SameJob, q
    <2> QED
      BY <1>0, <1>1, <2>8, <2>9, <2>11 DEF Entered, v, r, b, q
  <1>2. CASE ~(/\ v.by \in DOMAIN users /\ users[v.by].active = "on" /\ Admitted(v, r))
    <2>1. Ends(c)
      BY <1>2 DEF Author
    <2> QED
      BY <2>1, CallFacts, EndsFacts
  <1> QED
    BY <1>1, <1>2

\* The matrix is read.
Read(c) ==
  LET v == call[c]  w == call'[c] IN
  /\ Others(c) /\ v.pc = "load" /\ SameJob(v, w) /\ SameRight(v, w) /\ w.had = v.had
  /\ w.pc = "loaded" /\ w.seen = table /\ w.read = edits /\ w.over = v.over /\ Ok(w)

LEMMA LoadFacts ==
  ASSUME Sound, NEW c \in Calls, Load(c)
  PROVE  Read(c)
  <1> DEFINE v == call[c]
             x == [v EXCEPT !.seen = table, !.read = edits]
             w == call'[c]
  <1>1. v.pc = "load" /\ Goes(c, [x EXCEPT !.pc = "loaded"])
    BY DEF Load
  <1>2. table \in Matrices /\ edits \in 0..MaxEdits
    BY DEF Sound, TypeOK
  <1>3. v \in CallType /\ Ok(v)
    BY CallFacts
  <1> HIDE DEF v
  <1>a. x \in CallType
    BY <1>2, <1>3 DEF CallType
  <1>b. SameJob(v, x) /\ SameRight(v, x)
    BY <1>2, <1>3 DEF CallType, SameJob, SameRight
  <1>c. x.seen = table /\ x.read = edits /\ x.over = v.over /\ x.had = v.had
    BY <1>2, <1>3 DEF CallType
  <1>4. /\ x \in CallType /\ SameJob(v, x) /\ SameRight(v, x)
        /\ x.seen = table /\ x.read = edits /\ x.over = v.over /\ x.had = v.had
    BY <1>a, <1>b, <1>c
  <1> HIDE DEF x
  <1>5. /\ Others(c) /\ SameJob(x, w) /\ SameRight(x, w) /\ w.had = x.had /\ w.pc = "loaded"
        /\ w.seen = x.seen /\ w.read = x.read /\ w.over = x.over
    BY <1>1, <1>4, CallFacts, WaitFacts
  <1>6. SameJob(v, w) /\ SameRight(v, w)
    BY <1>4, <1>5 DEF SameJob, SameRight
  <1>7. Fits(w)
    BY <1>1, <1>3, <1>6, SameJobFits DEF Ok
  <1>8. Ok(w)
    BY <1>1, <1>2, <1>3, <1>4, <1>5, <1>6, <1>7 DEF Ok, SameJob
  <1> QED
    BY <1>1, <1>4, <1>5, <1>6, <1>8 DEF Read, v

LEMMA KinOk ==
  ASSUME NEW v, NEW w, Ok(v), Kin(v, w)
  PROVE  Ok(w)
  <1>1. Fits(v) => Fits(w)
    BY SameJobFits DEF Kin
  <1> QED
    BY <1>1 DEF Ok, Kin, SameJob

LEMMA KinSelf ==
  ASSUME NEW v
  PROVE  Kin(v, v)
  BY DEF Kin, SameJob, SameRight

\* A reload ends, which the others note.
LEMMA LoadedFacts ==
  ASSUME Sound, NEW c \in Calls, Loaded(c)
  PROVE  /\ call' \in [Calls -> CallType]
         /\ call[c].pc = "loaded" /\ call'[c] = Resting
         /\ \A d \in Calls \ {c} : /\ Kin(call[d], call'[d])
                                   /\ call[d].op = "reload" => call'[d].over
  <1> DEFINE V == [d \in Calls |-> [call[d] EXCEPT !.over = @ \/ call[d].op = "reload"]]
  <1>1. \A d \in Calls : /\ V[d] \in CallType /\ Kin(call[d], V[d])
                         /\ call[d].op = "reload" => V[d].over
    <2> TAKE d \in Calls
    <2> DEFINE v == call[d]
    <2>1. v \in CallType
      BY CallFacts
    <2> HIDE DEF v
    <2>2. LET w == [v EXCEPT !.over = @ \/ v.op = "reload"]
          IN w \in CallType /\ Kin(v, w) /\ (v.op = "reload" => w.over)
      BY <2>1, OverRecord
    <2>3. V[d] = [v EXCEPT !.over = @ \/ v.op = "reload"]
      BY DEF v
    <2> HIDE DEF V
    <2> QED
      BY <2>2, <2>3 DEF v
  <1>2. call' = [d \in Calls |-> IF d = c THEN Resting ELSE V[d]]
    BY DEF Loaded
  <1>3. call[c].pc = "loaded"
    BY DEF Loaded
  <1> HIDE DEF V
  <1>4. \A d \in Calls : call'[d] = IF d = c THEN Resting ELSE V[d]
    BY <1>2
  <1>5. \A d \in Calls : call'[d] \in CallType
    BY <1>1, <1>4, RestingType
  <1>6. call' \in [Calls -> CallType]
    BY <1>2, <1>5
  <1>7. call'[c] = Resting
    BY <1>4
  <1>8. \A d \in Calls \ {c} : call'[d] = V[d]
    BY <1>4
  <1> QED
    BY <1>1, <1>3, <1>6, <1>7, <1>8

\* The target is read: the request goes on only if its author may touch the row.
Aimed(c) ==
  LET v == call[c]  w == call'[c] IN
  /\ \E q \in {"found", "write"} : Advanced(c, q)
  /\ v.pc = "target" /\ (v.op = "update" <=> w.pc = "found")
  /\ v.on \in DOMAIN users /\ w.was = users[v.on].role
  /\ w.was = "superadmin" => w.role = "superadmin"

LEMMA TargetFacts ==
  ASSUME Sound, NEW c \in Calls, Target(c)
  PROVE  Rested(c) \/ (Aimed(c) /\ Ok(call'[c]))
  <1> DEFINE v == call[c]
             q == IF v.op = "update" THEN "found" ELSE "write"
             r == users[v.on].role
             w == [v EXCEPT !.pc = q, !.was = r]
  <1>0. v.pc = "target" /\ v \in CallType /\ Ok(v)
    BY CallFacts DEF Target
  <1>1. CASE v.on \in DOMAIN users /\ (r = "superadmin" => v.role = "superadmin")
    <2>1. r \in Roles
      BY <1>1, RowFacts DEF Sound
    <2>2. q \in {"found", "write"}
      OBVIOUS
    <2>3. Goes(c, w)
      BY <1>1 DEF Target
    <2> HIDE DEF v, q, r
    <2>a. w \in CallType
      BY <1>0, <2>1, <2>2 DEF CallType
    <2>b. w.pc = q /\ w.was = r /\ w.had = v.had
      BY <1>0, <2>1, <2>2 DEF CallType
    <2>c. SameJob(v, w) /\ SameRight(v, w)
      BY <1>0, <2>1, <2>2 DEF CallType, SameJob, SameRight
    <2>4. /\ w \in CallType /\ SameJob(v, w) /\ SameRight(v, w)
          /\ w.pc = q /\ w.was = r /\ w.had = v.had
      BY <2>a, <2>b, <2>c
    <2> HIDE DEF w
    <2>5. Others(c) /\ call'[c] = w
      BY <2>3, <2>4, CallFacts, GoesFacts
    <2>6. Fits(w)
      BY <1>0, <2>4, SameJobFits DEF Ok
    <2>7. q = "found" <=> v.op = "update"
      BY DEF q
    <2>8. v.op \in UserOps
      BY <1>0 DEF Ok
    <2>9. Ok(w)
      BY <1>0, <2>2, <2>4, <2>6, <2>7, <2>8 DEF Ok, SameJob, UserOps
    <2>10. Advanced(c, q)
      BY <1>0, <2>4, <2>5 DEF Advanced, v
    <2>11. w.was = "superadmin" => w.role = "superadmin"
      BY <1>1, <2>4 DEF SameRight
    <2>12. Aimed(c)
      BY <1>0, <1>1, <2>2, <2>4, <2>5, <2>7, <2>10, <2>11 DEF Aimed, v, r
    <2> QED
      BY <2>5, <2>9, <2>12
  <1>2. CASE ~(v.on \in DOMAIN users /\ (r = "superadmin" => v.role = "superadmin"))
    <2>1. Ends(c)
      BY <1>2 DEF Target
    <2> QED
      BY <2>1, CallFacts, EndsFacts
  <1> QED
    BY <1>1, <1>2

\* The row is found, or the name is free: the request goes on to write.
Cleared(c) ==
  /\ Advanced(c, "write") /\ call'[c].was = call[c].was
  /\ call[c].pc \in {"found", "named"}
  /\ call[c].op \in {"update", "amend", "join", "create"}

LEMMA ClearedOk ==
  ASSUME Sound, NEW c \in Calls, Cleared(c)
  PROVE  Ok(call'[c])
  <1>1. Ok(call[c])
    BY CallFacts
  <1>2. SameJob(call[c], call'[c]) /\ call'[c].pc = "write" /\ call[c].pc # "rest"
    BY DEF Cleared, Advanced
  <1>3. Fits(call'[c])
    BY <1>1, <1>2, SameJobFits DEF Ok
  <1> QED
    BY <1>1, <1>2, <1>3 DEF Ok, SameJob, Cleared

LEMMA FoundFacts ==
  ASSUME Sound, NEW c \in Calls, Found(c)
  PROVE  Rested(c) \/ (Cleared(c) /\ call[c].pc = "found")
  <1>1. call[c].pc = "found" /\ Ok(call[c]) /\ call \in [Calls -> CallType]
    BY CallFacts DEF Found
  <1>2. To(c, "write") \/ Ends(c)
    BY DEF Found
  <1>3. CASE To(c, "write")
    <2>1. Advanced(c, "write") /\ call'[c].was = call[c].was
      BY <1>1, <1>3, ToFacts
    <2> QED
      BY <1>1, <2>1 DEF Cleared, Ok
  <1> QED
    BY <1>1, <1>2, <1>3, EndsFacts

LEMMA NameFacts ==
  ASSUME Sound, NEW c \in Calls, NameFree(c)
  PROVE  \/ Rested(c)
         \/ Cleared(c) /\ call[c].pc = "named" /\ Named(call[c].dto["name"]) = {}
  <1>1. call[c].pc = "named" /\ Ok(call[c]) /\ call \in [Calls -> CallType]
    BY CallFacts DEF NameFree
  <1>2. CASE Named(call[c].dto["name"]) = {}
    <2>0. To(c, "write")
      BY <1>2 DEF NameFree
    <2>1. Advanced(c, "write") /\ call'[c].was = call[c].was
      BY <1>1, <2>0, ToFacts
    <2> QED
      BY <1>1, <1>2, <2>1 DEF Cleared, Ok
  <1>3. CASE Named(call[c].dto["name"]) # {}
    <2>1. Ends(c)
      BY <1>3 DEF NameFree
    <2> QED
      BY <1>1, <2>1, EndsFacts
  <1> QED
    BY <1>2, <1>3

-----------------------------------------------------------------------------
(* What the writes do to the tables.                                       *)

LEMMA FitsFacts ==
  ASSUME Sound, NEW c \in Calls, call[c].pc = "write"
  PROVE  /\ "role" \in DOMAIN call[c].dto => call[c].dto["role"] \in Roles
         /\ "active" \in DOMAIN call[c].dto => call[c].dto["active"] \in {"on", "off"}
         /\ "name" \in DOMAIN call[c].dto => call[c].dto["name"] \in Values
         /\ call[c].op \in UserOps => call[c].on \in Users
         /\ call[c].op \in GroupOps => call[c].on \in Gids
         /\ call[c].op = "create" => DOMAIN call[c].dto = {"role", "name"}
         /\ call[c].who \in Users
  <1>1. Ok(call[c])
    BY CallFacts
  <1>2. Fits(call[c]) /\ call[c].who \in Users
    BY <1>1 DEF Ok
  <1> QED
    BY <1>2 DEF Fits

\* A row is updated, and the requests of the user note the role.
Updated(c) ==
  LET v == call[c]  u == v.on  row == Merged(users[u], v.dto) IN
  /\ v.pc = "write" /\ v.op = "update" /\ u \in DOMAIN users
  /\ row \in UserRow /\ users' = [users EXCEPT ![u] = row]
  /\ call' \in [Calls -> CallType] /\ call'[c] = Resting
  /\ \A d \in Calls \ {c} : /\ Kin(call[d], call'[d])
                            /\ call[d].by = u => row.role \in call'[d].had

LEMMA UpdateUserFacts ==
  ASSUME Sound, NEW c \in Calls, UpdateUser(c)
  PROVE  Updated(c) \/ (Rested(c) /\ users' = users)
  <1> DEFINE u == call[c].on
             row == Merged(users[u], call[c].dto)
             r == row.role
             V == [d \in Calls |-> [call[d] EXCEPT !.had = @ \cup {r}]]
  <1>0. call[c].pc = "write" /\ call[c].op = "update"
    BY DEF UpdateUser, Writes
  <1>1. CASE u \in DOMAIN users
    <2>1. row \in UserRow
      BY <1>0, <1>1, FitsFacts, RowFacts, MergedUser DEF Sound
    <2>2. r \in Roles
      BY <2>1 DEF UserRow
    <2>3. /\ users' = [users EXCEPT ![u] = row]
          /\ call' = [d \in Calls |-> IF d = c THEN Resting
                                       ELSE IF call[d].by = u THEN V[d] ELSE call[d]]
      BY <1>1 DEF UpdateUser
    <2> HIDE DEF row, u, r
    <2>4. \A d \in Calls : V[d] \in CallType /\ Kin(call[d], V[d]) /\ r \in V[d].had
      <3> TAKE d \in Calls
      <3> DEFINE v == call[d]
      <3>1. v \in CallType
        BY CallFacts
      <3> HIDE DEF v
      <3>2. LET w == [v EXCEPT !.had = @ \cup {r}]
            IN w \in CallType /\ Kin(v, w) /\ w.had = v.had \cup {r}
        BY <2>2, <3>1, HadRecord
      <3>3. V[d] = [v EXCEPT !.had = @ \cup {r}]
        BY DEF v
      <3> HIDE DEF V
      <3> QED
        BY <3>2, <3>3 DEF v
    <2> HIDE DEF V
    <2>5. \A d \in Calls : call'[d] = IF d = c THEN Resting
                                     ELSE IF call[d].by = u THEN V[d] ELSE call[d]
      BY <2>3
    <2>6. \A d \in Calls : call[d] \in CallType /\ Kin(call[d], call[d])
      BY CallFacts, KinSelf
    <2>7. \A d \in Calls : call'[d] \in CallType
      BY <2>4, <2>5, <2>6, RestingType
    <2>8. call' \in [Calls -> CallType]
      BY <2>3, <2>7
    <2>9. call'[c] = Resting
      BY <2>5
    <2>10. \A d \in Calls \ {c} : /\ Kin(call[d], call'[d])
                                  /\ call[d].by = u => r \in call'[d].had
      BY <2>4, <2>5, <2>6
    <2> QED
      BY <1>0, <1>1, <2>1, <2>3, <2>8, <2>9, <2>10 DEF Updated, u, row, r
  <1>2. CASE u \notin DOMAIN users
    <2>1. Ends(c) /\ users' = users
      BY <1>2 DEF UpdateUser
    <2> QED
      BY <2>1, CallFacts, EndsFacts
  <1> QED
    BY <1>1, <1>2

LEMMA RemoveUserFacts ==
  ASSUME Sound, NEW c \in Calls, RemoveUser(c)
  PROVE  /\ Rested(c) /\ call[c].pc = "write" /\ call[c].op = "remove"
         /\ members' \subseteq members
         /\ \/ users' = users
            \/ /\ DOMAIN users' = DOMAIN users \ {call[c].on}
               /\ users' \in [DOMAIN users' -> UserRow]
               /\ \A u \in DOMAIN users' : users'[u] = users[u]
  <1> DEFINE mine == {m \in members : m[2] = call[c].on}
  <1>1. Rested(c) /\ call[c].pc = "write" /\ call[c].op = "remove"
    BY CallFacts, EndsFacts DEF RemoveUser, Writes
  <1>2. CASE Kept(mine)
    <2>1. users' = Without(users, call[c].on) /\ members' = Left(mine)
      BY <1>2 DEF RemoveUser
    <2>2. members' \subseteq members
      BY <2>1 DEF Left
    <2>3. \A u \in DOMAIN users : users[u] \in UserRow
      BY RowFacts DEF Sound
    <2> QED
      BY <1>1, <2>1, <2>2, <2>3 DEF Without
  <1>3. CASE ~Kept(mine)
    BY <1>1, <1>3 DEF RemoveUser
  <1> QED
    BY <1>2, <1>3

\* The rows of groups, and that the tables of groups have their types.
GroupsType ==
  /\ DOMAIN groups \subseteq 1..made /\ groups \in [DOMAIN groups -> GroupRow]
  /\ members \subseteq Gids \X Users /\ mixed \subseteq Values /\ made \in 0..MaxGroups

LEMMA CreateFacts ==
  ASSUME Sound, NEW c \in Calls, CreateGroup(c)
  PROVE  /\ Rested(c) /\ call[c].pc = "write" /\ call[c].op = "create" /\ GroupsType'
         /\ mixed' = mixed
         /\ \/ groups' = groups
            \/ /\ made' \notin DOMAIN groups /\ DOMAIN groups' = DOMAIN groups \cup {made'}
               /\ \A g \in DOMAIN groups : groups'[g] = groups[g]
               /\ groups'[made'].name = call[c].dto["name"]
  <1> DEFINE row == [role |-> call[c].dto["role"], name |-> call[c].dto["name"]]
  <1>1. Rested(c) /\ call[c].pc = "write" /\ call[c].op = "create"
    BY CallFacts, EndsFacts DEF CreateGroup, Writes
  <1>2. /\ DOMAIN groups \subseteq 1..made /\ \A g \in DOMAIN groups : groups[g] \in GroupRow
        /\ members \subseteq Gids \X Users /\ mixed \subseteq Values /\ made \in 0..MaxGroups
        /\ MaxGroups \in Nat
    BY AccessAssumption DEF Sound, TypeOK
  <1>3. mixed' = mixed /\ members' = members
    BY DEF CreateGroup
  <1>4. CASE groups' = groups /\ made' = made
    BY <1>1, <1>2, <1>3, <1>4 DEF Sound, TypeOK, GroupsType
  <1>5. CASE made # MaxGroups /\ made' = made + 1 /\ groups' = With(groups, made', row)
    <2>1. row \in GroupRow /\ row.name = call[c].dto["name"]
      BY <1>1, FitsFacts DEF GroupRow
    <2> HIDE DEF row
    <2>2. made' \in 1..MaxGroups /\ made' \notin DOMAIN groups /\ made \in Nat
      BY <1>2, <1>5
    <2>3. DOMAIN groups' = DOMAIN groups \cup {made'}
      BY <1>5 DEF With
    <2>4. /\ groups'[made'] = row
          /\ \A g \in DOMAIN groups : groups'[g] = groups[g]
      BY <1>5, <2>2 DEF With
    <2>5. \A g \in DOMAIN groups' : groups'[g] \in GroupRow
      BY <1>2, <2>1, <2>3, <2>4
    <2>6. groups' \in [DOMAIN groups' -> GroupRow]
      BY <1>5, <2>5 DEF With
    <2>7. DOMAIN groups' \subseteq 1..made'
      BY <1>2, <1>5, <2>3
    <2> QED
      BY <1>1, <1>2, <1>3, <2>1, <2>2, <2>3, <2>4, <2>6, <2>7 DEF GroupsType
  <1> QED
    BY <1>4, <1>5 DEF CreateGroup

LEMMA AmendFacts ==
  ASSUME Sound, NEW c \in Calls, AmendGroup(c)
  PROVE  LET g == call[c].on IN
         /\ Rested(c) /\ call[c].pc = "write" /\ call[c].op = "amend" /\ GroupsType'
         /\ mixed \subseteq mixed'
         /\ \/ groups' = groups /\ mixed' = mixed
            \/ /\ g \in DOMAIN groups /\ DOMAIN groups' = DOMAIN groups
               /\ \A h \in DOMAIN groups \ {g} : groups'[h] = groups[h]
               /\ \A f \in {"role", "name"} :
                    groups'[g][f] = IF f \in DOMAIN call[c].dto THEN call[c].dto[f]
                                                                ELSE groups[g][f]
               /\ "name" \in DOMAIN call[c].dto => call[c].dto["name"] \in mixed'
  <1> DEFINE g   == call[c].on
             dto == call[c].dto
             new == {dto[f] : f \in DOMAIN dto \cap {"name"}}
             row == Merged(groups[g], dto)
  <1>1. Rested(c) /\ call[c].pc = "write" /\ call[c].op = "amend"
    BY CallFacts, EndsFacts DEF AmendGroup, Writes
  <1>2. /\ DOMAIN groups \subseteq 1..made /\ \A h \in DOMAIN groups : groups[h] \in GroupRow
        /\ members \subseteq Gids \X Users /\ mixed \subseteq Values /\ made \in 0..MaxGroups
    BY DEF Sound, TypeOK
  <1>3. made' = made /\ members' = members
    BY DEF AmendGroup
  <1>4. CASE groups' = groups /\ mixed' = mixed
    BY <1>1, <1>2, <1>3, <1>4 DEF Sound, TypeOK, GroupsType
  <1>5. CASE /\ g \in DOMAIN groups /\ groups' = [groups EXCEPT ![g] = row]
             /\ mixed' = mixed \cup new
    <2>1. row \in GroupRow
      BY <1>1, <1>2, <1>5, FitsFacts, MergedGroup
    <2>2. \A f \in {"role", "name"} : row[f] = IF f \in DOMAIN dto THEN dto[f] ELSE groups[g][f]
      BY <1>2, <1>5, MergedGroupField
    <2>3. /\ "name" \in DOMAIN dto => dto["name"] \in new
          /\ \A n \in new : "name" \in DOMAIN dto /\ n = dto["name"]
      BY Zenon
    <2>4. new \subseteq Values
      BY <1>1, <2>3, FitsFacts
    <2> HIDE DEF new, row
    <2>5. /\ DOMAIN groups' = DOMAIN groups /\ groups'[g] = row
          /\ \A h \in DOMAIN groups \ {g} : groups'[h] = groups[h]
      BY <1>5
    <2>6. groups' \in [DOMAIN groups' -> GroupRow]
      BY <1>2, <1>5, <2>1, <2>5
    <2> QED
      BY <1>1, <1>2, <1>3, <1>5, <2>2, <2>3, <2>4, <2>5, <2>6 DEF GroupsType
  <1> QED
    BY <1>4, <1>5 DEF AmendGroup

LEMMA OtherGroupFacts ==
  ASSUME Sound, NEW c \in Calls, DropGroup(c) \/ Join(c) \/ Leave(c)
  PROVE  /\ Rested(c) /\ call[c].pc = "write" /\ call[c].op \in {"drop", "join", "leave"}
         /\ GroupsType' /\ mixed' = mixed
         /\ DOMAIN groups' \subseteq DOMAIN groups
         /\ \A g \in DOMAIN groups' : groups'[g] = groups[g]
  <1>1. Rested(c) /\ call[c].pc = "write" /\ call[c].op \in {"drop", "join", "leave"}
    BY CallFacts, EndsFacts DEF DropGroup, Join, Leave, Writes
  <1>2. /\ DOMAIN groups \subseteq 1..made /\ \A g \in DOMAIN groups : groups[g] \in GroupRow
        /\ groups \in [DOMAIN groups -> GroupRow]
        /\ members \subseteq Gids \X Users /\ mixed \subseteq Values /\ made \in 0..MaxGroups
    BY DEF Sound, TypeOK
  <1>3. made' = made /\ mixed' = mixed
    BY DEF DropGroup, Join, Leave
  <1>4. CASE DropGroup(c)
    <2> DEFINE its == {m \in members : m[1] = call[c].on}
    <2>1. CASE groups' = groups /\ members' = members
      BY <1>1, <1>2, <1>3, <2>1 DEF GroupsType
    <2>2. CASE groups' = Without(groups, call[c].on) /\ members' = Left(its)
      <3>1. members' \subseteq members
        BY <2>2 DEF Left
      <3>2. /\ DOMAIN groups' \subseteq DOMAIN groups
            /\ \A g \in DOMAIN groups' : groups'[g] = groups[g]
        BY <2>2 DEF Without
      <3>3. groups' \in [DOMAIN groups' -> GroupRow]
        BY <1>2, <2>2 DEF Without
      <3> QED
        BY <1>1, <1>2, <1>3, <3>1, <3>2, <3>3 DEF GroupsType
    <2> QED
      BY <1>4, <2>1, <2>2 DEF DropGroup
  <1>5. CASE Join(c) \/ Leave(c)
    <2>1. groups' = groups
      BY <1>5 DEF Join, Leave
    <2>2. call[c].on \in Gids /\ call[c].who \in Users
      BY <1>1, FitsFacts DEF GroupOps
    <2>3. members' \subseteq Gids \X Users
      BY <1>2, <1>5, <2>2 DEF Join, Leave
    <2> QED
      BY <1>1, <1>2, <1>3, <2>1, <2>3 DEF GroupsType
  <1> QED
    BY <1>4, <1>5

-----------------------------------------------------------------------------
(* Every step, as seen by each request, and that types are kept.            *)

Turn(d) ==
  \/ Kin(call[d], call'[d]) \/ call'[d] = Resting
  \/ Came(d) \/ Entered(d) \/ Read(d) \/ Aimed(d) \/ Cleared(d)
Turns ==
  /\ call' \in [Calls -> CallType]
  /\ \A d \in Calls : Turn(d) /\ Ok(call'[d])

\* One request takes a turn and the others stay.
LEMMA OneTurn ==
  ASSUME Sound, NEW c \in Calls, Others(c), Turn(c), Ok(call'[c])
  PROVE  Turns
  <1>1. call' \in [Calls -> CallType] /\ \A d \in Calls \ {c} : call'[d] = call[d]
    BY DEF Others
  <1>2. \A d \in Calls : Ok(call[d]) /\ Kin(call[d], call[d])
    BY CallFacts, KinSelf
  <1>3. \A d \in Calls \ {c} : Turn(d) /\ Ok(call'[d])
    BY <1>1, <1>2 DEF Turn
  <1> QED
    BY <1>1, <1>3 DEF Turns

LEMMA RestTurn ==
  ASSUME Sound, NEW c \in Calls, Rested(c)
  PROVE  Turns
  <1>1. Others(c) /\ Turn(c) /\ Ok(call'[c])
    BY RestingOk DEF Rested, Turn
  <1> QED
    BY <1>1, OneTurn

LEMMA QuietTurn ==
  ASSUME Sound, UNCHANGED call
  PROVE  Turns
  <1>1. call' \in [Calls -> CallType] /\ \A d \in Calls : call'[d] = call[d]
    BY DEF Sound, TypeOK
  <1>2. \A d \in Calls : Ok(call[d]) /\ Kin(call[d], call[d])
    BY CallFacts, KinSelf
  <1> QED
    BY <1>1, <1>2 DEF Turns, Turn

\* Types of all but the requests.
TablesOK ==
  /\ schema \in Schemas
  /\ table \in Matrices /\ cache \in Matrices \cup {{}}
  /\ DOMAIN users \subseteq Users /\ users \in [DOMAIN users -> UserRow]
  /\ DOMAIN groups \subseteq 1..made /\ groups \in [DOMAIN groups -> GroupRow]
  /\ members \subseteq Gids \X Users
  /\ tokens \subseteq [sub : Users, role : Roles]
  /\ held \in 0..edits /\ mixed \subseteq Values
  /\ edits \in 0..MaxEdits /\ made \in 0..MaxGroups
  /\ calls \in 0..MaxCalls /\ faults \in 0..MaxFaults

LEMMA Parts ==
  /\ TypeOK <=> TablesOK /\ call \in [Calls -> CallType]
  /\ TypeOK' <=> TablesOK' /\ call' \in [Calls -> CallType]
  BY DEF TypeOK, TablesOK

LEMMA TurnsSound ==
  ASSUME Turns, TablesOK', AllAged'
  PROVE  Sound'
  <1>1. TypeOK'
    BY Parts DEF Turns
  <1>2. CallsOk'
    BY DEF Turns, CallsOk
  <1> QED
    BY <1>1, <1>2 DEF Sound

\* The editions stay in order when neither the matrix nor the cache changes.
LEMMA TurnsAged ==
  ASSUME Sound, Turns, UNCHANGED <<edits, held>>
  PROVE  AllAged'
  <1> SUFFICES ASSUME NEW d \in Calls PROVE Aged(d)'
    BY DEF AllAged
  <1>1. /\ Aged(d) /\ Ok(call[d]) /\ Turn(d)
        /\ call[d].began \in Nat /\ call[d].read \in Nat
        /\ edits \in Nat /\ held \in 0..edits
    BY CallFacts, AccessAssumption DEF Sound, AllAged, Turns, TypeOK
  <1>2. CASE Kin(call[d], call'[d])
    BY <1>1, <1>2 DEF Aged, Kin, SameJob
  <1>3. CASE call'[d] = Resting
    BY <1>1, <1>3, RestingType DEF Aged, Resting, Request
  <1>4. CASE Came(d)
    BY <1>1, <1>4 DEF Aged, Came
  <1>5. CASE Read(d)
    BY <1>1, <1>5 DEF Aged, Read, SameJob
  <1>6. CASE Entered(d) \/ Aimed(d) \/ Cleared(d)
    <2>1. call'[d].began = call[d].began
      BY <1>6 DEF Entered, Aimed, Cleared, Advanced, SameJob
    <2>2. CASE Aimed(d) \/ Cleared(d)
      BY <1>1, <2>1, <2>2 DEF Aged, Aimed, Cleared, Advanced
    <2>3. CASE Entered(d)
      <3>1. call[d].op \in UserOps \cup GroupOps \cup {"reload"}
        BY <1>1, <2>3, CallFacts DEF Entered, Ok
      <3>2. call'[d].pc # "loaded"
        BY <2>3, <3>1, FirstQueryFacts DEF Entered
      <3> QED
        BY <1>1, <2>1, <3>2 DEF Aged
    <2> QED
      BY <1>6, <2>2, <2>3
  <1> QED
    BY <1>1, <1>2, <1>3, <1>4, <1>5, <1>6 DEF Turn

LEMMA TurnUsers ==
  ASSUME Sound, NEW c \in Calls, UpdateUser(c) \/ RemoveUser(c)
  PROVE  Turns /\ TablesOK'
  <1>0. TablesOK
    BY Parts DEF Sound
  <1>1. CASE UpdateUser(c)
    <2>0. UNCHANGED <<schema, table, groups, members, cache, tokens, held, mixed, bounds>>
      BY <1>1 DEF UpdateUser, UsersOnly
    <2>1. CASE Updated(c)
      <3>1. \A d \in Calls \ {c} : Turn(d) /\ Ok(call'[d])
        <4>1. \A d \in Calls \ {c} : Kin(call[d], call'[d]) /\ Ok(call[d])
          BY <2>1, CallFacts DEF Updated
        <4> QED
          BY <4>1, KinOk DEF Turn
      <3>2. Turn(c) /\ Ok(call'[c])
        BY <2>1, RestingOk DEF Updated, Turn
      <3>3. Turns
        BY <2>1, <3>1, <3>2 DEF Updated, Turns
      <3>4. DOMAIN users' = DOMAIN users /\ users' \in [DOMAIN users' -> UserRow]
        BY <1>0, <2>1 DEF Updated, TablesOK
      <3> QED
        BY <1>0, <2>0, <3>3, <3>4 DEF TablesOK, bounds
    <2>2. CASE Rested(c) /\ users' = users
      BY <1>0, <2>0, <2>2, RestTurn DEF TablesOK, bounds
    <2> QED
      BY <1>1, <2>1, <2>2, UpdateUserFacts
  <1>2. CASE RemoveUser(c)
    <2>0. UNCHANGED <<schema, table, groups, cache, tokens, held, mixed, bounds>>
      BY <1>2 DEF RemoveUser, UsersOnly
    <2>1. Rested(c) /\ members' \subseteq members
      BY <1>2, RemoveUserFacts
    <2>2. DOMAIN users' \subseteq DOMAIN users /\ users' \in [DOMAIN users' -> UserRow]
      BY <1>0, <1>2, RemoveUserFacts DEF TablesOK
    <2> QED
      BY <1>0, <2>0, <2>1, <2>2, RestTurn DEF TablesOK, bounds
  <1> QED
    BY <1>1, <1>2

LEMMA TurnGroups ==
  ASSUME Sound, NEW c \in Calls,
         CreateGroup(c) \/ AmendGroup(c) \/ DropGroup(c) \/ Join(c) \/ Leave(c)
  PROVE  Turns /\ TablesOK'
  <1>0. TablesOK
    BY Parts DEF Sound
  <1>1. Rested(c) /\ GroupsType'
    BY CreateFacts, AmendFacts, OtherGroupFacts
  <1>2. UNCHANGED <<schema, table, users, cache, tokens, held, edits, calls, faults>>
    BY DEF CreateGroup, AmendGroup, DropGroup, Join, Leave, GroupsOnly
  <1> QED
    BY <1>0, <1>1, <1>2, RestTurn DEF TablesOK, GroupsType

LEMMA TurnReads ==
  ASSUME Sound, NEW c \in Calls,
         Author(c) \/ Load(c) \/ Target(c) \/ Found(c) \/ NameFree(c)
  PROVE  Turns /\ TablesOK'
  <1>1. TablesOK'
    <2>1. TablesOK /\ Reads
      BY Parts DEF Sound, Author, Load, Target, Found, NameFree
    <2> QED
      BY <2>1 DEF TablesOK, Reads, tables, bounds
  <1>2. CASE Rested(c)
    BY <1>1, <1>2, RestTurn
  <1>3. CASE Entered(c) \/ Read(c) \/ (Aimed(c) /\ Ok(call'[c])) \/ Cleared(c)
    <2>1. Turn(c)
      BY <1>3 DEF Turn
    <2>2. Others(c)
      BY <1>3 DEF Entered, Read, Aimed, Cleared, Advanced
    <2>3. Ok(call'[c])
      BY <1>3, ClearedOk DEF Entered, Read
    <2> QED
      BY <1>1, <2>1, <2>2, <2>3, OneTurn
  <1> QED
    BY <1>2, <1>3, AuthorFacts, LoadFacts, TargetFacts, FoundFacts, NameFacts

LEMMA TurnArrive ==
  ASSUME Sound, NEW c \in Calls, NEW t \in tokens, NEW j \in Jobs, Arrive(c, t, j)
  PROVE  Turns /\ TablesOK'
  <1> DEFINE new == {n \in Values : /\ j.op = "create" /\ j.dto["name"] = n
                                    /\ \E d \in Calls : Creates(d, n)}
  <1>1. Came(c)
    BY ArriveFacts
  <1>2. Others(c) /\ Turn(c) /\ Ok(call'[c])
    BY <1>1 DEF Came, Turn
  <1>3. Turns
    BY <1>2, OneTurn
  <1>4. /\ calls < MaxCalls /\ calls' = calls + 1 /\ mixed' = mixed \cup new
        /\ UNCHANGED <<tables, cache, tokens, held, edits, made, faults>>
    BY DEF Arrive
  <1>5. new \subseteq Values
    OBVIOUS
  <1> HIDE DEF new
  <1>6. TablesOK
    BY Parts DEF Sound
  <1>7. calls' \in 0..MaxCalls
    BY <1>4, <1>6, AccessAssumption DEF TablesOK
  <1> QED
    BY <1>3, <1>4, <1>5, <1>6, <1>7 DEF TablesOK, tables

LEMMA TurnLoaded ==
  ASSUME Sound, NEW c \in Calls, Loaded(c)
  PROVE  Turns /\ TablesOK' /\ AllAged'
  <1>1. \A d \in Calls \ {c} : Turn(d) /\ Ok(call'[d])
    BY CallFacts, LoadedFacts, KinOk DEF Turn
  <1>2. Turn(c) /\ Ok(call'[c])
    BY LoadedFacts, RestingOk DEF Turn
  <1>3. Turns
    BY <1>1, <1>2, LoadedFacts DEF Turns
  <1>4. Aged(c) /\ call[c].pc = "loaded" /\ Ok(call[c]) /\ call[c].read \in 0..MaxEdits
    BY CallFacts, LoadedFacts DEF Sound, AllAged
  <1>5. /\ cache' = call[c].seen /\ held' = call[c].read /\ UNCHANGED <<tables, tokens, mixed, bounds>>
    BY DEF Loaded
  <1>6. call[c].seen \in Matrices /\ call[c].read \in 0..edits
    BY <1>4 DEF Ok, Aged
  <1>7. TablesOK
    BY Parts DEF Sound
  <1>8. TablesOK'
    BY <1>5, <1>6, <1>7 DEF TablesOK, tables, bounds
  <1>9. AllAged'
    <2> SUFFICES ASSUME NEW d \in Calls PROVE Aged(d)'
      BY DEF AllAged
    <2>1. edits' = edits /\ edits \in Nat
      BY <1>5, <1>7, AccessAssumption DEF bounds, TablesOK
    <2>2. CASE d = c
      BY <2>1, <2>2, LoadedFacts, RestingType DEF Aged, Resting, Request
    <2>3. CASE d # c
      <3>1. Kin(call[d], call'[d]) /\ Aged(d) /\ Ok(call[d]) /\ (call[d].op = "reload" => call'[d].over)
        BY <2>3, CallFacts, LoadedFacts DEF Sound, AllAged
      <3>2. call[d].pc = "loaded" => call'[d].over
        BY <3>1 DEF Ok
      <3> QED
        BY <2>1, <3>1, <3>2 DEF Aged, Kin, SameJob
    <2> QED
      BY <2>2, <2>3
  <1> QED
    BY <1>3, <1>8, <1>9

LEMMA TurnQuiet ==
  ASSUME Sound, (\E u \in Users : Login(u)) \/ (\E m \in Matrices : Edit(m)) \/ UNCHANGED vars
  PROVE  Turns /\ TablesOK' /\ AllAged' /\ call' = call
  <1>1. TablesOK
    BY Parts DEF Sound
  <1>2. call' = call
    BY DEF Login, Edit, vars
  <1>3. Turns
    BY <1>2, QuietTurn
  <1>4. CASE UNCHANGED vars
    <2>1. TablesOK' /\ UNCHANGED <<edits, held>>
      BY <1>1, <1>4 DEF vars, tables, bounds, TablesOK
    <2> QED
      BY <1>2, <1>3, <2>1, TurnsAged
  <1>5. CASE \E u \in Users : Login(u)
    <2>1. PICK u \in Users : Login(u)
      BY <1>5
    <2>2. UNCHANGED <<tables, cache, held, mixed, bounds>>
      BY <2>1 DEF Login
    <2>3. u \in DOMAIN users /\ tokens' = tokens \cup {[sub |-> u, role |-> users[u].role]}
      BY <2>1 DEF Login
    <2>4. users[u].role \in Roles
      BY <2>3, RowFacts DEF Sound
    <2>5. tokens' \subseteq [sub : Users, role : Roles]
      BY <1>1, <2>3, <2>4 DEF TablesOK
    <2>6. TablesOK' /\ UNCHANGED <<edits, held>>
      BY <1>1, <2>2, <2>5 DEF tables, bounds, TablesOK
    <2> QED
      BY <1>2, <1>3, <2>6, TurnsAged
  <1>6. CASE \E m \in Matrices : Edit(m)
    <2>1. PICK m \in Matrices : Edit(m)
      BY <1>6
    <2>2. /\ edits < MaxEdits /\ edits' = edits + 1 /\ table' = m
          /\ UNCHANGED <<schema, users, groups, members, cache, tokens, held, mixed, made, calls, faults>>
      BY <2>1 DEF Edit
    <2>3. edits' \in 0..MaxEdits /\ held' \in 0..edits' /\ edits \in Nat
      BY <1>1, <2>2, AccessAssumption DEF TablesOK
    <2>4. TablesOK'
      BY <1>1, <2>2, <2>3 DEF TablesOK
    <2>5. \A d \in Calls : Aged(d) /\ call[d].began \in Nat /\ call[d].read \in Nat
      BY CallFacts, AccessAssumption DEF Sound, AllAged
    <2>6. \A d \in Calls : Aged(d)'
      BY <1>2, <2>2, <2>3, <2>5 DEF Aged
    <2> QED
      BY <1>2, <1>3, <2>4, <2>6 DEF AllAged
  <1> QED
    BY <1>4, <1>5, <1>6

LEMMA TurnFault ==
  ASSUME Sound, (\E c \in Calls : Fault(c)) \/ Restart
  PROVE  Turns /\ TablesOK' /\ AllAged' /\ UNCHANGED <<users, groups, mixed>>
  <1>1. TablesOK
    BY Parts DEF Sound
  <1>2. CASE \E c \in Calls : Fault(c)
    <2>1. PICK c \in Calls : Fault(c)
      BY <1>2
    <2>2. /\ Ends(c) /\ faults < MaxFaults /\ faults' = faults + 1
          /\ UNCHANGED <<tables, cache, tokens, held, mixed, edits, made, calls>>
      BY <2>1 DEF Fault
    <2>3. faults' \in 0..MaxFaults
      BY <1>1, <2>2, AccessAssumption DEF TablesOK
    <2>4. TablesOK' /\ UNCHANGED <<users, groups, mixed, edits, held>>
      BY <1>1, <2>2, <2>3 DEF TablesOK, tables
    <2>5. Turns
      BY <2>2, CallFacts, EndsFacts, RestTurn
    <2> QED
      BY <2>4, <2>5, TurnsAged
  <1>3. CASE Restart
    <2>2. /\ faults < MaxFaults /\ faults' = faults + 1 /\ cache' = table /\ held' = edits
          /\ call' = [c \in Calls |-> Resting]
          /\ UNCHANGED <<tables, tokens, mixed, edits, made, calls>>
      BY <1>3 DEF Restart
    <2>3. faults' \in 0..MaxFaults /\ edits \in Nat
      BY <1>1, <2>2, AccessAssumption DEF TablesOK
    <2>4. TablesOK' /\ UNCHANGED <<users, groups, mixed>>
      BY <1>1, <2>2, <2>3 DEF TablesOK, tables
    <2>5. call' \in [Calls -> CallType] /\ \A d \in Calls : call'[d] = Resting
      BY <2>2, RestingType
    <2>6. Turns
      BY <2>5, RestingOk DEF Turns, Turn
    <2>7. \A d \in Calls : Aged(d)'
      BY <2>2, <2>3, <2>5 DEF Aged, Resting, Request
    <2> QED
      BY <2>4, <2>6, <2>7 DEF AllAged
  <1> QED
    BY <1>2, <1>3

\* Types and the order of editions are inductive.
LEMMA StepSound ==
  ASSUME Sound, [Next]_vars
  PROVE  Sound' /\ Turns
  <1>1. CASE (\E u \in Users : Login(u)) \/ (\E m \in Matrices : Edit(m)) \/ UNCHANGED vars
    BY <1>1, TurnQuiet, TurnsSound
  <1>2. CASE (\E c \in Calls : Fault(c)) \/ Restart
    BY <1>2, TurnFault, TurnsSound
  <1>3. ASSUME NEW c \in Calls, Loaded(c)
        PROVE  Sound' /\ Turns
    BY <1>3, TurnLoaded, TurnsSound
  <1>4. ASSUME NEW c \in Calls,
               \/ \E t \in tokens, j \in Jobs : Arrive(c, t, j)
               \/ Author(c) \/ Load(c) \/ Target(c) \/ Found(c) \/ NameFree(c)
               \/ Write(c)
        PROVE  Sound' /\ Turns
    <2>1. UNCHANGED <<edits, held>>
      BY <1>4 DEF Arrive, Author, Load, Target, Found, NameFree, Reads, bounds, Write, UpdateUser,
                  RemoveUser, UsersOnly, CreateGroup, AmendGroup, DropGroup, Join, Leave, GroupsOnly
    <2>2. Turns /\ TablesOK'
      BY <1>4, TurnArrive, TurnReads, TurnUsers, TurnGroups DEF Write
    <2> QED
      BY <2>1, <2>2, TurnsAged, TurnsSound
  <1> QED
    BY <1>1, <1>2, <1>3, <1>4 DEF Next

LEMMA InitSound ==
  ASSUME Init
  PROVE  Sound
  <1>1. \A u \in Users : FirstUsers[u] \in UserRow /\ FirstUsers[u].role \in Roles
    BY AccessAssumption DEF UserRow
  <1>2. DOMAIN users = Users /\ users \in [Users -> UserRow] /\ DOMAIN groups = {}
    BY AccessAssumption DEF Init
  <1>3. \A t \in tokens : t \in [sub : Users, role : Roles]
    BY <1>1 DEF Init
  <1>4. groups \in [DOMAIN groups -> GroupRow] /\ DOMAIN groups \subseteq 1..made
    BY <1>2 DEF Init
  <1>5. TablesOK
    BY <1>2, <1>3, <1>4, AccessAssumption DEF Init, TablesOK
  <1>6. call \in [Calls -> CallType] /\ \A d \in Calls : call[d] = Resting
    BY RestingType DEF Init
  <1>7. CallsOk
    BY <1>6, RestingOk DEF CallsOk
  <1>8. AllAged
    BY <1>6 DEF AllAged, Aged, Resting, Request, Init
  <1> QED
    BY <1>5, <1>6, <1>7, <1>8, Parts DEF Sound

\* The tables and the requests always have their types.
THEOREM TypeCorrect == Spec => []TypeOK
  <1>1. Init => Sound
    BY InitSound
  <1>2. Sound /\ [Next]_vars => Sound'
    BY StepSound
  <1>3. Sound => TypeOK
    BY DEF Sound
  <1> QED
    BY <1>1, <1>2, <1>3, PTL DEF Spec

-----------------------------------------------------------------------------
(* The role that the guards saw.                                           *)

\* The rows of users change by an UPDATE or a DELETE of one request.
LEMMA UsersMove ==
  ASSUME Sound, [Next]_vars
  PROVE  users' = users \/ \E c \in Calls : Updated(c) \/ RemoveUser(c)
  <1>1. ASSUME NEW c \in Calls, UpdateUser(c)
        PROVE  users' = users \/ Updated(c)
    BY <1>1, UpdateUserFacts
  <1>2. CASE (\E u \in Users : Login(u)) \/ (\E m \in Matrices : Edit(m)) \/ UNCHANGED vars
    BY <1>2 DEF Login, Edit, vars, tables
  <1>3. CASE (\E c \in Calls : Fault(c)) \/ Restart
    BY <1>3, TurnFault
  <1>4. ASSUME NEW c \in Calls,
               \/ \E t \in tokens, j \in Jobs : Arrive(c, t, j)
               \/ Author(c) \/ Load(c) \/ Loaded(c) \/ Target(c) \/ Found(c) \/ NameFree(c)
               \/ CreateGroup(c) \/ AmendGroup(c) \/ DropGroup(c) \/ Join(c) \/ Leave(c)
        PROVE  users' = users
    BY <1>4 DEF Arrive, Author, Load, Loaded, Target, Found, NameFree, Reads, tables,
                CreateGroup, AmendGroup, DropGroup, Join, Leave, GroupsOnly
  <1> QED
    BY <1>1, <1>2, <1>3, <1>4 DEF Next, Write

\* The role that the row has now is among those the author has had, and so is
\* the one that was read.
RoleOk(d) ==
  call[d].pc # "rest" =>
    /\ call[d].by \in DOMAIN users => users[call[d].by].role \in call[d].had
    /\ call[d].pc # "author" => call[d].role \in call[d].had
RolesOk == \A d \in Calls : RoleOk(d)

LEMMA UsersHad ==
  ASSUME Sound, [Next]_vars, NEW d \in Calls, RoleOk(d), call[d].pc # "rest",
         call'[d].pc # "rest", call'[d].by = call[d].by, call[d].had \subseteq call'[d].had,
         call'[d].by \in DOMAIN users'
  PROVE  users'[call'[d].by].role \in call'[d].had
  <1> DEFINE u == call[d].by
  <1>1. CASE users' = users
    BY <1>1 DEF RoleOk
  <1>2. ASSUME NEW c \in Calls, Updated(c)
        PROVE  users'[u].role \in call'[d].had
    <2>1. d # c
      BY <1>2, RestingType DEF Updated
    <2>2. CASE u = call[c].on
      BY <1>2, <2>1, <2>2 DEF Updated
    <2>3. CASE u # call[c].on
      <3>1. u \in DOMAIN users /\ users'[u] = users[u]
        BY <1>2, <2>3 DEF Updated
      <3> QED
        BY <3>1 DEF RoleOk
    <2> QED
      BY <2>2, <2>3
  <1>3. ASSUME NEW c \in Calls, RemoveUser(c)
        PROVE  users'[u].role \in call'[d].had
    <2>1. u \in DOMAIN users /\ users'[u] = users[u]
      BY <1>3, RemoveUserFacts
    <2> QED
      BY <2>1 DEF RoleOk
  <1> QED
    BY <1>1, <1>2, <1>3, UsersMove

LEMMA StepRoles ==
  ASSUME Sound, RolesOk, [Next]_vars
  PROVE  RolesOk'
  <1> SUFFICES ASSUME NEW d \in Calls PROVE RoleOk(d)'
    BY DEF RolesOk
  <1>1. Turn(d) /\ RoleOk(d)
    BY StepSound DEF Turns, RolesOk
  <1>2. CASE Kin(call[d], call'[d])
    <2>1. /\ call'[d].by = call[d].by /\ call[d].had \subseteq call'[d].had
          /\ call'[d].pc = call[d].pc /\ call'[d].role = call[d].role
      BY <1>2 DEF Kin, SameJob, SameRight
    <2>2. CASE call[d].pc = "rest"
      BY <2>1, <2>2 DEF RoleOk
    <2>3. CASE call[d].pc # "rest"
      <3>1. call'[d].by \in DOMAIN users' => users'[call'[d].by].role \in call'[d].had
        BY <1>1, <2>1, <2>3, UsersHad
      <3> QED
        BY <1>1, <2>1, <3>1 DEF RoleOk
    <2> QED
      BY <2>2, <2>3
  <1>3. CASE call'[d] = Resting
    BY <1>3, RestingType DEF RoleOk
  <1>4. CASE Came(d)
    <2>1. users' = users
      <3>1. call'[d].pc = "author" /\ call[d].pc = "rest"
        BY <1>4 DEF Came
      <3>2. \A c \in Calls : Updated(c) => FALSE
        <4> TAKE c \in Calls
        <4>1. ASSUME Updated(c) PROVE FALSE
          <5>1. CASE d = c
            BY <3>1, <4>1, <5>1, RestingType DEF Updated
          <5>2. CASE d # c
            BY <3>1, <4>1, <5>2 DEF Updated, Kin
          <5> QED
            BY <5>1, <5>2
        <4> QED
          BY <4>1
      <3>3. \A c \in Calls : RemoveUser(c) => FALSE
        <4> TAKE c \in Calls
        <4>1. ASSUME RemoveUser(c) PROVE FALSE
          <5>1. Rested(c)
            BY <4>1, RemoveUserFacts
          <5> QED
            BY <3>1, <5>1, RestingType DEF Rested, Others
        <4> QED
          BY <4>1
      <3> QED
        BY <3>2, <3>3, UsersMove
    <2> QED
      BY <1>4, <2>1 DEF RoleOk, Came
  <1>5. CASE Entered(d) \/ Read(d) \/ Aimed(d) \/ Cleared(d)
    <2>1. /\ call'[d].by = call[d].by /\ call'[d].had = call[d].had
          /\ call[d].pc # "rest"
      BY <1>5 DEF Entered, Read, Aimed, Cleared, Advanced, SameJob
    <2>2. call'[d].role \in call'[d].had
      <3>1. CASE Entered(d)
        BY <1>1, <2>1, <3>1 DEF Entered, RoleOk
      <3>2. CASE Read(d) \/ Aimed(d) \/ Cleared(d)
        <4>1. call[d].pc \notin {"rest", "author"} /\ call'[d].role = call[d].role
          BY <3>2 DEF Read, Aimed, Cleared, Advanced, SameRight
        <4> QED
          BY <1>1, <2>1, <4>1 DEF RoleOk
      <3> QED
        BY <1>5, <3>1, <3>2
    <2>3. CASE call'[d].pc # "rest"
      <3>1. call'[d].by \in DOMAIN users' => users'[call'[d].by].role \in call'[d].had
        BY <1>1, <2>1, <2>3, UsersHad
      <3> QED
        BY <2>2, <3>1 DEF RoleOk
    <2>4. CASE call'[d].pc = "rest"
      BY <2>4 DEF RoleOk
    <2> QED
      BY <2>3, <2>4
  <1> QED
    BY <1>1, <1>2, <1>3, <1>4, <1>5 DEF Turn

LEMMA InitRoles ==
  ASSUME Init
  PROVE  RolesOk
  <1>1. \A d \in Calls : call[d].pc = "rest"
    BY RestingType DEF Init
  <1> QED
    BY <1>1 DEF RolesOk, RoleOk

\* No request is judged by a role that its author has not had since it came.
THEOREM RoleCorrect == Spec => []RoleIsCurrent
  <1>1. Init => Sound /\ RolesOk
    BY InitSound, InitRoles
  <1>2. Sound /\ RolesOk /\ [Next]_vars => (Sound /\ RolesOk)'
    BY StepSound, StepRoles
  <1>3. RolesOk => RoleIsCurrent
    BY DEF RolesOk, RoleOk, RoleIsCurrent
  <1> QED
    BY <1>1, <1>2, <1>3, PTL DEF Spec

-----------------------------------------------------------------------------
(* The right to write.                                                     *)

\* What was admitted: an update of another's row, or of a role, has the right to
\* it, a removal has it and is of another's row; a row that was read as a
\* superadmin's is only in the hands of a superadmin.
RightOk(d) ==
  LET v == call[d] IN
  /\ v.pc \in {"target", "found", "write"} /\ v.op = "update" /\ (v.by # v.on \/ RoleGiven(v.dto)) =>
       v.right
  /\ v.pc \in {"target", "found", "write"} /\ v.op = "remove" => v.right /\ v.by # v.on
  /\ v.pc \in {"found", "write"} /\ v.op \in UserOps /\ v.was = "superadmin" =>
       v.role = "superadmin"
RightsOk == \A d \in Calls : RightOk(d)

\* The guards have asked for the right.
LEMMA AdmittedRight ==
  ASSUME NEW v, NEW role, Admitted(v, role)
  PROVE  /\ v.op = "update" /\ (v.by # v.on \/ RoleGiven(v.dto)) => HasRight(v, role)
         /\ v.op = "remove" => HasRight(v, role) /\ v.by # v.on
  <1>1. v.op = "update" /\ (v.by # v.on \/ RoleGiven(v.dto)) => HasRight(v, role)
    BY DEF Admitted, CanWrite, HasRight
  <1>2. ASSUME v.op = "remove" PROVE HasRight(v, role) /\ v.by # v.on
    <2>1. "remove" \in DOMAIN Needs /\ Needs["remove"] = <<"users", "delete">>
      BY DEF Needs
    <2>2. Can(cache, role, "users", "delete")
      BY <1>2, <2>1 DEF Admitted, Permitted
    <2> QED
      BY <1>2, <2>2 DEF Admitted, HasRight
  <1> QED
    BY <1>1, <1>2

LEMMA StepRights ==
  ASSUME Sound, RightsOk, [Next]_vars
  PROVE  RightsOk'
  <1> SUFFICES ASSUME NEW d \in Calls PROVE RightOk(d)'
    BY DEF RightsOk
  <1>1. Turn(d) /\ RightOk(d) /\ Ok(call[d])
    BY StepSound, CallFacts DEF Turns, RightsOk
  <1>2. CASE Kin(call[d], call'[d])
    BY <1>1, <1>2 DEF Kin, SameJob, SameRight, RightOk
  <1>3. CASE call'[d] = Resting
    BY <1>3, RestingType DEF RightOk
  <1>4. CASE Came(d) \/ Read(d)
    BY <1>4 DEF Came, Read, RightOk
  <1>5. CASE Entered(d)
    <2>1. call[d].op \in UserOps \cup GroupOps \cup {"reload"}
      BY <1>1, <1>5, CallFacts DEF Entered, Ok
    <2>2. /\ call'[d].pc \in {"found", "write"} => call[d].op \notin UserOps
          /\ SameJob(call[d], call'[d])
      BY <1>5, <2>1, FirstQueryFacts DEF Entered, UserOps
    <2>3. /\ Admitted(call[d], call'[d].role)
          /\ call'[d].right = HasRight(call[d], call'[d].role)
      BY <1>5 DEF Entered
    <2>4. /\ call[d].op = "update" /\ (call[d].by # call[d].on \/ RoleGiven(call[d].dto)) =>
               call'[d].right
          /\ call[d].op = "remove" => call'[d].right /\ call[d].by # call[d].on
      BY <2>3, AdmittedRight
    <2> QED
      BY <2>2, <2>4 DEF RightOk, SameJob
  <1>6. CASE Aimed(d)
    BY <1>1, <1>6 DEF Aimed, Advanced, SameJob, SameRight, RightOk
  <1>7. CASE Cleared(d)
    <2>1. call[d].pc = "found" \/ call[d].op = "create"
      BY <1>1, <1>7 DEF Cleared, Ok
    <2> QED
      BY <1>1, <1>7, <2>1 DEF Cleared, Advanced, SameJob, SameRight, RightOk, UserOps
  <1> QED
    BY <1>1, <1>2, <1>3, <1>4, <1>5, <1>6, <1>7 DEF Turn

LEMMA InitRights ==
  ASSUME Init
  PROVE  RightsOk
  <1>1. \A d \in Calls : call[d].pc = "rest"
    BY RestingType DEF Init
  <1> QED
    BY <1>1 DEF RightsOk, RightOk

Guarded(u) ==
  LET gone == u \notin DOMAIN users'
  IN gone \/ users'[u] # users[u] =>
       \E c \in Calls :
         LET v == call[c] IN
         /\ Writes(c, IF gone THEN "remove" ELSE "update") /\ v.on = u /\ call'[c].pc = "rest"
         /\ v.by # u => v.right
         /\ v.by = u => ~gone
         /\ ~gone /\ users'[u].role \notin {users[u].role, ""} => v.right
         /\ v.was = "superadmin" => v.role = "superadmin"

LEMMA StepGuarded ==
  ASSUME Sound, RightsOk, [Next]_vars, NEW u \in DOMAIN users
  PROVE  Guarded(u)
  <1>1. CASE users' = users
    BY <1>1 DEF Guarded
  <1>2. ASSUME NEW c \in Calls, Updated(c)
        PROVE  Guarded(u)
    <2> DEFINE v == call[c]
    <2>1. /\ v.pc = "write" /\ v.op = "update" /\ v.on \in DOMAIN users
          /\ users' = [users EXCEPT ![v.on] = Merged(users[v.on], v.dto)]
          /\ call'[c].pc = "rest" /\ RightOk(c)
      BY <1>2, RestingType DEF Updated, RightsOk
    <2>2. CASE u # v.on
      BY <2>1, <2>2 DEF Guarded
    <2>3. CASE u = v.on
      <3>1. DOMAIN users' = DOMAIN users /\ users'[u] = Merged(users[u], v.dto)
        BY <2>1, <2>3
      <3>2. users'[u].role = IF "role" \in DOMAIN v.dto THEN v.dto["role"] ELSE users[u].role
        BY <3>1, RowFacts, MergedField DEF Sound
      <3>3. /\ users'[u].role \notin {users[u].role, ""} => v.right
            /\ v.by # u => v.right
        BY <2>1, <2>3, <3>2 DEF RightOk, RoleGiven
      <3>4. v.was = "superadmin" => v.role = "superadmin"
        BY <2>1 DEF RightOk, UserOps
      <3> QED
        BY <2>1, <2>3, <3>1, <3>3, <3>4 DEF Guarded, Writes
    <2> QED
      BY <2>2, <2>3
  <1>3. ASSUME NEW c \in Calls, RemoveUser(c)
        PROVE  Guarded(u)
    <2>1. /\ call[c].pc = "write" /\ call[c].op = "remove" /\ RightOk(c)
          /\ call'[c].pc = "rest"
      BY <1>3, RemoveUserFacts, RestingType DEF Rested, RightsOk
    <2>2. CASE users' = users
      BY <2>2 DEF Guarded
    <2>3. CASE /\ DOMAIN users' = DOMAIN users \ {call[c].on}
               /\ \A w \in DOMAIN users' : users'[w] = users[w]
      <3>1. /\ call[c].was = "superadmin" => call[c].role = "superadmin"
            /\ call[c].right /\ call[c].by # call[c].on
        BY <2>1 DEF RightOk, UserOps
      <3>2. CASE u = call[c].on
        BY <2>1, <2>3, <3>1, <3>2 DEF Guarded, Writes
      <3>3. CASE u # call[c].on
        BY <2>3, <3>3 DEF Guarded
      <3> QED
        BY <3>2, <3>3
    <2> QED
      BY <1>3, <2>2, <2>3, RemoveUserFacts
  <1> QED
    BY <1>1, <1>2, <1>3, UsersMove

\* Rows of users change and go only by right, but for one's own columns and the
\* empty role.
THEOREM AuthorizedCorrect == Spec => Authorized
  <1>1. Init => Sound /\ RightsOk
    BY InitSound, InitRights
  <1>2. Sound /\ RightsOk /\ [Next]_vars => (Sound /\ RightsOk)'
    BY StepSound, StepRights
  <1> DEFINE Step == \A u \in DOMAIN users :
       LET gone == u \notin DOMAIN users'
       IN gone \/ users'[u] # users[u] =>
            \E c \in Calls :
              LET v == call[c] IN
              /\ Writes(c, IF gone THEN "remove" ELSE "update") /\ v.on = u /\ call'[c].pc = "rest"
              /\ v.by # u => v.right
              /\ v.by = u => ~gone
              /\ ~gone /\ users'[u].role \notin {users[u].role, ""} => v.right
              /\ v.was = "superadmin" => v.role = "superadmin"
  <1>3. Sound /\ RightsOk /\ [Next]_vars => Step
    BY StepGuarded DEF Guarded
  <1> QED
    BY <1>1, <1>2, <1>3, PTL DEF Spec, Authorized

-----------------------------------------------------------------------------
(* Columns, reloads and names.                                             *)

\* The rows of groups change through one request that writes them.
LEMMA GroupsMove ==
  ASSUME Sound, [Next]_vars
  PROVE  \/ groups' = groups
         \/ \E c \in Calls : \/ CreateGroup(c) \/ AmendGroup(c)
                             \/ DropGroup(c) \/ Join(c) \/ Leave(c)
  <1>1. CASE (\E u \in Users : Login(u)) \/ (\E m \in Matrices : Edit(m)) \/ UNCHANGED vars
    BY <1>1 DEF Login, Edit, vars, tables
  <1>2. CASE (\E c \in Calls : Fault(c)) \/ Restart
    BY <1>2, TurnFault
  <1>3. ASSUME NEW c \in Calls,
               \/ \E t \in tokens, j \in Jobs : Arrive(c, t, j)
               \/ Author(c) \/ Load(c) \/ Loaded(c) \/ Target(c) \/ Found(c) \/ NameFree(c)
               \/ UpdateUser(c) \/ RemoveUser(c)
        PROVE  groups' = groups
    BY <1>3 DEF Arrive, Author, Load, Loaded, Target, Found, NameFree, Reads, tables,
                UpdateUser, RemoveUser, UsersOnly
  <1> QED
    BY <1>1, <1>2, <1>3 DEF Next, Write

UserFieldsKept ==
  \A u \in DOMAIN users \cap DOMAIN users', f \in {"role", "active", "name"} :
    users'[u][f] # users[u][f] =>
      \E c \in Calls : Writes(c, "update") /\ call[c].on = u /\ f \in DOMAIN call[c].dto
GroupFieldsKept ==
  \A g \in DOMAIN groups \cap DOMAIN groups', f \in {"role", "name"} :
    groups'[g][f] # groups[g][f] =>
      \E c \in Calls : Writes(c, "amend") /\ call[c].on = g /\ f \in DOMAIN call[c].dto

LEMMA StepUserFields ==
  ASSUME Sound, [Next]_vars
  PROVE  UserFieldsKept
  <1> SUFFICES ASSUME NEW u \in DOMAIN users \cap DOMAIN users',
                      NEW f \in {"role", "active", "name"}, users'[u][f] # users[u][f]
               PROVE  \E c \in Calls : /\ Writes(c, "update") /\ call[c].on = u
                                       /\ f \in DOMAIN call[c].dto
    BY DEF UserFieldsKept
  <1>1. PICK c \in Calls : Updated(c) \/ RemoveUser(c)
    BY UsersMove
  <1>2. ~RemoveUser(c)
    BY RemoveUserFacts
  <1>3. /\ Writes(c, "update") /\ call[c].on \in DOMAIN users
        /\ users' = [users EXCEPT ![call[c].on] = Merged(users[call[c].on], call[c].dto)]
    BY <1>1, <1>2 DEF Updated, Writes
  <1>4. u = call[c].on
    BY <1>3
  <1>5. users'[u] = Merged(users[u], call[c].dto)
    BY <1>3, <1>4
  <1>6. users[u] \in UserRow
    BY RowFacts DEF Sound
  <1>7. users'[u][f] = IF f \in DOMAIN call[c].dto THEN call[c].dto[f] ELSE users[u][f]
    BY <1>5, <1>6, MergedField
  <1> QED
    BY <1>3, <1>4, <1>7

LEMMA StepGroupFields ==
  ASSUME Sound, [Next]_vars
  PROVE  GroupFieldsKept
  <1> SUFFICES ASSUME NEW g \in DOMAIN groups \cap DOMAIN groups',
                      NEW f \in {"role", "name"}, groups'[g][f] # groups[g][f]
               PROVE  \E c \in Calls : /\ Writes(c, "amend") /\ call[c].on = g
                                       /\ f \in DOMAIN call[c].dto
    BY DEF GroupFieldsKept
  <1>1. PICK c \in Calls : \/ CreateGroup(c) \/ AmendGroup(c)
                           \/ DropGroup(c) \/ Join(c) \/ Leave(c)
    BY GroupsMove
  <1>2. ~(DropGroup(c) \/ Join(c) \/ Leave(c))
    BY OtherGroupFacts
  <1>3. ~CreateGroup(c)
    BY CreateFacts
  <1>4. AmendGroup(c)
    BY <1>1, <1>2, <1>3
  <1>5. /\ Writes(c, "amend") /\ g = call[c].on
        /\ groups'[g][f] = IF f \in DOMAIN call[c].dto THEN call[c].dto[f] ELSE groups[g][f]
    BY <1>4, AmendFacts DEF Writes
  <1> QED
    BY <1>5

\* No column changes but through a request that gives it.
THEOREM FieldsCorrect == Spec => FieldsKept
  <1>1. Init => Sound
    BY InitSound
  <1>2. Sound /\ [Next]_vars => Sound'
    BY StepSound
  <1> DEFINE Step ==
    /\ \A u \in DOMAIN users \cap DOMAIN users', f \in {"role", "active", "name"} :
         users'[u][f] # users[u][f] =>
           \E c \in Calls : Writes(c, "update") /\ call[c].on = u /\ f \in DOMAIN call[c].dto
    /\ \A g \in DOMAIN groups \cap DOMAIN groups', f \in {"role", "name"} :
         groups'[g][f] # groups[g][f] =>
           \E c \in Calls : Writes(c, "amend") /\ call[c].on = g /\ f \in DOMAIN call[c].dto
  <1>3. Sound /\ [Next]_vars => Step
    BY StepUserFields, StepGroupFields DEF UserFieldsKept, GroupFieldsKept
  <1> QED
    BY <1>1, <1>2, <1>3, PTL DEF Spec, FieldsKept

\* A reload that is under way is answered by its own step, or fails.
LEMMA Answered ==
  ASSUME Sound, [Next]_vars, NEW c \in Calls, call[c].pc = "loaded",
         call'[c].pc = "rest", faults' = faults
  PROVE  Loaded(c)
  <1>1. CASE (\E u \in Users : Login(u)) \/ (\E m \in Matrices : Edit(m)) \/ UNCHANGED vars
    BY <1>1, TurnQuiet
  <1>2. CASE (\E d \in Calls : Fault(d)) \/ Restart
    <2>1. faults \in Nat
      BY AccessAssumption DEF Sound, TypeOK
    <2> QED
      BY <1>2, <2>1 DEF Fault, Restart
  <1>3. ASSUME NEW d \in Calls, Loaded(d)
        PROVE  Loaded(c)
    BY <1>3, LoadedFacts DEF Kin
  <1>4. ASSUME NEW d \in Calls,
               \/ \E t \in tokens, j \in Jobs : Arrive(d, t, j)
               \/ Author(d) \/ Load(d) \/ Target(d) \/ Found(d) \/ NameFree(d)
               \/ CreateGroup(d) \/ AmendGroup(d) \/ DropGroup(d) \/ Join(d) \/ Leave(d)
               \/ RemoveUser(d)
        PROVE  FALSE
    <2>1. call[d].pc # "loaded"
      BY <1>4 DEF Arrive, Author, Load, Target, Found, NameFree, CreateGroup, AmendGroup,
                  DropGroup, Join, Leave, RemoveUser, Writes
    <2>2. Others(d)
      BY <1>4, ArriveFacts, AuthorFacts, LoadFacts, TargetFacts, FoundFacts, NameFacts,
         CreateFacts, AmendFacts, OtherGroupFacts, RemoveUserFacts
         DEF Came, Rested, Entered, Read, Aimed, Cleared, Advanced
    <2> QED
      BY <2>1, <2>2 DEF Others
  <1>5. ASSUME NEW d \in Calls, UpdateUser(d)
        PROVE  FALSE
    <2>1. call[d].pc # "loaded"
      BY <1>5 DEF UpdateUser, Writes
    <2>2. call'[c].pc = call[c].pc
      BY <1>5, <2>1, UpdateUserFacts DEF Updated, Kin, Rested, Others
    <2> QED
      BY <2>2
  <1> QED
    BY <1>1, <1>2, <1>3, <1>4, <1>5 DEF Next, Write

\* A reload that is answered has made the cache as new as the request.
THEOREM ReloadCorrect == Spec => Reloaded
  <1>1. Init => Sound
    BY InitSound
  <1>2. Sound /\ [Next]_vars => Sound'
    BY StepSound
  <1> DEFINE Step ==
    \A c \in Calls :
       call[c].pc = "loaded" /\ cache' = call[c].seen /\ call'[c].pc = "rest" /\ faults' = faults =>
         held' >= call[c].began /\ (held' >= held \/ call[c].over)
  <1>3. Sound /\ [Next]_vars => Step
    <2> SUFFICES ASSUME Sound, [Next]_vars, NEW c \in Calls, call[c].pc = "loaded",
                        call'[c].pc = "rest", faults' = faults
                 PROVE  held' >= call[c].began /\ (held' >= held \/ call[c].over)
      OBVIOUS
    <2>1. held' = call[c].read
      BY Answered DEF Loaded
    <2>2. Aged(c) /\ call[c].read \in Nat /\ call[c].began \in Nat /\ held \in Nat
      BY CallFacts, AccessAssumption DEF Sound, AllAged, TypeOK
    <2> QED
      BY <2>1, <2>2 DEF Aged
  <1> QED
    BY <1>1, <1>2, <1>3, PTL DEF Spec, Reloaded

\* Of the names that neither overlapped creations nor a rename were after: one
\* group has it, one request is to create it, and none that is about to insert
\* it while a group has it.
NameOk(n) ==
  /\ \A g, h \in Named(n) : g = h
  /\ \A c, d \in Calls : Creates(c, n) /\ Creates(d, n) => c = d
  /\ \A c \in Calls : call[c].pc = "write" /\ Creates(c, n) => Named(n) = {}
NamesOk == \A n \in Values \ mixed : NameOk(n)

\* A request that does not newly arrive creates what it was to create.
LEMMA StillCreates ==
  ASSUME Sound, [Next]_vars, NEW d \in Calls, NEW n, ~Came(d), Creates(d, n)'
  PROVE  /\ Creates(d, n)
         /\ call'[d].pc = "write" => call[d].pc = "write" \/ Cleared(d)
  <1>1. Turn(d) /\ Ok(call[d])
    BY StepSound, CallFacts DEF Turns
  <1>2. call'[d] # Resting
    BY RestingType DEF Creates
  <1>3. call'[d].op = call[d].op /\ call'[d].dto = call[d].dto
    BY <1>1, <1>2 DEF Turn, Kin, Entered, Read, Aimed, Cleared, Advanced, SameJob
  <1>4. call[d].op = "create" /\ Creates(d, n)
    BY <1>3 DEF Creates
  <1>5. CASE Entered(d)
    <2>1. FirstQuery[call[d].op] = "named"
      BY <1>4, FirstQueryFacts DEF GroupOps
    <2> QED
      BY <1>4, <1>5, <2>1 DEF Entered
  <1>6. CASE Aimed(d)
    BY <1>1, <1>4, <1>6 DEF Aimed, Ok, UserOps
  <1>7. CASE Kin(call[d], call'[d]) \/ Read(d) \/ Cleared(d)
    BY <1>4, <1>7 DEF Kin, Read
  <1> QED
    BY <1>1, <1>2, <1>5, <1>6, <1>7 DEF Turn

\* A request that goes on to insert a name has found that no group has it.
LEMMA NameWasFree ==
  ASSUME Sound, [Next]_vars, NEW d \in Calls, NEW n, Cleared(d), Creates(d, n)
  PROVE  Named(n) = {} /\ groups' = groups
  <1>1. call[d].pc = "named" /\ call'[d].pc = "write" /\ call[d].op = "create"
    <2>1. Ok(call[d])
      BY CallFacts
    <2> QED
      BY <2>1 DEF Cleared, Advanced, Creates, Ok
  <1>2. CASE (\E u \in Users : Login(u)) \/ (\E m \in Matrices : Edit(m)) \/ UNCHANGED vars
    BY <1>1, <1>2, TurnQuiet
  <1>3. ASSUME NEW c \in Calls, Fault(c)
        PROVE  FALSE
    <2>1. Rested(c)
      BY <1>3, CallFacts, EndsFacts DEF Fault
    <2> QED
      BY <1>1, <2>1, RestingType DEF Rested, Others
  <1>4. CASE Restart
    <2>1. call'[d] = Resting
      BY <1>4 DEF Restart
    <2> QED
      BY <1>1, <2>1, RestingType
  <1>5. ASSUME NEW c \in Calls, Loaded(c)
        PROVE  FALSE
    BY <1>1, <1>5, LoadedFacts, RestingType DEF Kin
  <1>6. ASSUME NEW c \in Calls,
               \/ \E t \in tokens, j \in Jobs : Arrive(c, t, j)
               \/ Author(c) \/ Load(c) \/ Target(c) \/ Found(c)
               \/ CreateGroup(c) \/ AmendGroup(c) \/ DropGroup(c) \/ Join(c) \/ Leave(c)
               \/ RemoveUser(c)
        PROVE  FALSE
    <2>1. call[c].pc # "named"
      BY <1>6 DEF Arrive, Author, Load, Target, Found, CreateGroup, AmendGroup,
                  DropGroup, Join, Leave, RemoveUser, Writes
    <2>2. Others(c)
      BY <1>6, ArriveFacts, AuthorFacts, LoadFacts, TargetFacts, FoundFacts,
         CreateFacts, AmendFacts, OtherGroupFacts, RemoveUserFacts
         DEF Came, Rested, Entered, Read, Aimed, Cleared, Advanced
    <2> QED
      BY <1>1, <2>1, <2>2 DEF Others
  <1>7. ASSUME NEW c \in Calls, UpdateUser(c)
        PROVE  FALSE
    <2>1. call[c].pc # "named"
      BY <1>7 DEF UpdateUser, Writes
    <2>2. call'[d].pc = call[d].pc
      BY <1>1, <1>7, <2>1, UpdateUserFacts DEF Updated, Kin, Rested, Others
    <2> QED
      BY <1>1, <2>2
  <1>8. ASSUME NEW c \in Calls, NameFree(c)
        PROVE  Named(n) = {} /\ groups' = groups
    <2>1. groups' = groups
      BY <1>8 DEF NameFree, Reads, tables
    <2>2. c = d
      <3>1. Others(c)
        BY <1>8, NameFacts DEF Rested, Cleared, Advanced
      <3> QED
        BY <1>1, <3>1 DEF Others
    <2>3. Named(call[c].dto["name"]) = {}
      BY <1>1, <1>8, <2>2, NameFacts, RestingType DEF Rested
    <2> QED
      BY <2>1, <2>2, <2>3 DEF Creates
  <1> QED
    BY <1>2, <1>3, <1>4, <1>5, <1>6, <1>7, <1>8 DEF Next, Write

LEMMA NamedFacts ==
  ASSUME NEW n, NEW g
  PROVE  /\ g \in Named(n) <=> g \in DOMAIN groups /\ groups[g].name = n
         /\ g \in Named(n)' <=> g \in DOMAIN groups' /\ groups'[g].name = n
  BY DEF Named

\* mixed only grows, and takes in the name of a creation that overlaps another.
LEMMA MixedGrows ==
  ASSUME Sound, [Next]_vars
  PROVE  /\ mixed \subseteq mixed'
         /\ \A d \in Calls, n \in Values :
              Came(d) /\ Creates(d, n)' /\ n \notin mixed' => \A c \in Calls : ~Creates(c, n)
  <1>1. CASE (\E u \in Users : Login(u)) \/ (\E m \in Matrices : Edit(m)) \/ UNCHANGED vars
    BY <1>1, TurnQuiet DEF Login, Edit, vars, Came
  <1>2. ASSUME NEW c \in Calls, NEW t \in tokens, NEW j \in Jobs, Arrive(c, t, j)
        PROVE  /\ mixed \subseteq mixed'
               /\ \A d \in Calls, n \in Values :
                    Came(d) /\ Creates(d, n)' /\ n \notin mixed' => \A e \in Calls : ~Creates(e, n)
    <2> DEFINE new == {n \in Values : /\ j.op = "create" /\ j.dto["name"] = n
                                      /\ \E d \in Calls : Creates(d, n)}
    <2>1. mixed' = mixed \cup new
      BY <1>2 DEF Arrive
    <2>2. Came(c) /\ call'[c].op = j.op /\ call'[c].dto = j.dto
      BY <1>2, ArriveFacts
    <2>3. \A d \in Calls : Came(d) => d = c
      BY <2>2 DEF Came, Others
    <2>4. \A n \in Values : Creates(c, n)' /\ n \notin new => \A e \in Calls : ~Creates(e, n)
      <3> SUFFICES ASSUME NEW n \in Values, Creates(c, n)', n \notin new, NEW e \in Calls,
                          Creates(e, n)
                   PROVE  FALSE
        OBVIOUS
      <3>1. j.op = "create" /\ j.dto["name"] = n
        BY <2>2 DEF Creates
      <3> QED
        BY <3>1
    <2> HIDE DEF new
    <2> QED
      BY <2>1, <2>3, <2>4
  <1>3. ASSUME NEW d \in Calls, Came(d),
               ~\E c \in Calls, t \in tokens, j \in Jobs : Arrive(c, t, j)
        PROVE  FALSE
    <2>1. call[d].pc = "rest" /\ call'[d].pc = "author"
      BY <1>3 DEF Came
    <2>2. ASSUME NEW c \in Calls,
                 \/ Author(c) \/ Load(c) \/ Target(c) \/ Found(c) \/ NameFree(c)
                 \/ CreateGroup(c) \/ AmendGroup(c) \/ DropGroup(c) \/ Join(c) \/ Leave(c)
                 \/ RemoveUser(c)
          PROVE  FALSE
      <3>1. call[c].pc # "rest"
        BY <2>2 DEF Author, Load, Target, Found, NameFree, CreateGroup, AmendGroup,
                    DropGroup, Join, Leave, RemoveUser, Writes
      <3>2. Others(c)
        BY <2>2, AuthorFacts, LoadFacts, TargetFacts, FoundFacts, NameFacts,
           CreateFacts, AmendFacts, OtherGroupFacts, RemoveUserFacts
           DEF Came, Rested, Entered, Read, Aimed, Cleared, Advanced
      <3> QED
        BY <2>1, <3>1, <3>2 DEF Others
    <2>3. ASSUME NEW c \in Calls, Fault(c)
          PROVE  FALSE
      <3>1. Rested(c)
        BY <2>3, CallFacts, EndsFacts DEF Fault
      <3> QED
        BY <2>1, <3>1, RestingType DEF Rested, Others
    <2>4. CASE Restart
      <3>1. call'[d] = Resting
        BY <2>4 DEF Restart
      <3> QED
        BY <2>1, <3>1, RestingType
    <2>5. ASSUME NEW c \in Calls, Loaded(c)
          PROVE  FALSE
      BY <2>1, <2>5, LoadedFacts, RestingType DEF Kin
    <2>6. ASSUME NEW c \in Calls, UpdateUser(c)
          PROVE  FALSE
      <3>1. call[c].pc # "rest"
        BY <2>6 DEF UpdateUser, Writes
      <3>2. call'[d].pc = call[d].pc
        BY <2>1, <2>6, <3>1, UpdateUserFacts DEF Updated, Kin, Rested, Others
      <3> QED
        BY <2>1, <3>2
    <2>7. CASE (\E u \in Users : Login(u)) \/ (\E m \in Matrices : Edit(m)) \/ UNCHANGED vars
      BY <2>1, <2>7, TurnQuiet
    <2> QED
      BY <1>3, <2>2, <2>3, <2>4, <2>5, <2>6, <2>7 DEF Next, Write
  <1>4. mixed \subseteq mixed'
    <2>1. ASSUME NEW c \in Calls,
                 \/ Author(c) \/ Load(c) \/ Loaded(c) \/ Target(c) \/ Found(c) \/ NameFree(c)
                 \/ UpdateUser(c) \/ RemoveUser(c) \/ CreateGroup(c) \/ AmendGroup(c)
                 \/ DropGroup(c) \/ Join(c) \/ Leave(c)
          PROVE  mixed \subseteq mixed'
      BY <2>1, AmendFacts, CreateFacts DEF Author, Load, Loaded, Target, Found, NameFree, Reads,
         UpdateUser, RemoveUser, UsersOnly, DropGroup, Join, Leave
    <2>2. CASE (\E c \in Calls : Fault(c)) \/ Restart
      BY <2>2, TurnFault
    <2> QED
      BY <1>1, <1>2, <2>1, <2>2 DEF Next, Write
  <1>5. CASE \E c \in Calls, t \in tokens, j \in Jobs : Arrive(c, t, j)
    BY <1>2, <1>5
  <1>6. CASE ~\E c \in Calls, t \in tokens, j \in Jobs : Arrive(c, t, j)
    BY <1>3, <1>4, <1>6
  <1> QED
    BY <1>5, <1>6

\* A group gets a name by its creation, or by a rename, which mixed notes.
LEMMA NamedStep ==
  ASSUME Sound, [Next]_vars, NEW n \in Values, n \notin mixed'
  PROVE  \/ Named(n)' \subseteq Named(n)
         \/ \E k \in Calls : /\ call[k].pc = "write" /\ Creates(k, n) /\ call'[k] = Resting
                             /\ Named(n)' \subseteq Named(n) \cup {made'}
  <1>1. CASE groups' = groups
    BY <1>1, NamedFacts
  <1>2. ASSUME NEW k \in Calls, CreateGroup(k)
        PROVE  \/ Named(n)' \subseteq Named(n)
               \/ /\ call[k].pc = "write" /\ Creates(k, n) /\ call'[k] = Resting
                  /\ Named(n)' \subseteq Named(n) \cup {made'}
    <2>1. /\ call[k].pc = "write" /\ call[k].op = "create" /\ call'[k] = Resting
      BY <1>2, CreateFacts DEF Rested
    <2>2. CASE groups' = groups
      BY <2>2, NamedFacts
    <2>3. CASE /\ DOMAIN groups' = DOMAIN groups \cup {made'}
               /\ \A g \in DOMAIN groups : groups'[g] = groups[g]
               /\ groups'[made'].name = call[k].dto["name"]
      <3>1. \A g : g \in Named(n)' => g \in Named(n) \/ g = made'
        BY <2>3, NamedFacts
      <3>2. CASE call[k].dto["name"] = n
        BY <2>1, <3>1, <3>2 DEF Creates
      <3>3. CASE call[k].dto["name"] # n
        <4>1. made' \notin Named(n)'
          BY <2>3, <3>3, NamedFacts
        <4> QED
          BY <3>1, <4>1
      <3> QED
        BY <3>2, <3>3
    <2> QED
      BY <1>2, <2>2, <2>3, CreateFacts
  <1>3. ASSUME NEW k \in Calls, AmendGroup(k)
        PROVE  Named(n)' \subseteq Named(n)
    <2> DEFINE g == call[k].on
    <2>1. CASE groups' = groups
      BY <2>1, NamedFacts
    <2>2. CASE /\ g \in DOMAIN groups /\ DOMAIN groups' = DOMAIN groups
               /\ \A h \in DOMAIN groups \ {g} : groups'[h] = groups[h]
               /\ groups'[g]["name"] = IF "name" \in DOMAIN call[k].dto THEN call[k].dto["name"]
                                                                       ELSE groups[g]["name"]
               /\ "name" \in DOMAIN call[k].dto => call[k].dto["name"] \in mixed'
      <3>1. ASSUME NEW h, h \in Named(n)'
            PROVE  h \in Named(n)
        <4>1. h \in DOMAIN groups /\ groups'[h].name = n
          BY <2>2, <3>1, NamedFacts
        <4>2. groups[h].name = n
          BY <2>2, <4>1
        <4> QED
          BY <4>1, <4>2, NamedFacts
      <3> QED
        BY <3>1
    <2> QED
      BY <1>3, <2>1, <2>2, AmendFacts
  <1>4. ASSUME NEW k \in Calls, DropGroup(k) \/ Join(k) \/ Leave(k)
        PROVE  Named(n)' \subseteq Named(n)
    <2>1. /\ DOMAIN groups' \subseteq DOMAIN groups
          /\ \A g \in DOMAIN groups' : groups'[g] = groups[g]
      BY <1>4, OtherGroupFacts
    <2> QED
      BY <2>1, NamedFacts
  <1> QED
    BY <1>1, <1>2, <1>3, <1>4, GroupsMove

LEMMA StepNames ==
  ASSUME Sound, NamesOk, [Next]_vars
  PROVE  NamesOk'
  <1> SUFFICES ASSUME NEW n \in Values, n \notin mixed' PROVE NameOk(n)'
    BY DEF NamesOk
  <1>1. NameOk(n)
    BY MixedGrows DEF NamesOk
  <1>2. \A c, d \in Calls : Creates(c, n)' /\ Creates(d, n)' => c = d
    <2> SUFFICES ASSUME NEW c \in Calls, NEW d \in Calls, Creates(c, n)', Creates(d, n)', c # d
                 PROVE  FALSE
      OBVIOUS
    <2>1. ~(Came(c) /\ Came(d))
      BY DEF Came, Others
    <2>2. CASE ~Came(c) /\ ~Came(d)
      BY <1>1, <2>2, StillCreates DEF NameOk
    <2>3. CASE Came(c) /\ ~Came(d)
      BY <2>3, MixedGrows, StillCreates
    <2>4. CASE Came(d) /\ ~Came(c)
      BY <2>4, MixedGrows, StillCreates
    <2> QED
      BY <2>1, <2>2, <2>3, <2>4
  <1>3. \A c \in Calls : call'[c].pc = "write" /\ Creates(c, n)' =>
          /\ Creates(c, n)
          /\ call[c].pc = "write" \/ (Named(n) = {} /\ groups' = groups)
    <2> SUFFICES ASSUME NEW c \in Calls, call'[c].pc = "write", Creates(c, n)'
                 PROVE  /\ Creates(c, n)
                        /\ call[c].pc = "write" \/ (Named(n) = {} /\ groups' = groups)
      OBVIOUS
    <2>1. ~Came(c)
      BY DEF Came
    <2> QED
      BY <2>1, StillCreates, NameWasFree
  <1>4. CASE Named(n)' \subseteq Named(n)
    <2>1. \A g, h \in Named(n)' : g = h
      BY <1>1, <1>4 DEF NameOk
    <2>2. \A c \in Calls : call'[c].pc = "write" /\ Creates(c, n)' => Named(n)' = {}
      BY <1>1, <1>3, <1>4 DEF NameOk
    <2> QED
      BY <1>2, <2>1, <2>2 DEF NameOk
  <1>5. ASSUME NEW k \in Calls, call[k].pc = "write", Creates(k, n), call'[k] = Resting,
               Named(n)' \subseteq Named(n) \cup {made'}
        PROVE  NameOk(n)'
    <2>1. Named(n) = {}
      BY <1>1, <1>5 DEF NameOk
    <2>2. \A g, h \in Named(n)' : g = h
      BY <1>5, <2>1
    <2>3. \A c \in Calls : ~(call'[c].pc = "write" /\ Creates(c, n)')
      <3> SUFFICES ASSUME NEW c \in Calls, call'[c].pc = "write", Creates(c, n)'
                   PROVE  FALSE
        OBVIOUS
      <3>1. c = k
        BY <1>1, <1>3, <1>5 DEF NameOk
      <3> QED
        BY <1>5, <3>1, RestingType
    <2> QED
      BY <1>2, <2>2, <2>3 DEF NameOk
  <1> QED
    BY <1>4, <1>5, NamedStep

LEMMA InitNames ==
  ASSUME Init
  PROVE  NamesOk
  <1>1. \A d \in Calls : call[d] = Resting
    BY DEF Init
  <1>2. \A d \in Calls, n \in Values : ~Creates(d, n)
    BY <1>1, RestingType DEF Creates
  <1>3. DOMAIN groups = {}
    BY DEF Init
  <1>4. \A n \in Values : Named(n) = {}
    BY <1>3, NamedFacts
  <1> QED
    BY <1>2, <1>4 DEF NamesOk, NameOk

\* Groups share a name only if their creations overlapped, or by a rename.
THEOREM NamesCorrect == Spec => []NamesApart
  <1>1. Init => Sound /\ NamesOk
    BY InitSound, InitNames
  <1>2. Sound /\ NamesOk /\ [Next]_vars => (Sound /\ NamesOk)'
    BY StepSound, StepNames
  <1>3. NamesOk => NamesApart
    BY DEF NamesOk, NameOk, NamesApart
  <1> QED
    BY <1>1, <1>2, <1>3, PTL DEF Spec

=============================================================================

------------------------ MODULE ReportSchedulerProofs ------------------------
(***************************************************************************)
(* Theorems about ReportScheduler, for any number of requests, contents    *)
(* and subscriptions and any bounds.                                       *)
(***************************************************************************)
EXTENDS ReportScheduler, TLAPS

\* The assumption of SchedulerCorrect: requests on one subscription take turns.
Turns == ~SameIdOverlap

\* No subscription has two requests under way.
Distinct ==
  \A a, b \in Requests :
    a # b /\ req[a].op # "none" /\ req[b].op # "none" /\ req[a].id = req[b].id
      => req[a].id = 0

\* What a request in each of its stages knows of the table and the registry.
InsertOK(q) ==
  q.op = "create" =>
    /\ q.cfg \in Configs /\ q.reply # "empty"
    /\ q.reply = "none" => q.id = 0
    /\ q.reply = "ok" => q.id \notin DOMAIN jobs
UpdateOK(q) ==
  q.op = "update" =>
    /\ q.cfg \in Configs /\ q.id # 0
    /\ q.reply = "empty" => q.id \notin DOMAIN rows
DeleteOK(q) ==
  q.op = "delete" =>
    /\ q.id # 0 /\ q.id \notin DOMAIN jobs /\ q.reply # "empty"
    /\ q.reply = "ok" => q.id \notin DOMAIN rows
StoredOK(q) ==
  q.op \in {"create", "update"} /\ q.reply = "ok" =>
    q.id \in DOMAIN rows /\ rows[q.id].cfg = q.cfg /\ rows[q.id].on = q.on

RequestOK(q) == InsertOK(q) /\ UpdateOK(q) /\ DeleteOK(q) /\ StoredOK(q)

SchedInv ==
  /\ TypeOK /\ NoZombie /\ JobsInForce /\ Distinct
  /\ \A r \in Requests : RequestOK(req[r])

-----------------------------------------------------------------------------
(* The first part of each handler. *)

LEMMA CreateStep ==
  ASSUME Turns, SchedInv, NEW r \in Requests, Create(r)
  PROVE  SchedInv'
  <1> USE SchedulerAssumption DEF SchedInv, Turns
  <1>1. PICK c \in Configs, b \in BOOLEAN :
          req' = [req EXCEPT ![r] = Request("create", 0, c, b)]
    BY DEF Create
  <1>2. UNCHANGED <<rows, serial, jobs, failed, sending, faults, restarts>>
    BY DEF Create
  <1>3. req[r].op = "none"
    BY DEF Create
  <1>4. /\ req' \in [Requests -> [op : Ops \cup {"none"}, id : 0..serial, cfg : Contents,
                                  on : BOOLEAN, reply : {"none", "ok", "empty"}]]
        /\ \A a \in Requests : a # r => req'[a] = req[a]
        /\ req'[r].op = "create" /\ req'[r].id = 0 /\ req'[r].cfg = c
        /\ req'[r].reply = "none"
    BY <1>1 DEF TypeOK, Request, Ops, Contents
  <1>5. TypeOK'
    BY <1>2, <1>4 DEF TypeOK
  <1>6. NoZombie' /\ Distinct'
    BY <1>2, <1>4 DEF NoZombie, Distinct
  <1>7. JobsInForce'
    <2>1. \A i \in DOMAIN rows : Busy(i) => Busy(i)'
      BY <1>3, <1>4 DEF Busy
    <2> QED
      BY <2>1, <1>2 DEF JobsInForce
  <1>8. \A a \in Requests : RequestOK(req[a])'
    BY <1>2, <1>4 DEF RequestOK, InsertOK, UpdateOK, DeleteOK, StoredOK
  <1> QED
    BY <1>5, <1>6, <1>7, <1>8

LEMMA UpdateStep ==
  ASSUME Turns, SchedInv, NEW r \in Requests, Update(r)
  PROVE  SchedInv'
  <1> USE SchedulerAssumption DEF SchedInv, Turns
  <1>1. PICK i \in 1..serial, c \in Configs, b \in BOOLEAN :
          MayTouch(i) /\ req' = [req EXCEPT ![r] = Request("update", i, c, b)]
    BY DEF Update
  <1>2. UNCHANGED <<rows, serial, jobs, failed, sending, faults, restarts>>
    BY DEF Update
  <1>3. req[r].op = "none"
    BY DEF Update
  <1>4. /\ req' \in [Requests -> [op : Ops \cup {"none"}, id : 0..serial, cfg : Contents,
                                  on : BOOLEAN, reply : {"none", "ok", "empty"}]]
        /\ \A a \in Requests : a # r => req'[a] = req[a]
        /\ req'[r].op = "update" /\ req'[r].id = i /\ req'[r].cfg = c
        /\ req'[r].reply = "none"
    BY <1>1 DEF TypeOK, Request, Ops, Contents
  <1>5. TypeOK'
    BY <1>2, <1>4 DEF TypeOK
  <1>6. NoZombie'
    BY <1>2 DEF NoZombie
  <1>7. Distinct'
    BY <1>1, <1>4 DEF MayTouch, Busy, Distinct
  <1>8. JobsInForce'
    <2>1. \A j \in DOMAIN rows : Busy(j) => Busy(j)'
      BY <1>3, <1>4 DEF Busy
    <2> QED
      BY <2>1, <1>2 DEF JobsInForce
  <1>9. \A a \in Requests : RequestOK(req[a])'
    BY <1>2, <1>4 DEF RequestOK, InsertOK, UpdateOK, DeleteOK, StoredOK, TypeOK
  <1> QED
    BY <1>5, <1>6, <1>7, <1>8, <1>9

LEMMA DeleteStep ==
  ASSUME Turns, SchedInv, NEW r \in Requests, Delete(r)
  PROVE  SchedInv'
  <1> USE SchedulerAssumption DEF SchedInv, Turns
  <1>1. PICK i \in 1..serial :
          /\ MayTouch(i)
          /\ req' = [req EXCEPT ![r] = Request("delete", i, "none", FALSE)]
          /\ jobs' = Drop(jobs, i)
    BY DEF Delete
  <1>2. UNCHANGED <<rows, serial, failed, sending, faults, restarts>>
    BY DEF Delete
  <1>3. req[r].op = "none"
    BY DEF Delete
  <1>4. /\ req' \in [Requests -> [op : Ops \cup {"none"}, id : 0..serial, cfg : Contents,
                                  on : BOOLEAN, reply : {"none", "ok", "empty"}]]
        /\ \A a \in Requests : a # r => req'[a] = req[a]
        /\ req'[r].op = "delete" /\ req'[r].id = i /\ req'[r].reply = "none"
    BY <1>1 DEF TypeOK, Request, Ops, Contents
  <1>5. /\ DOMAIN jobs' = DOMAIN jobs \ {i}
        /\ jobs' \in [DOMAIN jobs' -> Configs]
        /\ \A j \in DOMAIN jobs' : jobs'[j] = jobs[j]
    BY <1>1 DEF TypeOK, Drop
  <1>6. TypeOK'
    BY <1>2, <1>4, <1>5 DEF TypeOK
  <1>7. NoZombie'
    BY <1>2, <1>5 DEF NoZombie
  <1>8. Distinct'
    <2>1. \A a \in Requests : req[a].op # "none" => req[a].id # i
      BY <1>1 DEF MayTouch, Busy
    <2>2. Distinct
      OBVIOUS
    <2> QED
      BY ONLY <2>1, <2>2, <1>4 DEF Distinct
  <1>9. JobsInForce'
    <2>1. \A j \in DOMAIN rows : Busy(j) => Busy(j)'
      BY <1>3, <1>4 DEF Busy
    <2>2. Busy(i)'
      BY <1>4 DEF Busy
    <2> QED
      BY <2>1, <2>2, <1>2, <1>5 DEF JobsInForce
  <1>10. \A a \in Requests : RequestOK(req[a])'
    BY <1>2, <1>4, <1>5 DEF RequestOK, InsertOK, UpdateOK, DeleteOK, StoredOK, TypeOK
  <1> QED
    BY <1>6, <1>7, <1>8, <1>9, <1>10

-----------------------------------------------------------------------------
(* The database. *)

\* A query that cannot be run ends its request; the table stays as it is.
LEMMA RefuseStep ==
  ASSUME Turns, SchedInv, NEW r \in Requests, Refuse(r)
  PROVE  SchedInv'
  <1> USE SchedulerAssumption DEF SchedInv
  <1>1. UNCHANGED <<rows, serial, jobs, failed, sending, faults, restarts>>
    BY DEF Refuse
  <1>2. req[r].op = "create" /\ req[r].reply = "none" /\ req' = [req EXCEPT ![r] = NoRequest]
    BY DEF Refuse, Finish
  <1>3. /\ req' \in [Requests -> [op : Ops \cup {"none"}, id : 0..serial, cfg : Contents,
                                  on : BOOLEAN, reply : {"none", "ok", "empty"}]]
        /\ \A a \in Requests : a # r => req'[a] = req[a]
        /\ req'[r].op = "none"
    BY <1>2 DEF TypeOK, NoRequest, Contents
  <1>4. req[r].id = 0
    BY <1>2 DEF RequestOK, InsertOK
  <1>5. TypeOK'
    BY <1>1, <1>3 DEF TypeOK
  <1>6. NoZombie' /\ Distinct'
    BY <1>1, <1>3 DEF NoZombie, Distinct
  <1>7. JobsInForce'
    <2>1. \A j \in DOMAIN rows : j # 0
      BY DEF TypeOK
    <2>2. \A j \in DOMAIN rows : Busy(j) => Busy(j)'
      BY <2>1, <1>3, <1>4 DEF Busy
    <2> QED
      BY <2>2, <1>1 DEF JobsInForce
  <1>8. \A a \in Requests : RequestOK(req[a])'
    BY <1>1, <1>3 DEF RequestOK, InsertOK, UpdateOK, DeleteOK, StoredOK
  <1> QED
    BY <1>5, <1>6, <1>7, <1>8

\* What a query does to the table: the entry of its id, and nothing else.
After(q, new) ==
  /\ new \in [DOMAIN new -> [cfg : Configs, on : BOOLEAN, sent : BOOLEAN]]
  /\ \A i \in DOMAIN rows : i # TargetId(q) => i \in DOMAIN new /\ new[i] = rows[i]
  /\ q.op = "create" =>
       /\ TargetId(q) = serial + 1 /\ serial + 1 \in Ids
       /\ serial + 1 \notin DOMAIN rows \cup DOMAIN jobs
       /\ DOMAIN new = DOMAIN rows \cup {serial + 1}
  /\ q.op # "create" => TargetId(q) = q.id /\ q.id \in 1..serial
  /\ q.op = "update" => DOMAIN new = DOMAIN rows
  /\ q.op = "delete" => DOMAIN new = DOMAIN rows \ {q.id}
  /\ q.op \in {"create", "update"} /\ TargetId(q) \in DOMAIN new =>
       new[TargetId(q)].cfg = q.cfg /\ new[TargetId(q)].on = q.on

LEMMA ExecutedFacts ==
  ASSUME SchedInv, NEW r \in Requests, CanRun(r)
  PROVE  After(req[r], Executed(req[r]))
  <1> USE SchedulerAssumption DEF SchedInv, TargetId
  <1>1. /\ req[r].op \in Ops /\ req[r].cfg \in Contents /\ req[r].on \in BOOLEAN
        /\ req[r].id \in 0..serial
    BY DEF TypeOK, CanRun
  <1>2. rows \in [DOMAIN rows -> [cfg : Configs, on : BOOLEAN, sent : BOOLEAN]]
    BY DEF TypeOK
  <1>3. CASE req[r].op = "create"
    <2>1. serial + 1 \in Ids /\ serial + 1 \notin DOMAIN rows \cup DOMAIN jobs
      BY <1>3 DEF CanRun, TypeOK, NoZombie, Ids
    <2>2. req[r].cfg \in Configs
      BY <1>3 DEF RequestOK, InsertOK
    <2>3. Executed(req[r]) =
            Put(rows, serial + 1, [cfg |-> req[r].cfg, on |-> req[r].on, sent |-> FALSE])
      BY <1>3 DEF Executed
    <2> QED
      BY ONLY <2>1, <2>2, <2>3, <1>1, <1>2, <1>3 DEF Put, TargetId, After
  <1>4. CASE req[r].op = "update"
    <2>1. req[r].cfg \in Configs /\ req[r].id # 0
      BY <1>4 DEF RequestOK, UpdateOK
    <2>2. CASE req[r].id \in DOMAIN rows
      <3> DEFINE v == [cfg |-> req[r].cfg, on |-> req[r].on, sent |-> rows[req[r].id].sent]
      <3>1. Executed(req[r]) = Put(rows, req[r].id, v)
        BY <1>4, <2>2 DEF Executed
      <3>2. serial \in Nat
        BY DEF TypeOK
      <3>3. /\ v \in [cfg : Configs, on : BOOLEAN, sent : BOOLEAN]
            /\ v.cfg = req[r].cfg /\ v.on = req[r].on
        BY <1>1, <1>2, <2>1, <2>2
      <3> HIDE DEF v
      <3>4. /\ DOMAIN Executed(req[r]) = DOMAIN rows
            /\ Executed(req[r])[req[r].id] = v
            /\ \A i \in DOMAIN rows : i # req[r].id => Executed(req[r])[i] = rows[i]
        BY ONLY <2>2, <3>1 DEF Put
      <3>5. Executed(req[r]) \in
              [DOMAIN rows -> [cfg : Configs, on : BOOLEAN, sent : BOOLEAN]]
        BY ONLY <2>2, <3>1, <3>3, <1>2 DEF Put
      <3>6. TargetId(req[r]) = req[r].id /\ req[r].id \in 1..serial
        BY ONLY <2>1, <3>2, <1>1, <1>4 DEF TargetId
      <3> QED
        BY ONLY <2>2, <3>3, <3>4, <3>5, <3>6, <1>4 DEF After
    <2>3. CASE req[r].id \notin DOMAIN rows
      <3>1. Executed(req[r]) = rows
        BY <1>4, <2>3 DEF Executed
      <3>2. serial \in Nat
        BY DEF TypeOK
      <3> QED
        BY ONLY <2>1, <2>3, <3>1, <3>2, <1>1, <1>2, <1>4 DEF TargetId, After
    <2> QED
      BY <2>2, <2>3
  <1>5. CASE req[r].op = "delete"
    <2>1. req[r].id # 0
      BY <1>5 DEF RequestOK, DeleteOK
    <2>2. Executed(req[r]) = Drop(rows, req[r].id)
      BY <1>5 DEF Executed
    <2>3. serial \in Nat
      BY DEF TypeOK
    <2> QED
      BY ONLY <2>1, <2>2, <2>3, <1>1, <1>2, <1>5 DEF Drop, TargetId, After
  <1> QED
    BY <1>1, <1>3, <1>4, <1>5 DEF Ops

\* While the owner of subscription k is at its query, no other request is on k,
\* so what the query does to row k changes what no other request knows.
LEMMA OthersUntouched ==
  ASSUME SchedInv, NEW r \in Requests, CanRun(r), rows' = Executed(req[r]),
         UNCHANGED jobs, NEW a \in Requests, a # r
  PROVE  /\ req[a].op # "none" => req[a].id # TargetId(req[r])
         /\ req'[a] = req[a] => RequestOK(req[a])'
  <1> USE SchedulerAssumption
  <1>1. RequestOK(req[a]) /\ RequestOK(req[r])
    BY DEF SchedInv
  <1>2. /\ serial \in Nat /\ req[a].id \in 0..serial /\ req[a].op \in Ops \cup {"none"}
        /\ req[r].op \in Ops
    BY DEF SchedInv, TypeOK, CanRun
  <1>3. req[a].op # "none" => req[a].id # TargetId(req[r])
    <2>1. CASE req[r].op = "create"
      BY <2>1, <1>2 DEF TargetId
    <2>2. CASE req[r].op # "create"
      <3>1. req[r].id # 0 /\ TargetId(req[r]) = req[r].id
        BY <2>2, <1>1, <1>2 DEF TargetId, RequestOK, UpdateOK, DeleteOK, Ops
      <3> QED
        BY <3>1, <1>2 DEF SchedInv, Distinct, Ops
    <2> QED
      BY <2>1, <2>2
  <1>4. \A i : i # TargetId(req[r]) =>
          /\ i \in DOMAIN rows' <=> i \in DOMAIN rows
          /\ i \in DOMAIN rows => rows'[i] = rows[i]
    <2>1. After(req[r], rows')
      BY ExecutedFacts
    <2> QED
      BY ONLY <2>1, <1>2 DEF After, Ops
  <1>5. ASSUME req'[a] = req[a]
        PROVE  RequestOK(req[a])'
    <2>1. CASE req[a].op = "none"
      BY <2>1, <1>5 DEF RequestOK, InsertOK, UpdateOK, DeleteOK, StoredOK
    <2>2. CASE req[a].op # "none"
      BY <2>2, <1>1, <1>3, <1>4, <1>5 DEF RequestOK, InsertOK, UpdateOK, DeleteOK, StoredOK
    <2> QED
      BY <2>1, <2>2
  <1> QED
    BY <1>3, <1>5

LEMMA AnswerStep ==
  ASSUME Turns, SchedInv, NEW r \in Requests, Answer(r)
  PROVE  SchedInv'
  <1> USE SchedulerAssumption
  <1> DEFINE i == TargetId(req[r])
             reply == IF req[r].op = "update" /\ req[r].id \notin DOMAIN rows
                      THEN "empty" ELSE "ok"
  <1>1. CanRun(r) /\ rows' = Executed(req[r])
    BY DEF Answer
  <1>a. After(req[r], rows')
    BY <1>1, ExecutedFacts
  <1>2. UNCHANGED <<jobs, failed, sending, faults, restarts>>
    BY DEF Answer
  <1>3. serial' = IF req[r].op = "create" THEN serial + 1 ELSE serial
    BY DEF Answer
  <1>4. req[r].op \in Ops /\ serial \in 0..MaxSubs /\ RequestOK(req[r])
    BY <1>1 DEF SchedInv, TypeOK, CanRun
  <1>5. serial' \in 0..MaxSubs /\ serial <= serial' /\ i \in 1..serial'
    <2>1. CASE req[r].op = "create"
      BY <2>1, <1>1, <1>3, <1>4 DEF CanRun, TargetId
    <2>2. CASE req[r].op # "create"
      BY <2>2, <1>3, <1>4, <1>a DEF After
    <2> QED
      BY <2>1, <2>2
  <1>6. /\ req' \in [Requests -> [op : Ops \cup {"none"}, id : 0..serial', cfg : Contents,
                                  on : BOOLEAN, reply : {"none", "ok", "empty"}]]
        /\ \A a \in Requests : a # r => req'[a] = req[a]
        /\ req'[r].op = req[r].op /\ req'[r].id = i /\ req'[r].cfg = req[r].cfg
        /\ req'[r].on = req[r].on /\ req'[r].reply = reply
    <2>1. req' = [req EXCEPT ![r] = [req[r] EXCEPT !.id = i, !.reply = reply]]
      BY DEF Answer
    <2>2. reply \in {"none", "ok", "empty"} /\ i \in 0..serial'
      BY <1>5, <1>4
    <2>3. req \in [Requests -> [op : Ops \cup {"none"}, id : 0..serial', cfg : Contents,
                                on : BOOLEAN, reply : {"none", "ok", "empty"}]]
      <3>1. 0..serial \subseteq 0..serial'
        BY <1>4, <1>5
      <3> QED
        BY <3>1 DEF SchedInv, TypeOK
    <2> HIDE DEF i, reply
    <2> QED
      BY <2>1, <2>2, <2>3
  <1>7. /\ DOMAIN rows' \subseteq DOMAIN rows \cup {i}
        /\ rows' \in [DOMAIN rows' -> [cfg : Configs, on : BOOLEAN, sent : BOOLEAN]]
        /\ \A j \in DOMAIN rows : j # i => j \in DOMAIN rows' /\ rows'[j] = rows[j]
    BY <1>4, <1>a DEF Ops, After
  <1>8. TypeOK'
    <2>1. DOMAIN rows' \subseteq 1..serial'
      BY <1>4, <1>5, <1>7 DEF SchedInv, TypeOK
    <2> QED
      BY <2>1, <1>2, <1>5, <1>6, <1>7 DEF SchedInv, TypeOK
  <1>9. NoZombie'
    <2>1. req[r].op = "delete" => req[r].id \notin DOMAIN jobs
      BY <1>4 DEF RequestOK, DeleteOK
    <2> QED
      BY <2>1, <1>2, <1>4, <1>a DEF NoZombie, SchedInv, Ops, After
  <1>10. \A a \in Requests : a # r /\ req[a].op # "none" => req[a].id # i
    BY <1>1, <1>2, OthersUntouched
  <1>11. Distinct'
    BY <1>6, <1>10 DEF SchedInv, Distinct
  <1>12. JobsInForce'
    <2>1. \A j : j = i => Busy(j)'
      BY <1>4, <1>6 DEF Busy, Ops
    <2>2. \A j \in DOMAIN rows : j # i /\ Busy(j) => Busy(j)'
      <3>1. req[r].op = "create" => req[r].id = 0
        BY <1>1, <1>4 DEF RequestOK, InsertOK, CanRun
      <3>2. req[r].op # "create" => req[r].id = i
        BY <1>a DEF After
      <3>3. \A j \in DOMAIN rows : j # 0
        BY DEF SchedInv, TypeOK
      <3> QED
        BY <3>1, <3>2, <3>3, <1>6 DEF Busy
    <2> QED
      BY <2>1, <2>2, <1>2, <1>7 DEF JobsInForce, SchedInv
  <1>13. RequestOK(req[r])'
    <2>1. CASE req[r].op = "create"
      <3>1. i \in DOMAIN rows' /\ i \notin DOMAIN jobs
            /\ rows'[i].cfg = req[r].cfg /\ rows'[i].on = req[r].on
        BY <2>1, <1>a DEF After
      <3> QED
        BY <3>1, <2>1, <1>2, <1>4, <1>6 DEF RequestOK, InsertOK, UpdateOK, DeleteOK, StoredOK
    <2>2. CASE req[r].op = "update"
      <3>1. /\ i = req[r].id /\ DOMAIN rows' = DOMAIN rows
            /\ i \in DOMAIN rows => rows'[i].cfg = req[r].cfg /\ rows'[i].on = req[r].on
        BY <2>2, <1>a DEF After
      <3> QED
        BY <3>1, <2>2, <1>2, <1>4, <1>6 DEF RequestOK, InsertOK, UpdateOK, DeleteOK, StoredOK
    <2>3. CASE req[r].op = "delete"
      <3>1. i = req[r].id /\ i \notin DOMAIN rows'
        BY <2>3, <1>a DEF After
      <3> QED
        BY <3>1, <2>3, <1>2, <1>4, <1>6 DEF RequestOK, InsertOK, UpdateOK, DeleteOK, StoredOK
    <2> QED
      BY <2>1, <2>2, <2>3, <1>4 DEF Ops
  <1>14. \A a \in Requests : RequestOK(req[a])'
    BY <1>1, <1>2, <1>6, <1>13, OthersUntouched
  <1> QED
    BY <1>8, <1>9, <1>11, <1>12, <1>14 DEF SchedInv

\* A request that ends leaves the others as they are.
LEMMA FinishFacts ==
  ASSUME SchedInv, NEW r \in Requests, Finish(r), serial' \in Nat, serial <= serial'
  PROVE  /\ req' \in [Requests -> [op : Ops \cup {"none"}, id : 0..serial', cfg : Contents,
                                   on : BOOLEAN, reply : {"none", "ok", "empty"}]]
         /\ \A a \in Requests : a # r => req'[a] = req[a]
         /\ req'[r].op = "none" /\ RequestOK(req[r])'
         /\ Distinct'
         /\ \A j : j # req[r].id /\ Busy(j) => Busy(j)'
  <1> USE SchedulerAssumption
  <1>1. 0..serial \subseteq 0..serial' /\ 0 \in 0..serial'
    BY DEF SchedInv, TypeOK
  <1>2. req \in [Requests -> [op : Ops \cup {"none"}, id : 0..serial', cfg : Contents,
                              on : BOOLEAN, reply : {"none", "ok", "empty"}]]
    BY <1>1 DEF SchedInv, TypeOK
  <1>3. /\ req' \in [Requests -> [op : Ops \cup {"none"}, id : 0..serial', cfg : Contents,
                                  on : BOOLEAN, reply : {"none", "ok", "empty"}]]
        /\ \A a \in Requests : a # r => req'[a] = req[a]
        /\ req'[r].op = "none"
    BY <1>1, <1>2 DEF Finish, NoRequest, Contents
  <1>4. RequestOK(req[r])'
    BY <1>3 DEF RequestOK, InsertOK, UpdateOK, DeleteOK, StoredOK
  <1>5. Distinct'
    BY <1>3 DEF SchedInv, Distinct
  <1>6. \A j : j # req[r].id /\ Busy(j) => Busy(j)'
    BY <1>3 DEF Busy
  <1> QED
    BY <1>3, <1>4, <1>5, <1>6

LEMMA FaultStep ==
  ASSUME Turns, SchedInv, NEW r \in Requests, Fault(r)
  PROVE  SchedInv'
  <1> USE SchedulerAssumption
  <1>1. /\ CanRun(r) /\ Finish(r) /\ UNCHANGED <<jobs, sending, restarts>>
        /\ faults' \in 0..MaxFaults
    BY DEF Fault, SchedInv, TypeOK
  <1>2. /\ serial \in 0..MaxSubs /\ serial \in Nat
        /\ req[r].op \in Ops /\ req[r].id \in 0..serial /\ RequestOK(req[r])
    BY <1>1 DEF SchedInv, TypeOK, CanRun
  <1>3. req[r].op = "create" => req[r].id = 0
    BY <1>1, <1>2 DEF RequestOK, InsertOK, CanRun
  <1>4. \A j \in DOMAIN rows : j # 0
    BY DEF SchedInv, TypeOK
  <1>5. CASE /\ UNCHANGED <<rows, serial>>
             /\ failed' = IF req[r].op = "create" THEN failed ELSE failed \cup {req[r].id}
    <2>1. serial' \in Nat /\ serial <= serial'
      BY <1>2, <1>5
    <2>2. TypeOK'
      <3>1. failed' \subseteq Ids
        <4>1. req[r].op # "create" => req[r].id \in Ids
          BY <1>2 DEF Ids, RequestOK, UpdateOK, DeleteOK, Ops
        <4> QED
          BY <4>1, <1>5 DEF SchedInv, TypeOK
      <3> QED
        BY <3>1, <2>1, <1>1, <1>5, FinishFacts DEF SchedInv, TypeOK
    <2>3. NoZombie'
      BY <1>1, <1>5 DEF SchedInv, NoZombie
    <2>4. JobsInForce'
      <3>1. \A j \in DOMAIN rows : Busy(j) /\ j \notin failed' => Busy(j)'
        BY <2>1, <1>1, <1>3, <1>4, <1>5, FinishFacts
      <3> QED
        BY <3>1, <1>1, <1>5 DEF SchedInv, JobsInForce
    <2>5. \A a \in Requests : a # r => RequestOK(req[a])'
      <3>1. \A a \in Requests : a # r => req'[a] = req[a] /\ RequestOK(req[a])
        BY <2>1, <1>1, FinishFacts DEF SchedInv
      <3> QED
        BY <3>1, <1>1, <1>5 DEF RequestOK, InsertOK, UpdateOK, DeleteOK, StoredOK
    <2> QED
      BY <2>1, <2>2, <2>3, <2>4, <2>5, <1>1, FinishFacts DEF SchedInv
  <1>6. CASE /\ rows' = Executed(req[r])
             /\ serial' = IF req[r].op = "create" THEN serial + 1 ELSE serial
             /\ Fails(TargetId(req[r]))
    <2> DEFINE i == TargetId(req[r])
    <2>1. After(req[r], rows')
      BY <1>1, <1>6, ExecutedFacts
    <2>2. serial' \in 0..MaxSubs /\ serial' \in Nat /\ serial <= serial' /\ i \in 1..serial'
      <3>1. CASE req[r].op = "create"
        BY <3>1, <1>1, <1>2, <1>6 DEF CanRun, TargetId
      <3>2. CASE req[r].op # "create"
        BY <3>2, <2>1, <1>2, <1>6 DEF After
      <3> QED
        BY <3>1, <3>2
    <2>3. /\ DOMAIN rows' \subseteq DOMAIN rows \cup {i}
          /\ rows' \in [DOMAIN rows' -> [cfg : Configs, on : BOOLEAN, sent : BOOLEAN]]
          /\ \A j \in DOMAIN rows : j # i => j \in DOMAIN rows' /\ rows'[j] = rows[j]
      BY <2>1, <1>2 DEF Ops, After
    <2>4. failed' = failed \cup {i}
      BY <1>6 DEF Fails
    <2>5. TypeOK'
      <3>1. DOMAIN rows' \subseteq 1..serial'
        BY <2>2, <2>3, <1>2 DEF SchedInv, TypeOK
      <3>2. failed' \subseteq Ids
        BY <2>2, <2>4 DEF SchedInv, TypeOK, Ids
      <3> QED
        BY <3>1, <3>2, <2>2, <2>3, <1>1, FinishFacts DEF SchedInv, TypeOK
    <2>6. NoZombie'
      <3>1. req[r].op = "delete" => req[r].id \notin DOMAIN jobs
        BY <1>2 DEF RequestOK, DeleteOK
      <3> QED
        BY <3>1, <2>1, <1>1, <1>2 DEF NoZombie, SchedInv, Ops, After
    <2>7. JobsInForce'
      <3>1. req[r].op # "create" => req[r].id = i
        BY <2>1 DEF After
      <3>2. \A j \in DOMAIN rows : j # i /\ Busy(j) => Busy(j)'
        BY <3>1, <2>2, <1>1, <1>3, <1>4, FinishFacts
      <3> QED
        BY <3>2, <2>3, <2>4, <1>1 DEF JobsInForce, SchedInv
    <2>8. \A a \in Requests : a # r => RequestOK(req[a])'
      BY <2>2, <1>1, <1>6, FinishFacts, OthersUntouched
    <2> QED
      BY <2>2, <2>5, <2>6, <2>7, <2>8, <1>1, FinishFacts DEF SchedInv
  <1> QED
    BY <1>5, <1>6 DEF Fault

-----------------------------------------------------------------------------
(* The rest of each handler. *)

\* What registering, unregistering or neither does to the registry: only the
\* job of the request's own subscription changes.
Touched(i, new) ==
  /\ new \in [DOMAIN new -> Configs]
  /\ DOMAIN new \subseteq DOMAIN jobs \cup {i}
  /\ \A j \in DOMAIN jobs : j # i => j \in DOMAIN new /\ new[j] = jobs[j]

LEMMA RegistryFacts ==
  ASSUME jobs \in [DOMAIN jobs -> Configs], NEW i, NEW c \in Configs
  PROVE  /\ Touched(i, jobs)
         /\ Touched(i, Drop(jobs, i)) /\ i \notin DOMAIN Drop(jobs, i)
         /\ Touched(i, Registered(i, c))
         /\ c \in BadCron => i \notin DOMAIN Registered(i, c)
         /\ c \notin BadCron => i \in DOMAIN Registered(i, c) /\ Registered(i, c)[i] = c
  <1>1. Touched(i, jobs)
    BY DEF Touched
  <1>2. Touched(i, Drop(jobs, i)) /\ i \notin DOMAIN Drop(jobs, i)
    BY DEF Touched, Drop
  <1>3. CASE c \in BadCron
    BY <1>1, <1>2, <1>3 DEF Registered
  <1>4. CASE c \notin BadCron
    <2>1. Registered(i, c) = Put(jobs, i, c)
      BY <1>4 DEF Registered
    <2>2. Touched(i, Put(jobs, i, c)) /\ i \in DOMAIN Put(jobs, i, c) /\ Put(jobs, i, c)[i] = c
      BY DEF Touched, Put
    <2> QED
      BY <1>1, <1>2, <1>4, <2>1, <2>2
  <1> QED
    BY <1>3, <1>4

\* The step that ends a handler keeps the invariant when it leaves the
\* subscription with the job its row asks for, or reports an error.
LEMMA EndStep ==
  ASSUME SchedInv, NEW r \in Requests, Finish(r), req[r].op \in Ops,
         req[r].reply # "none", NEW i, i = req[r].id, Touched(i, jobs'),
         UNCHANGED <<rows, serial, sending, faults, restarts>>,
         failed' = failed \cup {i} \/ failed' = failed \ {i},
         i \in Ids, i \in DOMAIN jobs' => i \in DOMAIN rows,
         i \in DOMAIN rows /\ i \notin failed' =>
           /\ rows[i].on <=> i \in DOMAIN jobs'
           /\ i \in DOMAIN jobs' => jobs'[i] = rows[i].cfg
  PROVE  SchedInv'
  <1> USE SchedulerAssumption
  <1>1. serial' \in Nat /\ serial <= serial'
    BY DEF SchedInv, TypeOK
  <1>2. TypeOK'
    <2>1. DOMAIN jobs' \subseteq Ids /\ jobs' \in [DOMAIN jobs' -> Configs]
      BY DEF SchedInv, TypeOK, Touched
    <2>2. failed' \subseteq Ids
      BY DEF SchedInv, TypeOK
    <2> QED
      BY <1>1, <2>1, <2>2, FinishFacts DEF SchedInv, TypeOK
  <1>3. NoZombie'
    BY DEF SchedInv, NoZombie, Touched
  <1>4. JobsInForce'
    <2>1. \A j \in DOMAIN rows : j # i /\ Busy(j) => Busy(j)'
      BY <1>1, FinishFacts
    <2>2. \A j \in DOMAIN rows : j # i =>
            /\ j \in failed' <=> j \in failed
            /\ j \in DOMAIN jobs' <=> j \in DOMAIN jobs
            /\ j \in DOMAIN jobs => jobs'[j] = jobs[j]
      BY DEF Touched
    <2> QED
      BY <2>1, <2>2 DEF SchedInv, JobsInForce
  <1>5. \A a \in Requests : a # r => RequestOK(req[a])'
    <2>1. \A a \in Requests : a # r => req'[a] = req[a] /\ RequestOK(req[a])
      BY <1>1, FinishFacts DEF SchedInv
    <2>2. \A a \in Requests : a # r /\ req[a].op # "none" => req[a].id # i
      <3>1. i # 0
        BY DEF Ids
      <3> QED
        BY <3>1 DEF SchedInv, Distinct, Ops
    <2>3. \A j : j # i => (j \in DOMAIN jobs' <=> j \in DOMAIN jobs)
      BY DEF Touched
    <2> QED
      BY <2>1, <2>2, <2>3 DEF RequestOK, InsertOK, UpdateOK, DeleteOK, StoredOK
  <1> QED
    BY <1>1, <1>2, <1>3, <1>4, <1>5, FinishFacts DEF SchedInv

LEMMA CreateReplyStep ==
  ASSUME Turns, SchedInv, NEW r \in Requests, CreateReply(r)
  PROVE  SchedInv'
  <1> USE SchedulerAssumption
  <1> DEFINE i == req[r].id
             c == req[r].cfg
  <1>1. /\ req[r].op = "create" /\ req[r].reply # "none" /\ Finish(r)
        /\ UNCHANGED <<rows, serial, sending, faults, restarts>>
        /\ jobs' = IF req[r].on THEN Registered(i, c) ELSE jobs
        /\ failed' = IF req[r].on /\ c \in BadCron THEN failed \cup {i} ELSE failed \ {i}
    BY DEF CreateReply, Fails, Succeeds
  <1>2. /\ req[r].reply = "ok" /\ c \in Configs /\ i \notin DOMAIN jobs
        /\ i \in DOMAIN rows /\ rows[i].cfg = c /\ rows[i].on = req[r].on
        /\ i \in Ids
    <2>1. req[r].reply \in {"none", "ok", "empty"} /\ RequestOK(req[r])
      BY DEF SchedInv, TypeOK
    <2>2. DOMAIN rows \subseteq Ids
      BY DEF SchedInv, TypeOK, Ids
    <2> QED
      BY <1>1, <2>1, <2>2 DEF RequestOK, InsertOK, StoredOK
  <1>3. Touched(i, jobs')
    BY <1>1, <1>2, RegistryFacts DEF SchedInv, TypeOK
  <1>4. i \notin failed' =>
          /\ rows[i].on <=> i \in DOMAIN jobs'
          /\ i \in DOMAIN jobs' => jobs'[i] = rows[i].cfg
    <2>1. rows[i].on \in BOOLEAN
      BY <1>2 DEF SchedInv, TypeOK
    <2>2. CASE req[r].on
      BY <2>1, <2>2, <1>1, <1>2, RegistryFacts DEF SchedInv, TypeOK
    <2>3. CASE ~req[r].on
      BY <2>1, <2>3, <1>1, <1>2
    <2> QED
      BY <2>2, <2>3
  <1> QED
    BY <1>1, <1>2, <1>3, <1>4, EndStep DEF Ops

LEMMA UpdateReplyStep ==
  ASSUME Turns, SchedInv, NEW r \in Requests, UpdateReply(r)
  PROVE  SchedInv'
  <1> USE SchedulerAssumption
  <1> DEFINE i == req[r].id
             c == req[r].cfg
  <1>1. /\ req[r].op = "update" /\ req[r].reply # "none" /\ Finish(r)
        /\ UNCHANGED <<rows, serial, sending, faults, restarts>>
        /\ jobs' = IF req[r].reply = "ok" /\ req[r].on THEN Registered(i, c) ELSE Drop(jobs, i)
        /\ failed' = IF req[r].reply = "empty" \/ (req[r].on /\ c \in BadCron)
                     THEN failed \cup {i} ELSE failed \ {i}
    BY DEF UpdateReply, Fails, Succeeds
  <1>2. /\ req[r].reply \in {"ok", "empty"} /\ c \in Configs /\ i \in Ids
        /\ req[r].reply = "ok" => i \in DOMAIN rows /\ rows[i].cfg = c /\ rows[i].on = req[r].on
        /\ req[r].reply = "empty" => i \notin DOMAIN rows
    <2>1. /\ req[r].reply \in {"none", "ok", "empty"} /\ RequestOK(req[r])
          /\ i \in 0..serial /\ serial \in 0..MaxSubs
      BY DEF SchedInv, TypeOK
    <2>2. 1..serial \subseteq Ids
      BY <2>1 DEF Ids
    <2> QED
      BY <1>1, <2>1, <2>2 DEF RequestOK, UpdateOK, StoredOK
  <1>3. Touched(i, jobs')
    BY <1>1, <1>2, RegistryFacts DEF SchedInv, TypeOK
  <1>4. CASE req[r].reply = "ok"
    <2>1. rows[i].on \in BOOLEAN
      BY <1>2, <1>4 DEF SchedInv, TypeOK
    <2>2. i \notin failed' =>
            /\ rows[i].on <=> i \in DOMAIN jobs'
            /\ i \in DOMAIN jobs' => jobs'[i] = rows[i].cfg
      <3>1. CASE req[r].on
        BY <2>1, <3>1, <1>1, <1>2, <1>4, RegistryFacts DEF SchedInv, TypeOK
      <3>2. CASE ~req[r].on
        BY <2>1, <3>2, <1>1, <1>2, <1>4, RegistryFacts DEF SchedInv, TypeOK
      <3> QED
        BY <3>1, <3>2
    <2> QED
      BY <2>2, <1>1, <1>2, <1>3, <1>4, EndStep DEF Ops
  <1>5. CASE req[r].reply = "empty"
    <2>1. i \notin DOMAIN jobs' /\ i \notin DOMAIN rows
      BY <1>1, <1>2, <1>5, RegistryFacts DEF SchedInv, TypeOK
    <2> QED
      BY <2>1, <1>1, <1>2, <1>3, EndStep DEF Ops
  <1> QED
    BY <1>2, <1>4, <1>5

LEMMA DeleteReplyStep ==
  ASSUME Turns, SchedInv, NEW r \in Requests, DeleteReply(r)
  PROVE  SchedInv'
  <1> USE SchedulerAssumption
  <1> DEFINE i == req[r].id
  <1>1. /\ req[r].op = "delete" /\ req[r].reply # "none" /\ Finish(r)
        /\ UNCHANGED <<rows, serial, jobs, sending, faults, restarts>>
        /\ failed' = failed \ {i}
    BY DEF DeleteReply, Succeeds
  <1>2. i \notin DOMAIN jobs /\ i \notin DOMAIN rows /\ i \in Ids
    <2>1. /\ req[r].reply \in {"none", "ok", "empty"} /\ RequestOK(req[r])
          /\ i \in 0..serial /\ serial \in 0..MaxSubs
      BY DEF SchedInv, TypeOK
    <2>2. 1..serial \subseteq Ids
      BY <2>1 DEF Ids
    <2> QED
      BY <1>1, <2>1, <2>2 DEF RequestOK, DeleteOK
  <1>3. Touched(i, jobs')
    BY <1>1 DEF SchedInv, TypeOK, Touched
  <1> QED
    BY <1>1, <1>2, <1>3, EndStep DEF Ops

-----------------------------------------------------------------------------
(* Mailing and restarts. *)

\* Steps that touch no request, no job and no row but for last_sent_at.
LEMMA QuietStep ==
  ASSUME SchedInv, UNCHANGED <<serial, jobs, req, failed>>,
         DOMAIN rows' = DOMAIN rows,
         \A i \in DOMAIN rows : rows'[i].cfg = rows[i].cfg /\ rows'[i].on = rows[i].on,
         TypeOK'
  PROVE  SchedInv'
  <1>1. NoZombie' /\ Distinct'
    BY DEF SchedInv, NoZombie, Distinct
  <1>2. JobsInForce'
    <2>1. \A i : Busy(i)' <=> Busy(i)
      BY DEF Busy
    <2> QED
      BY <2>1 DEF SchedInv, JobsInForce
  <1>3. \A a \in Requests : RequestOK(req[a])'
    BY DEF SchedInv, RequestOK, InsertOK, UpdateOK, DeleteOK, StoredOK
  <1> QED
    BY <1>1, <1>2, <1>3 DEF SchedInv

LEMMA SendStep ==
  ASSUME SchedInv, NEW i \in Ids, Fire(i) \/ SendNow(i)
  PROVE  SchedInv'
  <1>1. /\ UNCHANGED <<rows, serial, jobs, req, failed, faults, restarts>>
        /\ sending' = sending \cup {Send(i)}
    BY DEF Fire, SendNow
  <1>2. TypeOK'
    BY <1>1 DEF SchedInv, TypeOK, Send
  <1> QED
    BY <1>1, <1>2, QuietStep

LEMMA MailingStep ==
  ASSUME SchedInv, NEW s \in sending, Mail(s) \/ Stamp(s) \/ GiveUp(s)
  PROVE  SchedInv'
  <1> USE SchedulerAssumption
  <1>1. s \in [id : Ids, stage : {"mailing", "mailed"}]
    BY DEF SchedInv, TypeOK
  <1>2. CASE Mail(s)
    <2>1. [s EXCEPT !.stage = "mailed"] \in [id : Ids, stage : {"mailing", "mailed"}]
      BY <1>1
    <2>2. TypeOK'
      BY <1>2, <2>1 DEF SchedInv, TypeOK, Mail
    <2> QED
      BY <1>2, <2>2, QuietStep DEF Mail
  <1>3. CASE Stamp(s)
    <2>1. /\ DOMAIN rows' = DOMAIN rows
          /\ \A i \in DOMAIN rows : rows'[i].cfg = rows[i].cfg /\ rows'[i].on = rows[i].on
          /\ rows' \in [DOMAIN rows' -> [cfg : Configs, on : BOOLEAN, sent : BOOLEAN]]
      <3>1. rows \in [DOMAIN rows -> [cfg : Configs, on : BOOLEAN, sent : BOOLEAN]]
        BY DEF SchedInv, TypeOK
      <3>2. CASE s.id \in DOMAIN rows
        <4> DEFINE v == [rows[s.id] EXCEPT !.sent = TRUE]
        <4>1. /\ v \in [cfg : Configs, on : BOOLEAN, sent : BOOLEAN]
              /\ v.cfg = rows[s.id].cfg /\ v.on = rows[s.id].on
          BY <3>1, <3>2
        <4>2. rows' = Put(rows, s.id, v)
          BY <1>3, <3>2 DEF Stamp
        <4> HIDE DEF v
        <4> QED
          BY ONLY <3>1, <3>2, <4>1, <4>2 DEF Put
      <3>3. CASE s.id \notin DOMAIN rows
        BY <1>3, <3>1, <3>3 DEF Stamp
      <3> QED
        BY <3>2, <3>3
    <2>2. TypeOK'
      BY <1>3, <2>1 DEF SchedInv, TypeOK, Stamp
    <2> QED
      BY <1>3, <2>1, <2>2, QuietStep DEF Stamp
  <1>4. CASE GiveUp(s)
    <2>1. TypeOK'
      BY <1>4 DEF SchedInv, TypeOK, GiveUp
    <2> QED
      BY <1>4, <2>1, QuietStep DEF GiveUp
  <1> QED
    BY <1>2, <1>3, <1>4

LEMMA RestartStep ==
  ASSUME SchedInv, Restart
  PROVE  SchedInv'
  <1> USE SchedulerAssumption
  <1>1. UNCHANGED <<rows, serial, faults>> /\ restarts' \in 0..MaxRestarts /\ sending' = {}
    BY DEF Restart, SchedInv, TypeOK
  <1>2. \A r \in Requests : req'[r] = NoRequest
    BY DEF Restart
  <1>3. /\ jobs' = [i \in Bootstrapped |-> rows[i].cfg]
        /\ failed' = {i \in DOMAIN rows : rows[i].on /\ rows[i].cfg \in BadCron}
    BY DEF Restart
  <1>4. /\ DOMAIN rows \subseteq Ids
        /\ rows \in [DOMAIN rows -> [cfg : Configs, on : BOOLEAN, sent : BOOLEAN]]
    BY DEF SchedInv, TypeOK, Ids
  <1>5. TypeOK'
    <2>1. DOMAIN jobs' \subseteq Ids /\ jobs' \in [DOMAIN jobs' -> Configs] /\ failed' \subseteq Ids
      BY <1>3, <1>4 DEF Bootstrapped
    <2>2. req' \in [Requests -> [op : Ops \cup {"none"}, id : 0..serial, cfg : Contents,
                                 on : BOOLEAN, reply : {"none", "ok", "empty"}]]
      <3>1. 0 \in 0..serial
        BY DEF SchedInv, TypeOK
      <3>2. req' = [r \in Requests |-> NoRequest]
        BY DEF Restart
      <3> QED
        BY <3>1, <3>2 DEF NoRequest, Contents
    <2> QED
      BY <1>1, <2>1, <2>2 DEF SchedInv, TypeOK
  <1>6. NoZombie' /\ JobsInForce'
    BY <1>1, <1>3, <1>4 DEF NoZombie, JobsInForce, Bootstrapped
  <1>7. Distinct' /\ \A a \in Requests : RequestOK(req[a])'
    BY <1>2 DEF NoRequest, Distinct, RequestOK, InsertOK, UpdateOK, DeleteOK, StoredOK
  <1> QED
    BY <1>5, <1>6, <1>7 DEF SchedInv

-----------------------------------------------------------------------------
LEMMA SchedInit == Init => SchedInv
  <1> SUFFICES ASSUME Init PROVE SchedInv
    OBVIOUS
  <1> USE SchedulerAssumption
  <1>1. DOMAIN rows = {} /\ DOMAIN jobs = {}
    BY DEF Init
  <1>2. TypeOK
    BY <1>1 DEF Init, TypeOK, NoRequest, Contents
  <1>3. NoZombie /\ JobsInForce
    BY <1>1 DEF NoZombie, JobsInForce
  <1>4. Distinct /\ \A a \in Requests : RequestOK(req[a])
    BY DEF Init, NoRequest, Distinct, RequestOK, InsertOK, UpdateOK, DeleteOK, StoredOK
  <1> QED
    BY <1>2, <1>3, <1>4 DEF SchedInv

LEMMA SchedStep ==
  ASSUME Turns
  PROVE  SchedInv /\ [Next]_vars => SchedInv'
  <1> SUFFICES ASSUME SchedInv, [Next]_vars PROVE SchedInv'
    OBVIOUS
  <1>1. CASE UNCHANGED vars
    <2>1. TypeOK'
      BY <1>1 DEF vars, SchedInv, TypeOK
    <2> QED
      BY <1>1, <2>1, QuietStep DEF vars
  <1>2. ASSUME NEW r \in Requests,
               Create(r) \/ Update(r) \/ Delete(r) \/ Answer(r) \/ Refuse(r) \/ Fault(r)
        PROVE  SchedInv'
    BY <1>2, CreateStep, UpdateStep, DeleteStep, AnswerStep, RefuseStep, FaultStep
  <1>3. ASSUME NEW r \in Requests, CreateReply(r) \/ UpdateReply(r) \/ DeleteReply(r)
        PROVE  SchedInv'
    BY <1>3, CreateReplyStep, UpdateReplyStep, DeleteReplyStep
  <1>4. ASSUME NEW i \in Ids, Fire(i) \/ SendNow(i)
        PROVE  SchedInv'
    BY <1>4, SendStep
  <1>5. ASSUME NEW s \in sending, Mail(s) \/ Stamp(s) \/ GiveUp(s)
        PROVE  SchedInv'
    BY <1>5, MailingStep
  <1>6. CASE Restart
    BY <1>6, RestartStep
  <1> QED
    BY <1>1, <1>2, <1>3, <1>4, <1>5, <1>6 DEF Next

\* When requests on one subscription take turns, no deleted subscription goes
\* on being mailed, and a subscription at rest runs exactly as its row says,
\* through failed queries, lost replies, invalid schedules and restarts.
THEOREM SchedulerCorrect ==
  ASSUME Turns
  PROVE  Spec => []TypeOK /\ []NoZombie /\ []JobsInForce
  <1>1. SchedInv => TypeOK /\ NoZombie /\ JobsInForce
    BY DEF SchedInv
  <1> QED
    BY <1>1, SchedInit, SchedStep, PTL DEF Spec

\* NoZombie: when requests on one subscription take turns, what is deleted is
\* mailed no more, also after a failure or a restart.
COROLLARY NoZombieCorrect == ASSUME Turns PROVE Spec => []NoZombie
  BY SchedulerCorrect, PTL

-----------------------------------------------------------------------------
(* A stamp stays.                                                           *)

StampsStay == \A i \in DOMAIN rows \cap DOMAIN rows' : rows[i].sent => rows'[i].sent

LEMMA StampsAfterQuery ==
  ASSUME TypeOK, NEW r \in Requests, CanRun(r), rows' = Executed(req[r])
  PROVE  StampsStay
  <1>1. serial + 1 \notin DOMAIN rows
    BY DEF TypeOK
  <1>2. CASE req[r].op = "create"
    BY <1>1, <1>2 DEF Executed, Put, StampsStay
  <1>3. CASE req[r].op = "update" /\ req[r].id \in DOMAIN rows
    BY <1>3 DEF Executed, Put, StampsStay
  <1>4. CASE req[r].op = "delete"
    BY <1>4 DEF Executed, Drop, StampsStay
  <1>5. CASE req[r].op \notin {"create", "delete"} /\ ~(req[r].op = "update" /\ req[r].id \in DOMAIN rows)
    BY <1>5 DEF Executed, StampsStay
  <1> QED
    BY <1>2, <1>3, <1>4, <1>5

LEMMA StampsStayStep == SchedInv /\ [Next]_vars => StampsStay
  <1> SUFFICES ASSUME SchedInv, [Next]_vars PROVE StampsStay
    OBVIOUS
  <1>1. CASE rows' = rows
    BY <1>1 DEF StampsStay
  <1>2. ASSUME NEW r \in Requests, Answer(r) \/ Fault(r) PROVE StampsStay
    BY <1>1, <1>2, StampsAfterQuery DEF Answer, Fault, SchedInv
  <1>3. ASSUME NEW s \in sending, Stamp(s) PROVE StampsStay
    <2>1. s.id \in DOMAIN rows => [rows[s.id] EXCEPT !.sent = TRUE].sent
      BY DEF SchedInv, TypeOK
    <2> QED
      BY <1>3, <2>1 DEF Stamp, Put, StampsStay
  <1>4. ASSUME NEW r \in Requests,
               \/ Create(r) \/ Update(r) \/ Delete(r) \/ Refuse(r)
               \/ CreateReply(r) \/ UpdateReply(r) \/ DeleteReply(r)
        PROVE  rows' = rows
    BY <1>4 DEF Create, Update, Delete, Refuse, CreateReply, UpdateReply, DeleteReply
  <1>5. ASSUME NEW i \in Ids, Fire(i) \/ SendNow(i) PROVE rows' = rows
    BY <1>5 DEF Fire, SendNow
  <1>6. ASSUME NEW s \in sending, Mail(s) \/ GiveUp(s) PROVE rows' = rows
    BY <1>6 DEF Mail, GiveUp
  <1> QED
    BY <1>1, <1>2, <1>3, <1>4, <1>5, <1>6 DEF Next, Restart, vars

\* When requests on one subscription take turns, no request takes the stamp of
\* a mailed report off its row, however the two interleave.
THEOREM StampCorrect ==
  ASSUME Turns
  PROVE  Spec => StampKept
  <1>1. StampsStay <=>
          \A i \in DOMAIN rows \cap DOMAIN rows' : rows[i].sent => rows'[i].sent
    BY DEF StampsStay
  <1> QED
    BY <1>1, SchedInit, SchedStep, StampsStayStep, PTL DEF Spec, StampKept

=============================================================================

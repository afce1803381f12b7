------------------------ MODULE AlertEvaluatorProofs ------------------------
(***************************************************************************)
(* Theorems about AlertEvaluator, for every number of devices, rules,      *)
(* evaluations, faults, level changes and restarts.                        *)
(***************************************************************************)
EXTENDS AlertEvaluator, FiniteSetTheorems, TLAPS

-----------------------------------------------------------------------------
(* The operators on maps, rows and evaluations. *)

\* A map of open alerts.
OpenMap(m) == DOMAIN m \subseteq Keys /\ m \in [DOMAIN m -> Ids]

\* Put and Drop are the Map's set and delete.
LEMMA PutOpen ==
  ASSUME NEW m, OpenMap(m), NEW k \in Keys, NEW i \in Ids
  PROVE  /\ OpenMap(Put(m, k, i))
         /\ DOMAIN Put(m, k, i) = DOMAIN m \cup {k}
         /\ Put(m, k, i)[k] = i
         /\ \A j \in DOMAIN m : j # k => Put(m, k, i)[j] = m[j]
  BY DEF Put, OpenMap

LEMMA DropOpen ==
  ASSUME NEW m, OpenMap(m), NEW k
  PROVE  /\ OpenMap(Drop(m, k))
         /\ DOMAIN Drop(m, k) = DOMAIN m \ {k}
         /\ \A j \in DOMAIN m : j # k => Drop(m, k)[j] = m[j]
  BY DEF Drop, OpenMap

\* What an evaluation that waits for a query knows of the map m: the alert it
\* fires is not in m, and the id it clears is the one m gives.
Sound(v, m) ==
  /\ v.pc \in {"mark", "insert"} => v.at \in Keys /\ v.at \notin DOMAIN m
  /\ v.pc = "clear" => v.at \in DOMAIN m /\ v.id = m[v.at]
  /\ v.pc = "sibling" => /\ v.at \in Keys
                         /\ <<v.at[1], v.sib>> \in DOMAIN m
                         /\ v.id = m[<<v.at[1], v.sib>>]

LEMMA IdleType == Idle \in Evaluation /\ Idle.pc = "idle" /\ Idle.seen = {}
                  /\ Idle.reply = "none"
  BY ConstantsAssumption DEF Idle, Evaluation, Levels, Ids, Keys, Origin

\* Sending a query.
LEMMA SentType ==
  ASSUME NEW v \in Evaluation, NEW q \in Queries
  PROVE  /\ Sent(v, q) \in Evaluation
         /\ Sent(v, q).pc = q /\ Sent(v, q).reply = "none"
         /\ Sent(v, q).snap = v.snap /\ Sent(v, q).at = v.at
         /\ Sent(v, q).sib = v.sib /\ Sent(v, q).id = v.id
         /\ Sent(v, q).root = v.root /\ Sent(v, q).seen = v.seen
  BY DEF Sent, Evaluation

\* fireAlert up to its first query.
LEMMA FireType ==
  ASSUME ev \in [Evals -> Evaluation], counter \in Ids,
         NEW e \in Evals, NEW v \in Evaluation, NEW m, OpenMap(m),
         v.at \in Keys, v.at \notin DOMAIN m, Fire(e, v, m)
  PROVE  /\ counter' = counter + 1
         /\ \E w \in Evaluation : /\ ev' = [ev EXCEPT ![e] = w]
                                  /\ w.pc \in {"mark", "insert"}
                                  /\ w.reply = "none" /\ w.seen = v.seen
                                  /\ w.id = counter /\ w.at = v.at
                                  /\ w.pc = "mark" <=> w.root
                                  /\ w.root => w.at[2] = 0
                                  /\ Sound(w, m)
  <1> DEFINE root == v.at[2] = 0 /\ DOMAIN m # {}
             q    == IF root THEN "mark" ELSE "insert"
             u    == Sent(v, q)
             w    == [u EXCEPT !.id = counter, !.root = root]
  <1>1. /\ root \in BOOLEAN /\ q \in {"mark", "insert"}
        /\ q = "mark" <=> root
        /\ root => v.at[2] = 0
    OBVIOUS
  <1>2. ev' = [ev EXCEPT ![e] = w] /\ counter' = counter + 1
    BY DEF Fire, Become
  <1> HIDE DEF root, q
  <1>3. /\ u \in Evaluation /\ u.pc = q /\ u.reply = "none"
        /\ u.at = v.at /\ u.seen = v.seen
    BY <1>1, SentType DEF Queries
  <1> HIDE DEF u
  <1>4. w \in Evaluation
    BY <1>1, <1>3 DEF Evaluation
  <1>5. /\ w.pc = q /\ w.reply = "none" /\ w.seen = v.seen
        /\ w.id = counter /\ w.at = v.at /\ w.root = root
    BY <1>3 DEF Evaluation
  <1> HIDE DEF w
  <1>6. Sound(w, m)
    BY <1>1, <1>5 DEF Sound
  <1> QED
    BY <1>1, <1>2, <1>4, <1>5, <1>6

\* clearEscalationSiblings up to its next query.
LEMMA ClearSiblingType ==
  ASSUME ev \in [Evals -> Evaluation],
         NEW e \in Evals, NEW v \in Evaluation, v.at \in Keys,
         NEW m, OpenMap(m), NEW b \in 0..(Top + 1), ClearSibling(e, v, m, b)
  PROVE  /\ counter' = counter
         /\ \E w \in Evaluation : /\ ev' = [ev EXCEPT ![e] = w]
                                  /\ w.pc = "sibling"
                                  /\ w.reply = "none" /\ w.seen = v.seen
                                  /\ w.at = v.at /\ w.sib \in Siblings(v.at, m, b)
                                  /\ \A s \in Siblings(v.at, m, b) : s <= w.sib
                                  /\ Sound(w, m)
  <1>1. PICK r \in Siblings(v.at, m, b) :
          /\ ev' = [ev EXCEPT ![e] =
                      [Sent(v, "sibling") EXCEPT !.sib = r, !.id = m[<<v.at[1], r>>]]]
          /\ counter' = counter
          /\ \A s \in Siblings(v.at, m, b) : s <= r
    BY DEF ClearSibling, Become
  <1> DEFINE u == Sent(v, "sibling")
             w == [u EXCEPT !.sib = r, !.id = m[<<v.at[1], r>>]]
  <1>2. r \in 0..Top /\ <<v.at[1], r>> \in DOMAIN m /\ m[<<v.at[1], r>>] \in Ids
    BY ConstantsAssumption DEF Siblings, OpenMap
  <1>3. /\ u \in Evaluation /\ u.pc = "sibling" /\ u.reply = "none"
        /\ u.at = v.at /\ u.seen = v.seen
    BY SentType DEF Queries
  <1>4. ev' = [ev EXCEPT ![e] = w]
    BY <1>1
  <1> HIDE DEF u
  <1>5. w \in Evaluation
    BY <1>2, <1>3 DEF Evaluation
  <1>6. /\ w.pc = "sibling" /\ w.reply = "none" /\ w.seen = v.seen /\ w.at = v.at
        /\ w.sib = r /\ w.id = m[<<v.at[1], r>>]
    BY <1>3 DEF Evaluation
  <1> HIDE DEF w
  <1>7. Sound(w, m)
    BY <1>2, <1>6 DEF Sound
  <1> QED
    BY <1>1, <1>4, <1>5, <1>6, <1>7

\* What an evaluation goes for: when it fires, no rule of the group is in the
\* map m; when it clears a sibling, none that is severer than that one is.
Aims(w, m) ==
  /\ w.pc = "mark" => w.root
  /\ w.pc \in {"mark", "insert"} => /\ w.root => w.at[2] = 0
                                    /\ Siblings(w.at, m, Top + 1) = {}
  /\ w.pc = "sibling" => /\ w.at \notin DOMAIN m
                         /\ w.sib \in Siblings(w.at, m, Top + 1)
                         /\ \A s \in Siblings(w.at, m, Top + 1) : s <= w.sib

\* The continuation of an evaluation leaves it idle or waiting for a query
\* that is sound for the map it was computed from.
LEMMA ResumeType ==
  ASSUME ev \in [Evals -> Evaluation], counter \in Ids,
         NEW e \in Evals, NEW v \in Evaluation,
         NEW m, OpenMap(m), Resume(e, v, m)
  PROVE  \E w \in Evaluation :
           /\ ev' = [ev EXCEPT ![e] = w]
           /\ w.pc \in {"idle", "sibling", "mark", "insert", "clear"}
           /\ w.reply = "none" /\ w.seen \subseteq v.seen
           /\ Sound(w, m) /\ Aims(w, m)
           /\ \/ counter' = counter /\ w.pc \notin {"mark", "insert"}
              \/ counter' = counter + 1 /\ w.pc \in {"mark", "insert"} /\ w.id = counter
  <1>1. CASE Todo(v, m) = {} /\ Become(e, Idle) /\ UNCHANGED counter
    <2>1. Sound(Idle, m) /\ Aims(Idle, m)
      BY IdleType DEF Sound, Aims
    <2> QED
      BY <1>1, <2>1, IdleType DEF Become
  <1>2. ASSUME NEW k \in FirstOf(Todo(v, m)),
               LET w == [v EXCEPT !.at = k] IN
               \/ /\ Clears(k, v.snap[k[1]], m)
                  /\ Become(e, [Sent(w, "clear") EXCEPT !.id = m[k]])
                  /\ UNCHANGED counter
               \/ Fires(k, v.snap[k[1]], m) /\ ClearSibling(e, w, m, Top + 1)
               \/ /\ Fires(k, v.snap[k[1]], m) /\ Siblings(k, m, Top + 1) = {}
                  /\ Fire(e, w, m)
        PROVE  \E w \in Evaluation :
                 /\ ev' = [ev EXCEPT ![e] = w]
                 /\ w.pc \in {"idle", "sibling", "mark", "insert", "clear"}
                 /\ w.reply = "none" /\ w.seen \subseteq v.seen
                 /\ Sound(w, m) /\ Aims(w, m)
                 /\ \/ counter' = counter /\ w.pc \notin {"mark", "insert"}
                    \/ /\ counter' = counter + 1 /\ w.pc \in {"mark", "insert"}
                       /\ w.id = counter
    <2> DEFINE u == [v EXCEPT !.at = k]
    <2>1. k \in Keys
      BY DEF FirstOf, Todo
    <2>2. u \in Evaluation /\ u.at = k /\ u.seen = v.seen
      BY <2>1 DEF Evaluation
    <2>3. CASE /\ Clears(k, v.snap[k[1]], m)
               /\ Become(e, [Sent(u, "clear") EXCEPT !.id = m[k]])
               /\ UNCHANGED counter
      <3> DEFINE t == Sent(u, "clear")
                 w == [t EXCEPT !.id = m[k]]
      <3>1. ev' = [ev EXCEPT ![e] = w]
        BY <2>3 DEF Become
      <3> HIDE DEF u
      <3>2. k \in DOMAIN m /\ m[k] \in Ids
        BY <2>3 DEF Clears, OpenMap
      <3>3. /\ t \in Evaluation /\ t.pc = "clear" /\ t.reply = "none"
            /\ t.at = k /\ t.seen = v.seen
        BY <2>2, SentType DEF Queries
      <3> HIDE DEF t
      <3>4. w \in Evaluation
        BY <3>2, <3>3 DEF Evaluation
      <3>5. /\ w.pc = "clear" /\ w.reply = "none" /\ w.seen = v.seen
            /\ w.at = k /\ w.id = m[k]
        BY <3>3 DEF Evaluation
      <3> HIDE DEF w
      <3>6. Sound(w, m) /\ Aims(w, m)
        BY <3>2, <3>5 DEF Sound, Aims
      <3> QED
        BY <2>3, <3>1, <3>4, <3>5, <3>6
    <2> HIDE DEF u
    <2>4. CASE Fires(k, v.snap[k[1]], m) /\ ClearSibling(e, u, m, Top + 1)
      <3>1. Top + 1 \in 0..(Top + 1)
        BY ConstantsAssumption
      <3>2. PICK w \in Evaluation :
              /\ ev' = [ev EXCEPT ![e] = w] /\ w.pc = "sibling"
              /\ w.reply = "none" /\ w.seen = u.seen
              /\ w.at = u.at /\ w.sib \in Siblings(u.at, m, Top + 1)
              /\ \A s \in Siblings(u.at, m, Top + 1) : s <= w.sib
              /\ Sound(w, m) /\ counter' = counter
        BY <2>1, <2>2, <2>4, <3>1, ClearSiblingType
      <3>3. Aims(w, m)
        BY <2>2, <2>4, <3>2 DEF Aims, Fires
      <3> QED
        BY <2>2, <3>2, <3>3
    <2>5. CASE /\ Fires(k, v.snap[k[1]], m) /\ Siblings(k, m, Top + 1) = {}
               /\ Fire(e, u, m)
      <3>1. k \notin DOMAIN m
        BY <2>5 DEF Fires
      <3>2. PICK w \in Evaluation :
              /\ ev' = [ev EXCEPT ![e] = w] /\ w.pc \in {"mark", "insert"}
              /\ w.reply = "none" /\ w.seen = u.seen
              /\ w.id = counter /\ w.at = u.at
              /\ w.pc = "mark" <=> w.root
              /\ w.root => w.at[2] = 0
              /\ Sound(w, m) /\ counter' = counter + 1
        BY <2>1, <2>2, <2>5, <3>1, FireType
      <3>3. Aims(w, m)
        BY <2>2, <2>5, <3>2 DEF Aims
      <3> QED
        BY <2>2, <3>2, <3>3
    <2> QED
      BY <1>2, <2>3, <2>4, <2>5 DEF u
  <1> QED
    BY <1>1, <1>2 DEF Resume

\* syncFromDb: the merged map names, for every key of a row read, a row read
\* with that key, and keeps what it had for the other keys.
LEMMA MergesType ==
  ASSUME TypeOK, NEW rows, rows \subseteq DOMAIN alerts, NEW m, OpenMap(m),
         NEW x \in Merges(m, rows)
  PROVE  /\ OpenMap(x)
         /\ \A i \in rows :
              /\ alerts[i].key \in DOMAIN x
              /\ x[alerts[i].key] \in rows
              /\ alerts[x[alerts[i].key]].key = alerts[i].key
         /\ \A k \in DOMAIN x :
              \/ k \in DOMAIN m /\ x[k] = m[k]
              \/ x[k] \in rows /\ alerts[x[k]].key = k
  <1> DEFINE ks == {alerts[i].key : i \in rows}
  <1>1. PICK g \in [ks -> rows] :
          /\ \A k \in ks : alerts[g[k]].key = k
          /\ x = [k \in DOMAIN m \cup ks |-> IF k \in ks THEN g[k] ELSE m[k]]
    BY DEF Merges
  <1>2. ks \subseteq Keys
    BY DEF TypeOK
  <1>3. rows \subseteq Ids
    BY DEF TypeOK
  <1>4. DOMAIN x = DOMAIN m \cup ks
    BY <1>1
  <1>5. \A k \in ks : x[k] \in rows /\ alerts[x[k]].key = k
    BY <1>1
  <1>6. \A k \in DOMAIN m : k \notin ks => x[k] = m[k]
    BY <1>1
  <1>7. OpenMap(x)
    <2>1. \A k \in DOMAIN x : x[k] \in Ids
      BY <1>3, <1>4, <1>5, <1>6 DEF OpenMap
    <2>2. x \in [DOMAIN x -> Ids]
      BY <1>1, <2>1
    <2> QED
      BY <1>2, <1>4, <2>2 DEF OpenMap
  <1>8. \A i \in rows : alerts[i].key \in ks
    OBVIOUS
  <1> HIDE DEF ks
  <1> QED
    BY <1>4, <1>5, <1>6, <1>7, <1>8

-----------------------------------------------------------------------------
(* The table. *)

Rows == [key : Keys, open : BOOLEAN, cause : {"none", "root", "child"}]
Table(t) == DOMAIN t \subseteq Ids /\ t \in [DOMAIN t -> Rows]

\* What a query does to the table: it neither deletes nor reopens a row nor
\* gives it another key; an UPDATE closes the row it names; an INSERT adds
\* its row under the id it names, unless that id is taken.
LEMMA ExecutedType ==
  ASSUME TypeOK, NEW v \in Evaluation,
         v.pc \in {"mark", "insert"} => v.at \in Keys
  PROVE  /\ Table(Executed(v))
         /\ \A i \in DOMAIN alerts :
              /\ i \in DOMAIN Executed(v)
              /\ Executed(v)[i].key = alerts[i].key
              /\ Executed(v)[i].open => alerts[i].open
         /\ v.pc # "insert" => DOMAIN Executed(v) = DOMAIN alerts
         /\ v.pc \in {"clear", "sibling"} /\ v.id \in DOMAIN alerts
              => ~Executed(v)[v.id].open
         /\ v.pc = "insert" =>
              /\ DOMAIN Executed(v) = DOMAIN alerts \cup {v.id}
              /\ v.id \notin DOMAIN alerts => Executed(v)[v.id].key = v.at
  <1> USE DEF Table
  <1>0. Table(alerts)
    BY DEF TypeOK, Rows
  <1>1. CASE v.pc \in {"clear", "sibling"}
    <2>1. Executed(v) = CloseRow(v.id)
      BY <1>1 DEF Executed
    <2>2. \A j \in DOMAIN alerts : [alerts[j] EXCEPT !.open = FALSE] \in Rows
      BY <1>0 DEF Rows
    <2>3. \A j \in DOMAIN alerts :
            /\ [alerts[j] EXCEPT !.open = FALSE].key = alerts[j].key
            /\ ~[alerts[j] EXCEPT !.open = FALSE].open
      BY <1>0 DEF Rows
    <2> QED
      BY <1>0, <1>1, <2>1, <2>2, <2>3 DEF CloseRow
  <1>2. CASE v.pc = "mark"
    <2>1. Executed(v) = MarkRows(v.at[1])
      BY <1>2 DEF Executed
    <2>2. \A j \in DOMAIN alerts : [alerts[j] EXCEPT !.cause = "child"] \in Rows
      BY <1>0 DEF Rows
    <2>3. \A j \in DOMAIN alerts :
            /\ [alerts[j] EXCEPT !.cause = "child"].key = alerts[j].key
            /\ [alerts[j] EXCEPT !.cause = "child"].open = alerts[j].open
      BY <1>0 DEF Rows
    <2> QED
      BY <1>0, <1>2, <2>1, <2>2, <2>3 DEF MarkRows
  <1>3. CASE v.pc = "insert"
    <2> DEFINE row == Row(v.at, IF v.root THEN "root" ELSE "none")
    <2>1. Executed(v) = IF v.id \in DOMAIN alerts THEN alerts
                        ELSE Put(alerts, v.id, row)
      BY <1>3 DEF Executed, InsertRow
    <2>2. row \in Rows /\ row.key = v.at
      BY <1>3 DEF Row, Rows
    <2>3. v.id \in Ids
      BY DEF Evaluation
    <2> HIDE DEF row
    <2>4. CASE v.id \in DOMAIN alerts
      BY <1>0, <1>3, <2>1, <2>4
    <2>5. CASE v.id \notin DOMAIN alerts
      <3> DEFINE t == Put(alerts, v.id, row)
      <3>1. /\ DOMAIN t = DOMAIN alerts \cup {v.id} /\ DOMAIN t \subseteq Ids
            /\ t \in [DOMAIN t -> Rows] /\ t[v.id] = row
            /\ \A j \in DOMAIN alerts : j # v.id => t[j] = alerts[j]
        BY <1>0, <2>2, <2>3 DEF Put
      <3> HIDE DEF t
      <3>2. Executed(v) = t
        BY <2>1, <2>5 DEF t
      <3> QED
        BY <1>3, <2>2, <2>5, <3>1, <3>2
    <2> QED
      BY <2>4, <2>5
  <1>4. CASE v.pc \notin {"clear", "sibling", "mark", "insert"}
    BY <1>0, <1>4 DEF Executed
  <1> QED
    BY <1>1, <1>2, <1>3, <1>4

-----------------------------------------------------------------------------
(* Types.  TypeOK is not inductive: an INSERT is typed only because what it *)
(* fires is a key and not the origin of the scan.                           *)

EvOK ==
  /\ ev \in [Evals -> Evaluation]
  /\ \A e \in Evals : /\ ev[e].seen \subseteq DOMAIN alerts
                      /\ ev[e].pc \in {"sibling", "mark", "insert"} => ev[e].at \in Keys

TypeInv == TypeOK /\ EvOK

LEMMA EvOKStep ==
  ASSUME EvOK, NEW e \in Evals, NEW w \in Evaluation, ev' = [ev EXCEPT ![e] = w],
         DOMAIN alerts \subseteq DOMAIN alerts', w.seen \subseteq DOMAIN alerts',
         w.pc \in {"sibling", "mark", "insert"} => w.at \in Keys
  PROVE  EvOK'
  BY DEF EvOK

\* The continuation of an evaluation keeps the types.
LEMMA ResumeEvOK ==
  ASSUME EvOK, counter \in Ids, NEW e \in Evals, NEW v \in Evaluation,
         v.seen \subseteq DOMAIN alerts, NEW m, OpenMap(m), Resume(e, v, m),
         alerts' = alerts
  PROVE  EvOK' /\ counter' \in Ids
  <1>1. PICK w \in Evaluation :
           /\ ev' = [ev EXCEPT ![e] = w] /\ w.seen \subseteq v.seen /\ Sound(w, m)
           /\ counter' = counter \/ counter' = counter + 1
    BY ResumeType DEF EvOK
  <1>2. EvOK'
    BY <1>1, EvOKStep DEF Sound
  <1> QED
    BY <1>1, <1>2 DEF Ids

LEMMA TypeInit == Init => TypeInv
  <1> SUFFICES ASSUME Init PROVE TypeInv
    OBVIOUS
  <1>1. EvOK
    BY IdleType DEF Init, EvOK
  <1>2. /\ DOMAIN openAlerts \subseteq Keys /\ openAlerts \in [DOMAIN openAlerts -> Ids]
        /\ DOMAIN alerts \subseteq Ids /\ alerts \in [DOMAIN alerts -> Rows]
    BY DEF Init
  <1>3. initialized \in BOOLEAN /\ deviceIds \in BOOLEAN
    <2>1. initialized = FALSE /\ deviceIds = FALSE
      BY DEF Init
    <2> QED
      BY <2>1
  <1>6. notices \subseteq Ids \X Keys /\ level \in [Devices -> Levels]
    BY DEF Init
  <1>5. counter \in Ids
    BY DEF Init, Ids
  <1>4. /\ faults \in 0..MaxFaults /\ changes \in 0..MaxChanges
        /\ restarts \in 0..MaxRestarts
    BY ConstantsAssumption DEF Init
  <1> QED
    BY <1>1, <1>2, <1>3, <1>4, <1>5, <1>6 DEF TypeInv, TypeOK, EvOK, Rows

LEMMA TypeStep == TypeInv /\ [Next]_vars => TypeInv'
  <1> SUFFICES ASSUME TypeInv, [Next]_vars PROVE TypeInv'
    OBVIOUS
  <1> USE DEF TypeInv
  <1>0. OpenMap(openAlerts) /\ Table(alerts)
    BY DEF TypeOK, OpenMap, Table, Rows
  <1>1. ASSUME NEW e \in Evals, Tick(e) PROVE TypeInv'
    <2> DEFINE v == [Idle EXCEPT !.snap = level]
    <2>1. v \in Evaluation /\ v.seen = {} /\ v.pc = "idle"
      BY IdleType DEF TypeOK, Evaluation
    <2>2. /\ Sent(v, "sync") \in Evaluation /\ Sent(v, "sync").seen = {}
          /\ Sent(v, "sync").pc = "sync"
          /\ Sent(v, "load") \in Evaluation /\ Sent(v, "load").seen = {}
          /\ Sent(v, "load").pc = "load"
      BY <2>1, SentType, Zenon DEF Queries
    <2> HIDE DEF v
    <2>3. /\ UNCHANGED <<openAlerts, initialized, deviceIds, alerts, notices, level, budget>>
          /\ \/ Become(e, Sent(v, "sync")) /\ counter' = counter
             \/ Become(e, Sent(v, "load")) /\ counter' = counter
             \/ Resume(e, v, openAlerts)
      BY <1>1 DEF Tick, v
    <2>4. EvOK' /\ counter' \in Ids
      <3>1. CASE Become(e, Sent(v, "sync")) /\ counter' = counter
        BY <2>2, <2>3, <3>1, EvOKStep DEF Become, TypeOK
      <3>2. CASE Become(e, Sent(v, "load")) /\ counter' = counter
        BY <2>2, <2>3, <3>2, EvOKStep DEF Become, TypeOK
      <3>3. CASE Resume(e, v, openAlerts)
        BY <1>0, <2>1, <2>3, <3>3, ResumeEvOK DEF TypeOK
      <3> QED
        BY <2>3, <3>1, <3>2, <3>3
    <2> QED
      BY <2>3, <2>4 DEF TypeOK, EvOK, budget
  <1>2. ASSUME NEW e \in Evals, Answer(e) PROVE TypeInv'
    <2> DEFINE w == [ev[e] EXCEPT !.reply = "ok",
                                  !.seen = IF ev[e].pc = "sync" THEN OpenIds ELSE {}]
    <2>1. ev[e] \in Evaluation /\ (ev[e].pc \in {"sibling", "mark", "insert"} => ev[e].at \in Keys)
      BY DEF EvOK
    <2>2. OpenIds \subseteq DOMAIN alerts /\ OpenIds \subseteq Ids
      BY DEF OpenIds, TypeOK
    <2>3. /\ w \in Evaluation /\ w.pc = ev[e].pc /\ w.at = ev[e].at
          /\ w.seen \subseteq DOMAIN alerts
      BY <2>1, <2>2 DEF Evaluation
    <2>4. /\ alerts' = Executed(ev[e]) /\ ev' = [ev EXCEPT ![e] = w]
          /\ UNCHANGED <<memory, notices, level, budget>>
      BY <1>2 DEF Answer, Become
    <2> HIDE DEF w
    <2>5. Table(alerts') /\ DOMAIN alerts \subseteq DOMAIN alerts'
      BY <2>1, <2>4, ExecutedType
    <2>6. EvOK'
      BY <2>1, <2>3, <2>4, <2>5, EvOKStep
    <2> QED
      BY <2>4, <2>5, <2>6 DEF TypeOK, EvOK, Table, Rows, budget, memory
  <1>3. ASSUME NEW e \in Evals, Fault(e) PROVE TypeInv'
    <2> DEFINE w == [ev[e] EXCEPT !.reply = "error"]
    <2>1. ev[e] \in Evaluation /\ (ev[e].pc \in {"sibling", "mark", "insert"} => ev[e].at \in Keys)
          /\ ev[e].seen \subseteq DOMAIN alerts
      BY DEF EvOK
    <2>2. w \in Evaluation /\ w.pc = ev[e].pc /\ w.at = ev[e].at /\ w.seen = ev[e].seen
      BY <2>1 DEF Evaluation
    <2>3. /\ alerts' = alerts \/ alerts' = Executed(ev[e])
          /\ ev' = [ev EXCEPT ![e] = w]
          /\ faults < MaxFaults /\ faults' = faults + 1
          /\ UNCHANGED <<memory, notices, level, changes, restarts>>
      BY <1>3 DEF Fault, Become
    <2> HIDE DEF w
    <2>4. Table(alerts') /\ DOMAIN alerts \subseteq DOMAIN alerts'
      BY <1>0, <2>1, <2>3, ExecutedType
    <2>5. EvOK'
      BY <2>1, <2>2, <2>3, <2>4, EvOKStep
    <2>6. faults' \in 0..MaxFaults
      BY <2>3, ConstantsAssumption DEF TypeOK
    <2> QED
      BY <2>3, <2>4, <2>5, <2>6 DEF TypeOK, EvOK, Table, Rows, memory
  <1>4. ASSUME NEW e \in Evals, Reply(e) PROVE TypeInv'
    <2>0. ev[e] \in Evaluation /\ ev[e].seen \subseteq DOMAIN alerts
      BY DEF EvOK
    <2>1. CASE SyncReply(e)
      <3> DEFINE v == [ev[e] EXCEPT !.seen = {}]
      <3>1. v \in Evaluation /\ v.seen = {}
        BY <2>0 DEF Evaluation
      <3> HIDE DEF v
      <3>2. OpenMap(openAlerts')
        BY <1>0, <2>0, <2>1, MergesType DEF SyncReply
      <3>3. EvOK' /\ counter' \in Ids
        <4>1. CASE Become(e, Sent(v, "load")) /\ UNCHANGED counter
          <5>1. /\ Sent(v, "load") \in Evaluation /\ Sent(v, "load").seen = {}
                /\ Sent(v, "load").pc = "load"
            BY <3>1, SentType DEF Queries
          <5> QED
            BY <2>1, <4>1, <5>1, EvOKStep DEF Become, SyncReply, TypeOK
        <4>2. CASE Resume(e, v, openAlerts')
          BY <2>1, <3>1, <3>2, <4>2, ResumeEvOK DEF SyncReply, TypeOK
        <4> QED
          BY <2>1, <4>1, <4>2 DEF SyncReply, v
      <3> QED
        BY <2>1, <3>2, <3>3 DEF TypeOK, EvOK, OpenMap, SyncReply, budget
    <2>2. CASE LoadReply(e)
      <3>1. EvOK' /\ counter' \in Ids /\ deviceIds' \in BOOLEAN
        <4>1. CASE deviceIds' = TRUE /\ Resume(e, ev[e], openAlerts)
          BY <1>0, <2>0, <2>2, <4>1, ResumeEvOK DEF LoadReply, TypeOK
        <4>2. CASE Become(e, Idle) /\ UNCHANGED <<counter, deviceIds>>
          BY <2>2, <4>2, IdleType, EvOKStep DEF Become, LoadReply, TypeOK
        <4> QED
          BY <2>2, <4>1, <4>2 DEF LoadReply
      <3> QED
        BY <2>2, <3>1 DEF TypeOK, EvOK, LoadReply, budget
    <2>3. CASE ClearReply(e)
      <3>1. OpenMap(openAlerts')
        BY <1>0, <2>3, DropOpen DEF ClearReply
      <3>2. EvOK' /\ counter' \in Ids
        BY <2>0, <2>3, <3>1, ResumeEvOK DEF ClearReply, TypeOK
      <3> QED
        BY <2>3, <3>1, <3>2 DEF TypeOK, EvOK, OpenMap, ClearReply, budget
    <2>4. CASE SiblingReply(e)
      <3>0. ev[e].at \in Keys /\ alerts' = alerts
        BY <2>4 DEF SiblingReply, EvOK
      <3>1. OpenMap(openAlerts')
        BY <1>0, <2>4, DropOpen DEF SiblingReply
      <3>2. EvOK' /\ counter' \in Ids
        <4>1. CASE ClearSibling(e, ev[e], openAlerts', ev[e].sib)
          <5>1. ev[e].sib \in 0..(Top + 1)
            BY <2>0, ConstantsAssumption DEF Evaluation
          <5>2. PICK w \in Evaluation : /\ ev' = [ev EXCEPT ![e] = w]
                                        /\ w.seen = ev[e].seen /\ Sound(w, openAlerts')
                                        /\ w.pc = "sibling" /\ counter' = counter
            BY <2>0, <3>0, <3>1, <4>1, <5>1, ClearSiblingType DEF EvOK
          <5>3. w.at \in Keys
            BY <5>2 DEF Sound
          <5> QED
            BY <2>0, <3>0, <5>2, <5>3, EvOKStep DEF TypeOK
        <4>2. CASE ev[e].at \notin DOMAIN openAlerts' /\ Fire(e, ev[e], openAlerts')
          <5>1. PICK w \in Evaluation : /\ ev' = [ev EXCEPT ![e] = w]
                                        /\ w.seen = ev[e].seen /\ Sound(w, openAlerts')
                                        /\ w.pc \in {"mark", "insert"}
                                        /\ counter' = counter + 1
            BY <2>0, <3>0, <3>1, <4>2, FireType DEF EvOK, TypeOK
          <5>2. w.at \in Keys /\ counter' \in Ids
            BY <5>1 DEF Sound, TypeOK, Ids
          <5> QED
            BY <2>0, <3>0, <5>1, <5>2, EvOKStep
        <4>3. CASE Resume(e, ev[e], openAlerts')
          BY <2>0, <2>4, <3>1, <4>3, ResumeEvOK DEF SiblingReply, TypeOK
        <4> QED
          BY <2>4, <4>1, <4>2, <4>3 DEF SiblingReply
      <3> QED
        BY <2>4, <3>1, <3>2 DEF TypeOK, EvOK, OpenMap, SiblingReply, budget
    <2>5. CASE MarkReply(e)
      <3>1. /\ Sent(ev[e], "insert") \in Evaluation /\ Sent(ev[e], "insert").at = ev[e].at
            /\ Sent(ev[e], "insert").seen = ev[e].seen
        BY <2>0, SentType DEF Queries
      <3>2. EvOK'
        BY <2>0, <2>5, <3>1, EvOKStep DEF Become, MarkReply, EvOK
      <3> QED
        BY <2>5, <3>2 DEF TypeOK, EvOK, MarkReply, memory, budget
    <2>6. CASE InsertReply(e)
      <3>1. ev[e].at \in Keys /\ ev[e].id \in Ids
        BY <2>0, <2>6 DEF InsertReply, EvOK, Evaluation
      <3>2. OpenMap(openAlerts')
        <4>1. CASE openAlerts' = Put(openAlerts, ev[e].at, ev[e].id)
          BY <1>0, <3>1, <4>1, PutOpen
        <4>2. CASE openAlerts' = openAlerts
          BY <1>0, <4>2
        <4> QED
          BY <2>6, <4>1, <4>2 DEF InsertReply
      <3>4. notices' \subseteq Ids \X Keys
        BY <2>6, <3>1 DEF InsertReply, TypeOK
      <3>3. EvOK' /\ counter' \in Ids
        BY <2>0, <2>6, <3>2, ResumeEvOK DEF InsertReply, TypeOK
      <3> QED
        BY <2>6, <3>2, <3>3, <3>4 DEF TypeOK, EvOK, OpenMap, InsertReply, budget
    <2> QED
      BY <1>4, <2>1, <2>2, <2>3, <2>4, <2>5, <2>6 DEF Reply
  <1>5. ASSUME NEW d \in Devices, LevelChange(d) PROVE TypeInv'
    <2>1. level' \in [Devices -> Levels] /\ changes' \in 0..MaxChanges
      BY <1>5, ConstantsAssumption DEF LevelChange, TypeOK
    <2> QED
      BY <1>5, <2>1 DEF LevelChange, TypeOK, EvOK, memory
  <1>6. CASE Restart
    <2>1. EvOK'
      BY <1>6, IdleType DEF Restart, EvOK
    <2>2. /\ DOMAIN openAlerts' \subseteq Keys
          /\ openAlerts' \in [DOMAIN openAlerts' -> Ids]
      BY <1>6 DEF Restart
    <2>4. counter' \in Ids
      BY <1>6 DEF Restart, Ids
    <2>5. initialized' \in BOOLEAN /\ deviceIds' \in BOOLEAN
      <3>1. initialized' = FALSE /\ deviceIds' = FALSE
        BY <1>6 DEF Restart
      <3> QED
        BY <3>1
    <2>3. restarts' \in 0..MaxRestarts
      BY <1>6, ConstantsAssumption DEF Restart, TypeOK
    <2> QED
      BY <1>6, <2>1, <2>2, <2>3, <2>4, <2>5 DEF Restart, TypeOK, EvOK
  <1>7. CASE UNCHANGED vars
    BY <1>7 DEF vars, memory, budget, TypeOK, EvOK
  <1> QED
    BY <1>1, <1>2, <1>3, <1>4, <1>5, <1>6, <1>7 DEF Next

\* TypeOK: the types hold whatever fails, overlaps or restarts.
THEOREM TypeCorrect == Spec => []TypeOK
  <1>1. TypeInv => TypeOK
    BY DEF TypeInv
  <1> QED
    BY <1>1, TypeInit, TypeStep, PTL DEF Spec

-----------------------------------------------------------------------------
(* One evaluation at a time: no two open rows for a key, none untracked.    *)

\* Evaluations do not overlap, the SELECT of syncFromDb does not fail and the
\* reply of an INSERT that was executed is not lost.  Everything else may
\* fail, and the process may restart at any moment.
Serial ==
  /\ \A e, f \in Evals : e = f
  /\ "sync" \notin MayFail \cup MayLose
  /\ "insert" \notin MayLose

\* The map m knows every open row under its own id.
Known(m) == \A i \in OpenIds : alerts[i].key \in DOMAIN m /\ m[alerts[i].key] = i

\* What holds of an evaluation between two steps: its query is sound for the
\* map, it has synced unless it is about to, the rows it read to sync are the
\* open ones, and the row it has cleared is closed.
EvalInv(e) ==
  /\ Sound(ev[e], openAlerts)
  /\ ev[e].pc \notin {"idle", "sync"} => initialized
  /\ ev[e].pc = "sync" => /\ ev[e].reply # "error"
                          /\ ev[e].reply = "ok" => ev[e].seen = OpenIds
  /\ ev[e].pc \in {"clear", "sibling"} /\ ev[e].reply = "ok" => ev[e].id \notin OpenIds

SerialInv ==
  /\ TypeInv
  /\ OneOpenPerKey
  /\ Tracked
  /\ \A e \in Evals : EvalInv(e)

\* An evaluation that has just sent a query, or ended, with the table as it
\* was and a map that knows its open rows.
LEMMA Settled ==
  ASSUME Serial, EvOK, OneOpenPerKey, NEW e \in Evals, NEW w \in Evaluation,
         ev' = [ev EXCEPT ![e] = w], w.reply = "none", Sound(w, openAlerts'),
         w.pc \notin {"idle", "sync"} => initialized',
         alerts' = alerts, initialized' => Known(openAlerts')
  PROVE  OneOpenPerKey' /\ Tracked' /\ \A f \in Evals : EvalInv(f)'
  <1>1. OpenIds' = OpenIds
    BY DEF OpenIds
  <1>2. ev'[e] = w
    BY DEF EvOK
  <1>3. OneOpenPerKey'
    BY <1>1 DEF OneOpenPerKey
  <1>4. Tracked'
    BY <1>1 DEF Tracked, Known
  <1>5. EvalInv(e)'
    BY <1>2 DEF EvalInv, Sound
  <1> QED
    BY <1>3, <1>4, <1>5 DEF Serial

LEMMA SettledByResume ==
  ASSUME Serial, EvOK, OneOpenPerKey, counter \in Ids, NEW e \in Evals,
         NEW v \in Evaluation, OpenMap(openAlerts'), Resume(e, v, openAlerts'),
         alerts' = alerts, initialized' = TRUE, Known(openAlerts')
  PROVE  OneOpenPerKey' /\ Tracked' /\ \A f \in Evals : EvalInv(f)'
  <1>1. PICK w \in Evaluation :
          ev' = [ev EXCEPT ![e] = w] /\ w.reply = "none" /\ Sound(w, openAlerts')
    BY ResumeType DEF EvOK
  <1> QED
    BY <1>1, Settled

\* Between two INSERTs the map of a synced evaluator knows the open rows.
LEMMA KnownUnlessInsert ==
  ASSUME Serial, Tracked, initialized, NEW e \in Evals,
         ~(ev[e].pc = "insert" /\ ev[e].reply = "ok")
  PROVE  Known(openAlerts)
  BY DEF Serial, Tracked, Known

LEMMA SerialInit == Init => SerialInv
  <1> SUFFICES ASSUME Init PROVE SerialInv
    OBVIOUS
  <1>1. TypeInv
    BY TypeInit
  <1>2. OpenIds = {}
    BY DEF Init, OpenIds
  <1>3. OneOpenPerKey /\ Tracked
    BY <1>2 DEF OneOpenPerKey, Tracked
  <1>4. \A e \in Evals : ev[e].pc = "idle"
    BY IdleType DEF Init
  <1> QED
    BY <1>1, <1>3, <1>4 DEF SerialInv, EvalInv, Sound

\* The database answers the one evaluation there is.
LEMMA SerialAnswer ==
  ASSUME Serial, SerialInv, TypeInv', NEW e \in Evals, Answer(e)
  PROVE  SerialInv'
  <1> DEFINE v == ev[e]
             w == [ev[e] EXCEPT !.reply = "ok",
                                !.seen = IF ev[e].pc = "sync" THEN OpenIds ELSE {}]
  <1>1. /\ v \in Evaluation /\ EvalInv(e) /\ v.pc # "idle" /\ v.reply = "none"
        /\ v.pc \in {"sibling", "mark", "insert"} => v.at \in Keys
    BY DEF SerialInv, TypeInv, EvOK, Answer
  <1>2. /\ w.pc = v.pc /\ w.at = v.at /\ w.id = v.id /\ w.sib = v.sib
        /\ w.reply = "ok"
        /\ w.pc = "sync" => w.seen = OpenIds
    BY <1>1 DEF Evaluation
  <1>3. /\ alerts' = Executed(v) /\ UNCHANGED memory
        /\ ev' = [ev EXCEPT ![e] = w]
    BY DEF Answer, Become
  <1>4. ev'[e] = w
    BY <1>3 DEF SerialInv, TypeInv, EvOK
  <1> HIDE DEF w
  <1>5. /\ \A i \in DOMAIN alerts :
              /\ i \in DOMAIN alerts'
              /\ alerts'[i].key = alerts[i].key
              /\ alerts'[i].open => alerts[i].open
        /\ v.pc # "insert" => DOMAIN alerts' = DOMAIN alerts
        /\ v.pc \in {"clear", "sibling"} /\ v.id \in DOMAIN alerts => ~alerts'[v.id].open
        /\ v.pc = "insert" =>
             /\ DOMAIN alerts' = DOMAIN alerts \cup {v.id}
             /\ v.id \notin DOMAIN alerts => alerts'[v.id].key = v.at
    BY <1>1, <1>3, ExecutedType DEF SerialInv, TypeInv
  <1> HIDE DEF v
  <1>6. CASE v.pc # "insert"
    <2>1. OpenIds' \subseteq OpenIds
      BY <1>5, <1>6 DEF OpenIds
    <2>2. OneOpenPerKey'
      BY <1>5, <2>1 DEF SerialInv, OneOpenPerKey, OpenIds
    <2>3. Tracked'
      <3> SUFFICES ASSUME initialized' PROVE Known(openAlerts)'
        BY DEF Tracked, Known
      <3>1. Known(openAlerts)
        BY <1>3, <1>6, KnownUnlessInsert DEF SerialInv, v, memory
      <3> QED
        BY <1>3, <1>5, <2>1, <3>1 DEF Known, OpenIds, memory
    <2>4. EvalInv(e)'
      <3>1. v.pc = "sync" => OpenIds' = OpenIds
        BY <1>3 DEF Executed, OpenIds
      <3>2. v.pc \in {"clear", "sibling"} => v.id \notin OpenIds'
        BY <1>5 DEF OpenIds
      <3> QED
        BY <1>1, <1>2, <1>3, <1>4, <3>1, <3>2 DEF EvalInv, Sound, v, memory
    <2> QED
      BY <2>2, <2>3, <2>4 DEF SerialInv, Serial
  <1>7. CASE v.pc = "insert"
    <2>1. initialized /\ v.at \notin DOMAIN openAlerts
      BY <1>1, <1>7 DEF EvalInv, Sound, v
    <2>2. Known(openAlerts)
      BY <1>1, <2>1, KnownUnlessInsert DEF SerialInv, v
    <2>3. \A i \in OpenIds' : i \in OpenIds \/ (i = v.id /\ alerts'[i].key = v.at)
      BY <1>5, <1>7 DEF OpenIds
    <2>4. \A i \in OpenIds : alerts'[i].key = alerts[i].key /\ alerts[i].key # v.at
      BY <1>5, <2>1, <2>2 DEF OpenIds, Known
    <2>5. OneOpenPerKey'
      BY <2>3, <2>4 DEF SerialInv, OneOpenPerKey
    <2>6. Tracked'
      BY <1>2, <1>3, <1>4, <1>7, <2>2, <2>3, <2>4 DEF Tracked, Known, memory
    <2>7. EvalInv(e)'
      BY <1>1, <1>2, <1>3, <1>4, <1>7 DEF EvalInv, Sound, v, memory
    <2> QED
      BY <2>5, <2>6, <2>7 DEF SerialInv, Serial
  <1> QED
    BY <1>6, <1>7

\* A query fails, or its reply is lost: not that of a sync, and an INSERT
\* then was not executed.
LEMMA SerialFault ==
  ASSUME Serial, SerialInv, TypeInv', NEW e \in Evals, Fault(e)
  PROVE  SerialInv'
  <1> DEFINE v == ev[e]
             w == [ev[e] EXCEPT !.reply = "error"]
  <1>1. /\ v \in Evaluation /\ EvalInv(e) /\ v.pc # "idle" /\ v.reply = "none"
        /\ v.pc \in {"sibling", "mark", "insert"} => v.at \in Keys
    BY DEF SerialInv, TypeInv, EvOK, Fault
  <1>2. w.pc = v.pc /\ w.at = v.at /\ w.id = v.id /\ w.sib = v.sib /\ w.reply = "error"
    BY <1>1 DEF Evaluation
  <1>3. /\ (v.pc # "insert" /\ alerts' = Executed(v)) \/ alerts' = alerts
        /\ v.pc # "sync"
        /\ ev' = [ev EXCEPT ![e] = w]
        /\ UNCHANGED memory
    BY DEF Fault, Become, Serial
  <1>4. ev'[e] = w
    BY <1>3 DEF SerialInv, TypeInv, EvOK
  <1> HIDE DEF w
  <1>5. /\ DOMAIN alerts' = DOMAIN alerts
        /\ \A i \in DOMAIN alerts : /\ alerts'[i].key = alerts[i].key
                                    /\ alerts'[i].open => alerts[i].open
    BY <1>1, <1>3, ExecutedType DEF SerialInv, TypeInv
  <1>6. OpenIds' \subseteq OpenIds
    BY <1>5 DEF OpenIds
  <1>7. OneOpenPerKey'
    BY <1>5, <1>6 DEF SerialInv, OneOpenPerKey, OpenIds
  <1>8. Tracked'
    <2> SUFFICES ASSUME initialized' PROVE Known(openAlerts)'
      BY DEF Tracked, Known
    <2>1. Known(openAlerts)
      BY <1>1, <1>3, KnownUnlessInsert DEF SerialInv, memory
    <2> QED
      BY <1>3, <1>5, <1>6, <2>1 DEF Known, OpenIds, memory
  <1>9. EvalInv(e)'
    BY <1>1, <1>2, <1>3, <1>4 DEF EvalInv, Sound, memory
  <1> QED
    BY <1>7, <1>8, <1>9 DEF SerialInv, Serial

LEMMA SerialTick ==
  ASSUME Serial, SerialInv, TypeInv', NEW e \in Evals, Tick(e)
  PROVE  SerialInv'
  <1> DEFINE v == [Idle EXCEPT !.snap = level]
  <1>1. v \in Evaluation
    BY IdleType DEF SerialInv, TypeInv, TypeOK, Evaluation
  <1>2. /\ Sent(v, "sync") \in Evaluation /\ Sent(v, "sync").pc = "sync"
        /\ Sent(v, "sync").reply = "none"
        /\ Sent(v, "load") \in Evaluation /\ Sent(v, "load").pc = "load"
        /\ Sent(v, "load").reply = "none"
    BY <1>1, SentType DEF Queries
  <1> HIDE DEF v
  <1>3. /\ UNCHANGED <<openAlerts, initialized, alerts>>
        /\ ev[e].pc = "idle"
        /\ \/ Become(e, Sent(v, "sync"))
           \/ initialized /\ Become(e, Sent(v, "load"))
           \/ initialized /\ Resume(e, v, openAlerts)
    BY DEF Tick, v
  <1>4. initialized' => Known(openAlerts')
    BY <1>3, KnownUnlessInsert DEF SerialInv
  <1>5. EvOK /\ OneOpenPerKey /\ counter \in Ids /\ OpenMap(openAlerts')
    BY <1>3 DEF SerialInv, TypeInv, TypeOK, OpenMap
  <1>6. CASE Become(e, Sent(v, "sync"))
    <2>1. Sound(Sent(v, "sync"), openAlerts')
      BY <1>2 DEF Sound
    <2> QED
      BY <1>2, <1>3, <1>4, <1>5, <1>6, <2>1, Settled DEF SerialInv, Become
  <1>7. CASE initialized /\ Become(e, Sent(v, "load"))
    <2>1. Sound(Sent(v, "load"), openAlerts')
      BY <1>2 DEF Sound
    <2> QED
      BY <1>2, <1>3, <1>4, <1>5, <1>7, <2>1, Settled DEF SerialInv, Become
  <1>8. CASE initialized /\ Resume(e, v, openAlerts)
    BY <1>1, <1>3, <1>4, <1>5, <1>8, SettledByResume DEF SerialInv, TypeInv, TypeOK
  <1> QED
    BY <1>3, <1>6, <1>7, <1>8

\* Dropping the key of a closed row.
LEMMA KnownDrop ==
  ASSUME NEW m, OpenMap(m), Known(m), NEW k \in DOMAIN m, m[k] \notin OpenIds
  PROVE  Known(Drop(m, k))
  BY DEF Drop, Known

LEMMA SerialReply ==
  ASSUME Serial, SerialInv, TypeInv', NEW e \in Evals, Reply(e)
  PROVE  SerialInv'
  <1> DEFINE v == ev[e]
  <1>1. /\ v \in Evaluation /\ EvalInv(e) /\ v.seen \subseteq DOMAIN alerts
        /\ v.pc \in {"sibling", "mark", "insert"} => v.at \in Keys
    BY DEF SerialInv, TypeInv, EvOK
  <1>2. EvOK /\ OneOpenPerKey /\ counter \in Ids /\ OpenMap(openAlerts) /\ TypeOK
    BY DEF SerialInv, TypeInv, TypeOK, OpenMap
  <1>3. OpenMap(openAlerts')
    BY DEF TypeInv, TypeOK, OpenMap
  <1>4. alerts' = alerts
    BY DEF Reply, SyncReply, LoadReply, ClearReply, SiblingReply, MarkReply, InsertReply
  <1>5. CASE SyncReply(e)
    <2> DEFINE u == [v EXCEPT !.seen = {}]
    <2>1. u \in Evaluation
      BY <1>1 DEF Evaluation
    <2>2. v.seen = OpenIds /\ openAlerts' \in Merges(openAlerts, v.seen)
      BY <1>1, <1>5 DEF SyncReply, EvalInv
    <2>3. Known(openAlerts')
      <3> SUFFICES ASSUME NEW i \in OpenIds
                   PROVE  /\ alerts[i].key \in DOMAIN openAlerts'
                          /\ openAlerts'[alerts[i].key] = i
        BY DEF Known
      <3>1. /\ alerts[i].key \in DOMAIN openAlerts'
            /\ openAlerts'[alerts[i].key] \in OpenIds
            /\ alerts[openAlerts'[alerts[i].key]].key = alerts[i].key
        <4>1. openAlerts' \in Merges(openAlerts, OpenIds) /\ OpenIds \subseteq DOMAIN alerts
          BY <2>2 DEF OpenIds
        <4> HIDE DEF v
        <4> QED
          BY <1>2, <4>1, MergesType
      <3> QED
        BY <1>2, <3>1 DEF OneOpenPerKey
    <2> HIDE DEF u
    <2>4. /\ initialized' = TRUE
          /\ Become(e, Sent(u, "load")) \/ Resume(e, u, openAlerts')
      BY <1>5 DEF SyncReply, u
    <2>5. CASE Become(e, Sent(u, "load"))
      <3>1. /\ Sent(u, "load") \in Evaluation /\ Sent(u, "load").pc = "load"
            /\ Sent(u, "load").reply = "none"
        BY <2>1, SentType DEF Queries
      <3>2. Sound(Sent(u, "load"), openAlerts')
        BY <3>1 DEF Sound
      <3> QED
        BY <1>2, <1>4, <2>3, <2>4, <2>5, <3>1, <3>2, Settled DEF SerialInv, Become
    <2>6. CASE Resume(e, u, openAlerts')
      BY <1>2, <1>3, <1>4, <2>1, <2>3, <2>4, <2>6, SettledByResume DEF SerialInv
    <2> QED
      BY <2>4, <2>5, <2>6
  <1>6. ASSUME v.pc \notin {"idle", "sync"}, initialized' = initialized
        PROVE  initialized /\ initialized' = TRUE
    <2>1. initialized
      BY <1>1, <1>6 DEF EvalInv
    <2> QED
      BY <1>2, <1>6, <2>1 DEF TypeOK
  <1>7. CASE LoadReply(e)
    <2>1. /\ v.pc = "load" /\ initialized' = initialized /\ openAlerts' = openAlerts
          /\ Resume(e, v, openAlerts') \/ Become(e, Idle)
      BY <1>7 DEF LoadReply
    <2>2. initialized' = TRUE /\ Known(openAlerts')
      BY <1>6, <2>1, KnownUnlessInsert DEF SerialInv
    <2>3. CASE Resume(e, v, openAlerts')
      BY <1>1, <1>2, <1>3, <1>4, <2>2, <2>3, SettledByResume DEF SerialInv
    <2>4. CASE Become(e, Idle)
      <3>1. Sound(Idle, openAlerts')
        BY IdleType DEF Sound
      <3> QED
        BY <1>2, <1>4, <2>2, <2>4, <3>1, IdleType, Settled DEF SerialInv, Become
    <2> QED
      BY <2>1, <2>3, <2>4
  <1>8. CASE ClearReply(e)
    <2>1. /\ v.pc = "clear" /\ initialized' = initialized
          /\ openAlerts' = IF v.reply = "ok" THEN Drop(openAlerts, v.at) ELSE openAlerts
          /\ Resume(e, v, openAlerts')
      BY <1>8 DEF ClearReply
    <2>2. initialized' = TRUE /\ Known(openAlerts)
      BY <1>6, <2>1, KnownUnlessInsert DEF SerialInv
    <2>3. v.at \in DOMAIN openAlerts /\ (v.reply = "ok" => openAlerts[v.at] \notin OpenIds)
      BY <1>1, <2>1 DEF EvalInv, Sound
    <2>4. Known(openAlerts')
      BY <1>2, <2>1, <2>2, <2>3, KnownDrop
    <2> QED
      BY <1>1, <1>2, <1>3, <1>4, <2>1, <2>2, <2>4, SettledByResume DEF SerialInv
  <1>9. CASE SiblingReply(e)
    <2> DEFINE k == <<v.at[1], v.sib>>
    <2>1. /\ v.pc = "sibling" /\ initialized' = initialized
          /\ openAlerts' = IF v.reply = "ok" THEN Drop(openAlerts, k) ELSE openAlerts
          /\ \/ ClearSibling(e, v, openAlerts', v.sib)
             \/ v.at \notin DOMAIN openAlerts' /\ Fire(e, v, openAlerts')
             \/ Resume(e, v, openAlerts')
      BY <1>9 DEF SiblingReply
    <2>2. initialized' = TRUE /\ Known(openAlerts)
      BY <1>6, <2>1, KnownUnlessInsert DEF SerialInv
    <2>3. k \in DOMAIN openAlerts /\ (v.reply = "ok" => openAlerts[k] \notin OpenIds)
      BY <1>1, <2>1 DEF EvalInv, Sound
    <2> HIDE DEF k
    <2>4. Known(openAlerts')
      BY <1>2, <2>1, <2>2, <2>3, KnownDrop
    <2>5. v.at \in Keys /\ v.sib \in 0..(Top + 1)
      BY <1>1, <2>1, ConstantsAssumption DEF Evaluation
    <2>6. CASE ClearSibling(e, v, openAlerts', v.sib)
      <3>1. PICK w \in Evaluation : /\ ev' = [ev EXCEPT ![e] = w] /\ w.reply = "none"
                                    /\ Sound(w, openAlerts')
        BY <1>1, <1>2, <1>3, <2>5, <2>6, ClearSiblingType DEF EvOK
      <3> QED
        BY <1>2, <1>4, <2>2, <2>4, <3>1, Settled DEF SerialInv
    <2>7. CASE v.at \notin DOMAIN openAlerts' /\ Fire(e, v, openAlerts')
      <3>1. PICK w \in Evaluation : /\ ev' = [ev EXCEPT ![e] = w] /\ w.reply = "none"
                                    /\ Sound(w, openAlerts')
        BY <1>1, <1>2, <1>3, <2>5, <2>7, FireType DEF EvOK
      <3> QED
        BY <1>2, <1>4, <2>2, <2>4, <3>1, Settled DEF SerialInv
    <2>8. CASE Resume(e, v, openAlerts')
      BY <1>1, <1>2, <1>3, <1>4, <2>2, <2>4, <2>8, SettledByResume DEF SerialInv
    <2> QED
      BY <2>1, <2>6, <2>7, <2>8
  <1>10. CASE MarkReply(e)
    <2>1. /\ v.pc = "mark" /\ initialized' = initialized /\ openAlerts' = openAlerts
          /\ Become(e, Sent(v, "insert"))
      BY <1>10 DEF MarkReply, memory
    <2>2. initialized' = TRUE /\ Known(openAlerts')
      BY <1>6, <2>1, KnownUnlessInsert DEF SerialInv
    <2>3. /\ Sent(v, "insert") \in Evaluation /\ Sent(v, "insert").pc = "insert"
          /\ Sent(v, "insert").reply = "none" /\ Sent(v, "insert").at = v.at
      BY <1>1, SentType DEF Queries
    <2>4. Sound(Sent(v, "insert"), openAlerts')
      BY <1>1, <2>1, <2>3 DEF EvalInv, Sound
    <2> QED
      BY <1>2, <1>4, <2>1, <2>2, <2>3, <2>4, Settled DEF SerialInv, Become
  <1>11. CASE InsertReply(e)
    <2>1. /\ v.pc = "insert" /\ initialized' = initialized /\ Resume(e, v, openAlerts')
          /\ \/ v.reply = "ok" /\ openAlerts' = Put(openAlerts, v.at, v.id)
             \/ v.reply = "error" /\ openAlerts' = openAlerts
      BY <1>11 DEF InsertReply
    <2>2. initialized' = TRUE /\ initialized
      BY <1>6, <2>1
    <2>3. v.at \in Keys /\ v.id \in Ids /\ v.at \notin DOMAIN openAlerts
      BY <1>1, <2>1 DEF EvalInv, Sound, Evaluation
    <2>4. CASE v.reply = "ok" /\ openAlerts' = Put(openAlerts, v.at, v.id)
      <3>1. \A i \in OpenIds : \/ alerts[i].key \in DOMAIN openAlerts
                                  /\ openAlerts[alerts[i].key] = i
                               \/ v.id = i /\ v.at = alerts[i].key
        BY <2>2 DEF SerialInv, Tracked, Serial
      <3>2. /\ DOMAIN openAlerts' = DOMAIN openAlerts \cup {v.at}
            /\ openAlerts'[v.at] = v.id
            /\ \A j \in DOMAIN openAlerts : j # v.at => openAlerts'[j] = openAlerts[j]
        BY <2>4 DEF Put
      <3>3. Known(openAlerts')
        BY <2>3, <3>1, <3>2 DEF Known
      <3> QED
        BY <1>1, <1>2, <1>3, <1>4, <2>1, <2>2, <3>3, SettledByResume DEF SerialInv
    <2>5. CASE v.reply = "error" /\ openAlerts' = openAlerts
      <3>1. Known(openAlerts')
        BY <2>2, <2>5, KnownUnlessInsert DEF SerialInv
      <3> QED
        BY <1>1, <1>2, <1>3, <1>4, <2>1, <2>2, <3>1, SettledByResume DEF SerialInv
    <2> QED
      BY <2>1, <2>4, <2>5
  <1> QED
    BY <1>5, <1>7, <1>8, <1>9, <1>10, <1>11 DEF Reply

LEMMA SerialStep == Serial /\ SerialInv /\ [Next]_vars => SerialInv'
  <1> SUFFICES ASSUME Serial, SerialInv, [Next]_vars PROVE SerialInv'
    OBVIOUS
  <1>1. TypeInv'
    BY TypeStep DEF SerialInv
  <1>2. ASSUME NEW e \in Evals, Tick(e) \/ Answer(e) \/ Fault(e) \/ Reply(e)
        PROVE  SerialInv'
    BY <1>1, <1>2, SerialTick, SerialAnswer, SerialFault, SerialReply
  <1>3. ASSUME NEW d \in Devices, LevelChange(d) PROVE SerialInv'
    <2>1. UNCHANGED <<openAlerts, initialized, alerts, ev>>
      BY <1>3 DEF LevelChange, memory
    <2> QED
      BY <1>1, <2>1 DEF SerialInv, OneOpenPerKey, Tracked, EvalInv, Sound, OpenIds
  <1>4. CASE Restart
    <2>1. /\ alerts' = alerts /\ ~initialized'
          /\ \A e \in Evals : ev'[e].pc = "idle"
      BY <1>4, IdleType DEF Restart
    <2>2. OpenIds' = OpenIds
      BY <2>1 DEF OpenIds
    <2> QED
      BY <1>1, <2>1, <2>2 DEF SerialInv, OneOpenPerKey, Tracked, EvalInv, Sound
  <1>5. CASE UNCHANGED vars
    BY <1>1, <1>5 DEF vars, memory, SerialInv, OneOpenPerKey, Tracked, EvalInv, Sound, OpenIds
  <1> QED
    BY <1>2, <1>3, <1>4, <1>5 DEF Next

\* OneOpenPerKey and Tracked: as long as evaluations do not overlap, a device
\* has at most one open row for a rule, and the evaluator can clear every open
\* row, whatever queries fail and however often the process restarts.
THEOREM SerialCorrect == ASSUME Serial PROVE Spec => []OneOpenPerKey /\ []Tracked
  <1>1. Init => SerialInv
    BY SerialInit
  <1>2. SerialInv /\ [Next]_vars => SerialInv'
    BY SerialStep
  <1>3. SerialInv => OneOpenPerKey /\ Tracked
    BY DEF SerialInv
  <1> QED
    BY <1>1, <1>2, <1>3, PTL DEF Spec

\* Tracked: an evaluator whose evaluations do not overlap can clear every open
\* row, also after failures and restarts.
COROLLARY TrackedCorrect == ASSUME Serial PROVE Spec => []Tracked
  BY SerialCorrect, PTL

-----------------------------------------------------------------------------
(* The rules of a group exclude each other.                                 *)

\* The UPDATE that clears a sibling does not fail (its reply may be lost).
SiblingsClear == Serial /\ "sibling" \notin MayFail

\* Row i is of another rule of the group of k, on the same device.
Rival(i, k) == alerts[i].key[1] = k[1] /\ alerts[i].key[2] > 0 /\ alerts[i].key[2] # k[2]

\* An evaluation clears its siblings from the severest down: no rival above
\* the one at hand is open, and none at all once the INSERT is sent.
GroupEval(v) ==
  /\ v.pc = "sibling" =>
       /\ v.at[2] > 0
       /\ \A i \in OpenIds :
            Rival(i, v.at) => \/ alerts[i].key[2] < v.sib
                              \/ v.reply = "none" /\ alerts[i].key[2] = v.sib
  /\ v.pc = "mark" => v.at[2] = 0
  /\ v.pc = "insert" /\ v.reply = "none" /\ v.at[2] > 0 =>
       \A i \in OpenIds : ~Rival(i, v.at)

GroupInv == SerialInv /\ GroupExclusive /\ \A e \in Evals : GroupEval(ev[e])

\* What the map shows of a rival of k, the table holds: a map that knows the
\* open rows lists every rival as a sibling.
LEMMA RivalIsSibling ==
  ASSUME TypeOK, NEW m, Known(m), NEW k \in Keys, k[2] > 0,
         NEW i \in OpenIds, Rival(i, k), NEW b \in 0..(Top + 1), alerts[i].key[2] < b
  PROVE  alerts[i].key[2] \in Siblings(k, m, b)
  <1>1. alerts[i].key \in Keys /\ alerts[i].key \in DOMAIN m
    BY DEF TypeOK, OpenIds, Known
  <1>2. alerts[i].key = <<k[1], alerts[i].key[2]>> /\ alerts[i].key[2] \in 0..Top
    BY <1>1 DEF Rival, Keys, Rules
  <1>3. alerts[i].key[2] \in 1..(b - 1)
    BY <1>2, ConstantsAssumption DEF Rival
  <1>4. k[2] # 0 /\ alerts[i].key[2] # k[2]
    BY DEF Rival, Keys, Rules
  <1>5. <<k[1], alerts[i].key[2]>> \in DOMAIN m
    BY <1>1, <1>2
  <1> QED
    BY <1>3, <1>4, <1>5 DEF Siblings

\* The aims of an evaluation, computed from such a map, hold of the table.
LEMMA GroupByAims ==
  ASSUME TypeOK, NEW m, Known(m), NEW w \in Evaluation, w.reply = "none",
         Sound(w, m), Aims(w, m)
  PROVE  GroupEval(w)
  <1>1. Top + 1 \in 0..(Top + 1) /\ Top \in Nat
    BY ConstantsAssumption
  <1>2. \A i \in OpenIds : alerts[i].key[2] \in 0..Top
    BY DEF TypeOK, OpenIds, Keys, Rules
  <1>3. w.at \in Keys => w.at[2] \in 0..Top
    BY DEF Keys, Rules
  <1>4. CASE w.pc = "sibling"
    <2>1. w.at \in Keys /\ w.sib \in Siblings(w.at, m, Top + 1) /\ w.sib \in 0..Top
      BY <1>4 DEF Sound, Aims, Evaluation
    <2>2. w.at[2] > 0
      BY <1>3, <2>1 DEF Siblings
    <2>3. ASSUME NEW i \in OpenIds, Rival(i, w.at)
          PROVE  alerts[i].key[2] < w.sib \/ alerts[i].key[2] = w.sib
      <3>1. alerts[i].key[2] \in Siblings(w.at, m, Top + 1)
        BY <1>1, <1>2, <2>1, <2>2, <2>3, RivalIsSibling
      <3>2. alerts[i].key[2] <= w.sib
        BY <1>4, <3>1 DEF Aims
      <3> QED
        BY <1>2, <2>1, <3>2
    <2> QED
      BY <1>4, <2>2, <2>3 DEF GroupEval
  <1>5. CASE w.pc = "insert"
    <2>1. w.at \in Keys /\ Siblings(w.at, m, Top + 1) = {}
      BY <1>5 DEF Sound, Aims
    <2>2. ASSUME w.at[2] > 0, NEW i \in OpenIds, Rival(i, w.at) PROVE FALSE
      BY <1>1, <1>2, <2>1, <2>2, RivalIsSibling
    <2> QED
      BY <1>5, <2>2 DEF GroupEval
  <1>6. CASE w.pc = "mark"
    BY <1>6 DEF Aims, GroupEval
  <1> QED
    BY <1>4, <1>5, <1>6 DEF GroupEval

\* The table as it was, and an evaluation that has moved on.
LEMMA GroupSettled ==
  ASSUME Serial, EvOK, GroupExclusive, NEW e \in Evals, NEW w \in Evaluation,
         ev' = [ev EXCEPT ![e] = w], alerts' = alerts, GroupEval(w)
  PROVE  GroupExclusive' /\ \A f \in Evals : GroupEval(ev[f])'
  <1>1. OpenIds' = OpenIds
    BY DEF OpenIds
  <1>2. ev'[e] = w
    BY DEF EvOK
  <1>3. GroupExclusive'
    BY <1>1 DEF GroupExclusive
  <1>4. GroupEval(ev[e])'
    BY <1>1, <1>2 DEF GroupEval, Rival
  <1> QED
    BY <1>3, <1>4 DEF Serial

\* After a step that sends a query, the map knows the open rows.
LEMMA KnownNext ==
  ASSUME Serial, SerialInv', NEW e \in Evals, alerts' = alerts,
         ev'[e].pc \notin {"idle", "sync"}, ev'[e].reply = "none"
  PROVE  Known(openAlerts')
  <1>1. initialized' /\ Tracked'
    BY DEF SerialInv, EvalInv
  <1>2. OpenIds' = OpenIds
    BY DEF OpenIds
  <1> QED
    BY <1>1, <1>2 DEF Tracked, Known, Serial

LEMMA GroupByResume ==
  ASSUME Serial, GroupInv, SerialInv', NEW e \in Evals, NEW v \in Evaluation,
         OpenMap(openAlerts'), Resume(e, v, openAlerts'), alerts' = alerts
  PROVE  GroupExclusive' /\ \A f \in Evals : GroupEval(ev[f])'
  <1>1. EvOK /\ TypeOK /\ counter \in Ids /\ GroupExclusive
    BY DEF GroupInv, SerialInv, TypeInv, TypeOK
  <1>2. PICK w \in Evaluation :
          /\ ev' = [ev EXCEPT ![e] = w] /\ w.reply = "none"
          /\ w.pc \in {"idle", "sibling", "mark", "insert", "clear"}
          /\ Sound(w, openAlerts') /\ Aims(w, openAlerts')
    BY <1>1, ResumeType DEF EvOK
  <1>3. ev'[e] = w
    BY <1>1, <1>2 DEF EvOK
  <1>4. GroupEval(w)
    <2>1. CASE w.pc = "idle"
      BY <2>1 DEF GroupEval
    <2>2. CASE w.pc # "idle"
      <3>1. Known(openAlerts')
        BY <1>2, <1>3, <2>2, KnownNext
      <3> QED
        BY <1>1, <1>2, <3>1, GroupByAims
    <2> QED
      BY <2>1, <2>2
  <1> QED
    BY <1>1, <1>2, <1>4, GroupSettled

\* The rows that are open after a query were open before, but for the one an
\* INSERT adds; the row that a sibling's UPDATE names is closed.
LEMMA OpenAfter ==
  ASSUME TypeOK, NEW v \in Evaluation, v.pc \in {"mark", "insert"} => v.at \in Keys,
         alerts' = Executed(v)
  PROVE  /\ \A i \in OpenIds' : \/ i \in OpenIds /\ alerts'[i].key = alerts[i].key
                                \/ /\ v.pc = "insert" /\ i = v.id /\ i \notin DOMAIN alerts
                                   /\ alerts'[i].key = v.at
         /\ v.pc = "sibling" => v.id \notin OpenIds'
  <1>1. /\ \A i \in DOMAIN alerts : /\ i \in DOMAIN alerts'
                                    /\ alerts'[i].key = alerts[i].key
                                    /\ alerts'[i].open => alerts[i].open
        /\ v.pc # "insert" => DOMAIN alerts' = DOMAIN alerts
        /\ v.pc = "sibling" /\ v.id \in DOMAIN alerts => ~alerts'[v.id].open
        /\ v.pc = "insert" => /\ DOMAIN alerts' = DOMAIN alerts \cup {v.id}
                              /\ v.id \notin DOMAIN alerts => alerts'[v.id].key = v.at
    BY ExecutedType
  <1> QED
    BY <1>1 DEF OpenIds

LEMMA GroupQuery ==
  ASSUME SiblingsClear, GroupInv, NEW e \in Evals, Answer(e) \/ Fault(e)
  PROVE  GroupExclusive' /\ \A f \in Evals : GroupEval(ev[f])'
  <1> DEFINE v == ev[e]
  <1>1. /\ v \in Evaluation /\ GroupEval(v) /\ EvalInv(e) /\ v.pc # "idle"
        /\ v.reply = "none" /\ TypeOK /\ GroupExclusive /\ Tracked
        /\ v.pc \in {"sibling", "mark", "insert"} => v.at \in Keys
        /\ ev \in [Evals -> Evaluation]
    BY DEF GroupInv, SerialInv, TypeInv, EvOK, Answer, Fault
  <1>2. PICK w : /\ ev' = [ev EXCEPT ![e] = w] /\ w.reply # "none"
                 /\ w.pc = v.pc /\ w.at = v.at /\ w.sib = v.sib
    <2>1. CASE Answer(e)
      <3> DEFINE w == [ev[e] EXCEPT !.reply = "ok",
                                    !.seen = IF ev[e].pc = "sync" THEN OpenIds ELSE {}]
      <3>1. w.pc = v.pc /\ w.at = v.at /\ w.sib = v.sib /\ w.reply = "ok"
        BY <1>1 DEF Evaluation
      <3> QED
        BY <2>1, <3>1 DEF Answer, Become
    <2>2. CASE Fault(e)
      <3> DEFINE w == [ev[e] EXCEPT !.reply = "error"]
      <3>1. w.pc = v.pc /\ w.at = v.at /\ w.sib = v.sib /\ w.reply = "error"
        BY <1>1 DEF Evaluation
      <3> QED
        BY <2>2, <3>1 DEF Fault, Become
    <2> QED
      BY <2>1, <2>2
  <1>3. ev'[e] = w
    BY <1>1, <1>2
  <1>4. alerts' = Executed(v) \/ (alerts' = alerts /\ v.pc # "sibling")
    BY DEF Answer, Fault, SiblingsClear
  <1> HIDE DEF v
  <1>5. /\ \A i \in OpenIds' : \/ i \in OpenIds /\ alerts'[i].key = alerts[i].key
                               \/ /\ v.pc = "insert" /\ i = v.id /\ i \notin DOMAIN alerts
                                  /\ alerts'[i].key = v.at
        /\ v.pc = "sibling" => v.id \notin OpenIds'
    <2>1. CASE alerts' = Executed(v)
      BY <1>1, <2>1, OpenAfter
    <2>2. CASE alerts' = alerts /\ v.pc # "sibling"
      BY <2>2 DEF OpenIds
    <2> QED
      BY <1>4, <2>1, <2>2
  <1>6. GroupExclusive'
    <2> SUFFICES ASSUME NEW i \in OpenIds', NEW j \in OpenIds',
                        alerts'[i].key[1] = alerts'[j].key[1],
                        alerts'[i].key[2] > 0, alerts'[j].key[2] > 0
                 PROVE  alerts'[i].key[2] = alerts'[j].key[2]
      BY DEF GroupExclusive
    <2>1. CASE i \in OpenIds /\ alerts'[i].key = alerts[i].key
               /\ j \in OpenIds /\ alerts'[j].key = alerts[j].key
      BY <1>1, <2>1 DEF GroupExclusive
    <2>2. ASSUME NEW x \in OpenIds, alerts'[x].key = alerts[x].key,
                 v.pc = "insert", v.at[2] > 0, alerts'[x].key[1] = v.at[1],
                 alerts'[x].key[2] > 0
          PROVE  alerts'[x].key[2] = v.at[2]
      BY <1>1, <2>2 DEF GroupEval, Rival
    <2> QED
      BY <1>5, <2>1, <2>2
  <1>7. GroupEval(ev[e])'
    <2>1. ASSUME v.pc = "sibling"
          PROVE  /\ v.at[2] > 0
                 /\ \A i \in OpenIds' :
                      /\ alerts'[i].key[1] = v.at[1] /\ alerts'[i].key[2] > 0
                      /\ alerts'[i].key[2] # v.at[2]
                      => alerts'[i].key[2] < v.sib
      <3>1. /\ initialized /\ <<v.at[1], v.sib>> \in DOMAIN openAlerts
            /\ v.id = openAlerts[<<v.at[1], v.sib>>]
        BY <1>1, <2>1 DEF EvalInv, Sound, v
      <3>2. Known(openAlerts)
        BY <1>1, <2>1, <3>1, KnownUnlessInsert DEF SiblingsClear, v
      <3> SUFFICES ASSUME NEW i \in OpenIds',
                          alerts'[i].key[1] = v.at[1], alerts'[i].key[2] > 0,
                          alerts'[i].key[2] # v.at[2]
                   PROVE  alerts'[i].key[2] < v.sib
        BY <1>1, <2>1 DEF GroupEval
      <3>3. i \in OpenIds /\ alerts'[i].key = alerts[i].key /\ i # v.id
        BY <1>5, <2>1
      <3>4. alerts[i].key[2] < v.sib \/ alerts[i].key[2] = v.sib
        BY <1>1, <2>1, <3>3 DEF GroupEval, Rival
      <3>5. alerts[i].key = <<alerts[i].key[1], alerts[i].key[2]>>
        BY <1>1, <3>3 DEF TypeOK, OpenIds, Keys
      <3> QED
        BY <3>1, <3>2, <3>3, <3>4, <3>5 DEF Known
    <2>2. v.pc = "mark" => v.at[2] = 0
      BY <1>1 DEF GroupEval
    <2> QED
      BY <1>2, <1>3, <2>1, <2>2 DEF GroupEval, Rival
  <1> QED
    BY <1>6, <1>7 DEF SiblingsClear, Serial

LEMMA GroupTick ==
  ASSUME Serial, GroupInv, SerialInv', NEW e \in Evals, Tick(e)
  PROVE  GroupExclusive' /\ \A f \in Evals : GroupEval(ev[f])'
  <1> DEFINE v == [Idle EXCEPT !.snap = level]
  <1>1. v \in Evaluation
    BY IdleType DEF GroupInv, SerialInv, TypeInv, TypeOK, Evaluation
  <1>2. /\ Sent(v, "sync") \in Evaluation /\ Sent(v, "sync").pc = "sync"
        /\ Sent(v, "load") \in Evaluation /\ Sent(v, "load").pc = "load"
    BY <1>1, SentType DEF Queries
  <1> HIDE DEF v
  <1>3. /\ UNCHANGED <<openAlerts, alerts>>
        /\ Become(e, Sent(v, "sync")) \/ Become(e, Sent(v, "load")) \/ Resume(e, v, openAlerts)
    BY DEF Tick, v
  <1>4. EvOK /\ GroupExclusive /\ OpenMap(openAlerts')
    BY <1>3 DEF GroupInv, SerialInv, TypeInv, TypeOK, OpenMap
  <1>5. GroupEval(Sent(v, "sync")) /\ GroupEval(Sent(v, "load"))
    BY <1>2 DEF GroupEval
  <1>6. CASE Become(e, Sent(v, "sync"))
    BY <1>2, <1>3, <1>4, <1>5, <1>6, GroupSettled DEF Become
  <1>7. CASE Become(e, Sent(v, "load"))
    BY <1>2, <1>3, <1>4, <1>5, <1>7, GroupSettled DEF Become
  <1>8. CASE Resume(e, v, openAlerts)
    BY <1>1, <1>3, <1>4, <1>8, GroupByResume
  <1> QED
    BY <1>3, <1>6, <1>7, <1>8

\* clearAlert of a sibling has returned: the next one is the severest left,
\* or none is left.
LEMMA GroupSibling ==
  ASSUME Serial, GroupInv, SerialInv', NEW e \in Evals, SiblingReply(e)
  PROVE  GroupExclusive' /\ \A f \in Evals : GroupEval(ev[f])'
  <1> DEFINE v == ev[e]
  <1>1. /\ v \in Evaluation /\ GroupEval(v) /\ EvOK /\ GroupExclusive /\ TypeOK
        /\ v.pc = "sibling" /\ v.reply # "none" /\ v.at \in Keys /\ counter \in Ids
        /\ ev \in [Evals -> Evaluation] /\ alerts' = alerts
    BY DEF GroupInv, SerialInv, TypeInv, TypeOK, EvOK, SiblingReply
  <1>2. OpenMap(openAlerts')
    BY DEF SerialInv, TypeInv, TypeOK, OpenMap
  <1>3. /\ v.at[2] > 0 /\ v.sib \in 0..(Top + 1)
        /\ \A i \in OpenIds : Rival(i, v.at) => alerts[i].key[2] < v.sib
    BY <1>1, ConstantsAssumption DEF GroupEval, Evaluation
  <1>4. \/ ClearSibling(e, v, openAlerts', v.sib)
        \/ /\ Siblings(v.at, openAlerts', v.sib) = {} /\ v.at \notin DOMAIN openAlerts'
           /\ Fire(e, v, openAlerts')
        \/ Resume(e, v, openAlerts')
    BY DEF SiblingReply
  <1> HIDE DEF v
  <1>5. CASE ClearSibling(e, v, openAlerts', v.sib)
    <2>1. PICK w \in Evaluation :
            /\ ev' = [ev EXCEPT ![e] = w] /\ w.pc = "sibling" /\ w.reply = "none"
            /\ w.at = v.at /\ w.sib \in 0..Top
            /\ \A s \in Siblings(v.at, openAlerts', v.sib) : s <= w.sib
      BY <1>1, <1>2, <1>3, <1>5, ClearSiblingType DEF Evaluation
    <2>2. ev'[e] = w
      BY <1>1, <2>1
    <2>3. Known(openAlerts')
      BY <1>1, <2>1, <2>2, KnownNext
    <2>4. ASSUME NEW i \in OpenIds, Rival(i, v.at)
          PROVE  alerts[i].key[2] < w.sib \/ alerts[i].key[2] = w.sib
      <3>1. alerts[i].key[2] \in Siblings(v.at, openAlerts', v.sib)
        BY <1>1, <1>3, <2>3, <2>4, RivalIsSibling
      <3>2. alerts[i].key[2] <= w.sib /\ alerts[i].key[2] \in Int
        BY <2>1, <3>1 DEF Siblings
      <3> QED
        BY <2>1, <3>2
    <2>5. GroupEval(w)
      BY <1>3, <2>1, <2>4 DEF GroupEval
    <2> QED
      BY <1>1, <2>1, <2>5, GroupSettled
  <1>6. CASE /\ Siblings(v.at, openAlerts', v.sib) = {} /\ v.at \notin DOMAIN openAlerts'
             /\ Fire(e, v, openAlerts')
    <2>1. PICK w \in Evaluation :
            /\ ev' = [ev EXCEPT ![e] = w] /\ w.pc \in {"mark", "insert"}
            /\ w.reply = "none" /\ w.at = v.at
            /\ w.pc = "mark" <=> w.root
            /\ w.root => w.at[2] = 0
      BY <1>1, <1>2, <1>6, FireType
    <2>2. ev'[e] = w
      BY <1>1, <2>1
    <2>3. Known(openAlerts')
      BY <1>1, <2>1, <2>2, KnownNext
    <2>4. ASSUME NEW i \in OpenIds, Rival(i, v.at) PROVE FALSE
      BY <1>1, <1>3, <1>6, <2>3, <2>4, RivalIsSibling
    <2>5. GroupEval(w)
      BY <1>3, <2>1, <2>4 DEF GroupEval
    <2> QED
      BY <1>1, <2>1, <2>5, GroupSettled
  <1>7. CASE Resume(e, v, openAlerts')
    BY <1>1, <1>2, <1>7, GroupByResume
  <1> QED
    BY <1>4, <1>5, <1>6, <1>7

LEMMA GroupReply ==
  ASSUME Serial, GroupInv, SerialInv', NEW e \in Evals, Reply(e)
  PROVE  GroupExclusive' /\ \A f \in Evals : GroupEval(ev[f])'
  <1> DEFINE v == ev[e]
             u == [v EXCEPT !.seen = {}]
  <1>1. v \in Evaluation /\ GroupEval(v) /\ EvOK /\ GroupExclusive
    BY DEF GroupInv, SerialInv, TypeInv, EvOK
  <1>2. OpenMap(openAlerts')
    BY DEF SerialInv, TypeInv, TypeOK, OpenMap
  <1>3. u \in Evaluation
    BY <1>1 DEF Evaluation
  <1> HIDE DEF u
  <1>4. /\ Sent(u, "load") \in Evaluation /\ GroupEval(Sent(u, "load"))
        /\ Sent(v, "insert") \in Evaluation
        /\ v.pc = "mark" => GroupEval(Sent(v, "insert"))
        /\ Idle \in Evaluation /\ GroupEval(Idle)
    BY <1>1, <1>3, SentType, IdleType DEF GroupEval, Queries
  <1>5. CASE SiblingReply(e)
    BY <1>5, GroupSibling
  <1>6. CASE ~SiblingReply(e)
    <2>1. /\ alerts' = alerts
          /\ \/ Become(e, Sent(u, "load"))
             \/ v.pc = "mark" /\ Become(e, Sent(v, "insert"))
             \/ Become(e, Idle)
             \/ Resume(e, u, openAlerts') \/ Resume(e, v, openAlerts')
      BY <1>6 DEF Reply, SyncReply, LoadReply, ClearReply, MarkReply, InsertReply, u
    <2>2. CASE Become(e, Sent(u, "load"))
      BY <1>1, <1>4, <2>1, <2>2, GroupSettled DEF Become
    <2>3. CASE v.pc = "mark" /\ Become(e, Sent(v, "insert"))
      BY <1>1, <1>4, <2>1, <2>3, GroupSettled DEF Become
    <2>4. CASE Become(e, Idle)
      BY <1>1, <1>4, <2>1, <2>4, GroupSettled DEF Become
    <2>5. CASE Resume(e, u, openAlerts')
      BY <1>2, <1>3, <2>1, <2>5, GroupByResume
    <2>6. CASE Resume(e, v, openAlerts')
      BY <1>1, <1>2, <2>1, <2>6, GroupByResume
    <2> QED
      BY <2>1, <2>2, <2>3, <2>4, <2>5, <2>6
  <1> QED
    BY <1>5, <1>6

LEMMA GroupInit == Init => GroupInv
  <1> SUFFICES ASSUME Init PROVE GroupInv
    OBVIOUS
  <1>1. OpenIds = {} /\ \A e \in Evals : ev[e].pc = "idle"
    BY IdleType DEF Init, OpenIds
  <1> QED
    BY <1>1, SerialInit DEF GroupInv, GroupExclusive, GroupEval

LEMMA GroupStep == SiblingsClear /\ GroupInv /\ [Next]_vars => GroupInv'
  <1> SUFFICES ASSUME SiblingsClear, GroupInv, [Next]_vars PROVE GroupInv'
    OBVIOUS
  <1>1. SerialInv' /\ Serial
    BY SerialStep DEF SiblingsClear, GroupInv
  <1>2. ASSUME NEW e \in Evals, Tick(e) \/ Answer(e) \/ Fault(e) \/ Reply(e)
        PROVE  GroupInv'
    BY <1>1, <1>2, GroupTick, GroupQuery, GroupReply DEF GroupInv
  <1>3. CASE (\E d \in Devices : LevelChange(d)) \/ UNCHANGED vars
    <2>1. UNCHANGED <<alerts, ev>>
      BY <1>3 DEF LevelChange, vars
    <2> QED
      BY <1>1, <2>1 DEF GroupInv, GroupExclusive, GroupEval, Rival, OpenIds
  <1>4. CASE Restart
    <2>1. alerts' = alerts /\ \A e \in Evals : ev'[e].pc = "idle"
      BY <1>4, IdleType DEF Restart
    <2> QED
      BY <1>1, <2>1 DEF GroupInv, GroupExclusive, GroupEval, OpenIds
  <1> QED
    BY <1>2, <1>3, <1>4 DEF Next

\* GroupExclusive: as long as evaluations do not overlap and the UPDATE of a
\* sibling does not fail, a device has open rows of one rule of its escalation
\* group at most, whatever else fails and however often the process restarts.
THEOREM GroupCorrect == ASSUME SiblingsClear PROVE Spec => []GroupExclusive
  <1>1. Init => GroupInv
    BY GroupInit
  <1>2. GroupInv /\ [Next]_vars => GroupInv'
    BY GroupStep
  <1>3. GroupInv => GroupExclusive
    BY DEF GroupInv
  <1> QED
    BY <1>1, <1>2, <1>3, PTL DEF Spec

-----------------------------------------------------------------------------
(* The table keeps the ledger: the evaluator refines AlertLedger.           *)

\* What open and raised of the ledger are in the table.
OpenKeys    == {alerts[i].key : i \in OpenIds}
RowsOf(k)   == {i \in DOMAIN alerts : alerts[i].key = k}
RaisedTimes == [k \in Keys |-> Cardinality(RowsOf(k))]

LedgerInv == GroupInv /\ IsFiniteSet(DOMAIN alerts)

\* The rows and their keys are the ones there were.
SameKeys == DOMAIN alerts' = DOMAIN alerts
            /\ \A i \in DOMAIN alerts : alerts'[i].key = alerts[i].key

LEMMA SameRaised ==
  ASSUME SameKeys
  PROVE  RaisedTimes' = RaisedTimes
  <1>1. \A k : RowsOf(k)' = RowsOf(k)
    BY DEF RowsOf, SameKeys
  <1> QED
    BY <1>1 DEF RaisedTimes

\* UPDATE alerts SET cleared_at = now() WHERE id = i.
LEMMA ClosedRow ==
  ASSUME TypeOK, NEW i, alerts' = CloseRow(i)
  PROVE  SameKeys /\ OpenIds' = OpenIds \ {i}
  <1>1. \A j \in DOMAIN alerts : /\ [alerts[j] EXCEPT !.open = FALSE].key = alerts[j].key
                                 /\ ~[alerts[j] EXCEPT !.open = FALSE].open
    BY DEF TypeOK
  <1> QED
    BY <1>1 DEF CloseRow, SameKeys, OpenIds

\* The UPDATE that marks the open rows of other devices as CHILD.
LEMMA MarkedRows ==
  ASSUME TypeOK, NEW d, alerts' = MarkRows(d)
  PROVE  SameKeys /\ OpenIds' = OpenIds
  <1>1. \A j \in DOMAIN alerts :
          /\ [alerts[j] EXCEPT !.cause = "child"].key = alerts[j].key
          /\ [alerts[j] EXCEPT !.cause = "child"].open = alerts[j].open
    BY DEF TypeOK
  <1> QED
    BY <1>1 DEF MarkRows, SameKeys, OpenIds

\* The INSERT of a row whose id is free.
LEMMA NewRow ==
  ASSUME NEW i, i \notin DOMAIN alerts, NEW k, NEW c, alerts' = Put(alerts, i, Row(k, c))
  PROVE  /\ DOMAIN alerts' = DOMAIN alerts \cup {i}
         /\ alerts'[i].key = k
         /\ \A j \in DOMAIN alerts : alerts'[j] = alerts[j]
         /\ OpenIds' = OpenIds \cup {i}
  <1>1. /\ DOMAIN alerts' = DOMAIN alerts \cup {i} /\ alerts'[i] = Row(k, c)
        /\ \A j \in DOMAIN alerts : alerts'[j] = alerts[j]
    BY DEF Put
  <1>2. Row(k, c).key = k /\ Row(k, c).open
    BY DEF Row
  <1> QED
    BY <1>1, <1>2 DEF OpenIds

\* An INSERT that takes effect raises its key in the ledger.
LEMMA InsertRaises ==
  ASSUME LedgerInv, NEW e \in Evals, ev[e].pc = "insert", ev[e].reply = "none", Serial,
         NEW k, k = ev[e].at, NEW i, i = ev[e].id, i \notin DOMAIN alerts, NEW c,
         alerts' = Put(alerts, i, Row(k, c))
  PROVE  k \in Keys /\ Ledger!Raise(k) /\ IsFiniteSet(DOMAIN alerts')
  <1>1. /\ TypeOK /\ Tracked /\ EvalInv(e) /\ GroupEval(ev[e]) /\ IsFiniteSet(DOMAIN alerts)
        /\ k \in Keys /\ k \notin DOMAIN openAlerts
    BY DEF LedgerInv, GroupInv, SerialInv, TypeInv, EvalInv, Sound
  <1>2. Known(openAlerts)
    BY <1>1, KnownUnlessInsert DEF EvalInv
  <1>3. /\ DOMAIN alerts' = DOMAIN alerts \cup {i} /\ alerts'[i].key = k
        /\ \A j \in DOMAIN alerts : alerts'[j] = alerts[j]
        /\ OpenIds' = OpenIds \cup {i}
    BY NewRow
  <1>4. \A j \in OpenIds : ~(alerts[j].key[1] = k[1] /\ (alerts[j].key[2] > 0 <=> k[2] > 0))
    <2> SUFFICES ASSUME NEW j \in OpenIds, alerts[j].key[1] = k[1],
                        alerts[j].key[2] > 0 <=> k[2] > 0
                 PROVE  FALSE
      OBVIOUS
    <2>1. alerts[j].key \in Keys /\ alerts[j].key \in DOMAIN openAlerts
      BY <1>1, <1>2 DEF TypeOK, OpenIds, Known
    <2>2. alerts[j].key[2] = k[2]
      <3>1. CASE k[2] > 0
        BY <1>1, <3>1 DEF GroupEval, Rival
      <3>2. CASE ~(k[2] > 0)
        BY <1>1, <2>1, <3>2, ConstantsAssumption DEF Keys, Rules
      <3> QED
        BY <3>1, <3>2
    <2>3. alerts[j].key = k
      BY <1>1, <2>1, <2>2 DEF Keys
    <2> QED
      BY <1>1, <2>1, <2>3
  <1>5. OpenKeys' = OpenKeys \cup {k}
    BY <1>3 DEF OpenKeys, OpenIds
  <1>6. RaisedTimes' = [RaisedTimes EXCEPT ![k] = @ + 1]
    <2>1. \A j \in Keys : j # k => RowsOf(j)' = RowsOf(j)
      BY <1>3 DEF RowsOf
    <2>2. RowsOf(k)' = RowsOf(k) \cup {i} /\ i \notin RowsOf(k)
      BY <1>3 DEF RowsOf
    <2>3. IsFiniteSet(RowsOf(k))
      BY <1>1, FS_Subset DEF RowsOf
    <2>4. Cardinality(RowsOf(k)') = Cardinality(RowsOf(k)) + 1
      BY <2>2, <2>3, FS_AddElement
    <2> QED
      BY <1>1, <2>1, <2>4 DEF RaisedTimes
  <1>7. \A j \in OpenKeys : [x \in Keys |-> <<x[1], x[2] > 0>>][j]
                            # [x \in Keys |-> <<x[1], x[2] > 0>>][k]
    <2> SUFFICES ASSUME NEW j \in OpenIds
                 PROVE  [x \in Keys |-> <<x[1], x[2] > 0>>][alerts[j].key]
                        # [x \in Keys |-> <<x[1], x[2] > 0>>][k]
      BY DEF OpenKeys
    <2>1. alerts[j].key \in Keys
      BY <1>1 DEF TypeOK, OpenIds
    <2>2. <<alerts[j].key[1], alerts[j].key[2] > 0>> # <<k[1], k[2] > 0>>
      BY <1>4
    <2> QED
      BY <1>1, <2>1, <2>2
  <1>8. IsFiniteSet(DOMAIN alerts')
    BY <1>1, <1>3, FS_AddElement
  <1> QED
    BY <1>1, <1>5, <1>6, <1>7, <1>8
    DEF Ledger!Raise, OpenKeys, RaisedTimes, RowsOf

\* Closing a row clears its key in the ledger, unless no open row has that id.
LEMMA CloseClears ==
  ASSUME TypeOK, OneOpenPerKey, NEW i, alerts' = CloseRow(i)
  PROVE  (\E k \in Keys : Ledger!Clear(k)) \/ UNCHANGED Ledger!ledger
  <1>1. SameKeys /\ OpenIds' = OpenIds \ {i}
    BY ClosedRow
  <1>2. RaisedTimes' = RaisedTimes
    BY <1>1, SameRaised
  <1>3. CASE i \in OpenIds
    <2>0. PICK k : k = alerts[i].key
      OBVIOUS
    <2>1. k \in Keys /\ k \in OpenKeys
      BY <1>3, <2>0 DEF TypeOK, OpenIds, OpenKeys
    <2>2. OpenKeys' = OpenKeys \ {k}
      <3>1. \A j \in OpenIds : alerts'[j].key = alerts[j].key
        BY <1>1 DEF SameKeys, OpenIds
      <3>2. \A j \in OpenIds : alerts[j].key = alerts[i].key => j = i
        BY <1>3 DEF OneOpenPerKey
      <3> QED
        BY <1>1, <2>0, <3>1, <3>2 DEF OpenKeys
    <2>3. Ledger!Clear(k)
      BY <1>2, <2>1, <2>2 DEF Ledger!Clear, OpenKeys, RaisedTimes, RowsOf
    <2> QED
      BY <2>1, <2>3
  <1>4. CASE i \notin OpenIds
    <2>1. OpenKeys' = OpenKeys
      BY <1>1, <1>4 DEF OpenKeys, SameKeys, OpenIds
    <2> QED
      BY <1>2, <2>1 DEF Ledger!ledger, OpenKeys, RaisedTimes, RowsOf
  <1> QED
    BY <1>3, <1>4

\* A query changes the ledger by one alert raised or cleared, if at all.
LEMMA LedgerQuery ==
  ASSUME SiblingsClear, LedgerInv, NEW e \in Evals, Answer(e) \/ Fault(e)
  PROVE  /\ Ledger!Next \/ UNCHANGED Ledger!ledger
         /\ IsFiniteSet(DOMAIN alerts')
  <1> DEFINE v == ev[e]
  <1>1. TypeOK /\ OneOpenPerKey /\ IsFiniteSet(DOMAIN alerts) /\ v.reply = "none"
    BY DEF LedgerInv, GroupInv, SerialInv, TypeInv, Answer, Fault
  <1>2. alerts' = Executed(v) \/ alerts' = alerts
    BY DEF Answer, Fault
  <1>3. CASE alerts' = alerts
    BY <1>1, <1>3 DEF Ledger!ledger, OpenIds
  <1>4. CASE alerts' = Executed(v) /\ v.pc \in {"clear", "sibling"}
    <2>1. alerts' = CloseRow(v.id)
      BY <1>4 DEF Executed
    <2>2. PICK i : i = v.id
      OBVIOUS
    <2>3. alerts' = CloseRow(i)
      BY <2>1, <2>2
    <2>4. (\E k \in Keys : Ledger!Clear(k)) \/ UNCHANGED Ledger!ledger
      BY <1>1, <2>3, CloseClears
    <2>5. SameKeys
      BY <1>1, <2>3, ClosedRow
    <2> QED
      BY <1>1, <2>4, <2>5 DEF Ledger!Next, SameKeys
  <1>5. CASE alerts' = Executed(v) /\ v.pc = "mark"
    <2>1. PICK d : d = v.at[1]
      OBVIOUS
    <2>2. alerts' = MarkRows(d)
      BY <1>5, <2>1 DEF Executed
    <2>3. SameKeys /\ OpenIds' = OpenIds
      BY <1>1, <2>2, MarkedRows
    <2>4. RaisedTimes' = RaisedTimes
      BY <2>3, SameRaised
    <2>5. OpenKeys' = OpenKeys
      BY <2>3 DEF OpenKeys, SameKeys, OpenIds
    <2> QED
      BY <1>1, <2>3, <2>4, <2>5 DEF Ledger!ledger, OpenKeys, RaisedTimes, RowsOf, SameKeys
  <1>6. CASE alerts' = Executed(v) /\ v.pc = "insert"
    <2>1. PICK i : i = v.id
      OBVIOUS
    <2>2. PICK k : k = v.at
      OBVIOUS
    <2>3. PICK c : c = IF v.root THEN "root" ELSE "none"
      OBVIOUS
    <2>4. alerts' = IF i \in DOMAIN alerts THEN alerts ELSE Put(alerts, i, Row(k, c))
      BY <1>6, <2>1, <2>2, <2>3 DEF Executed, InsertRow
    <2>5. CASE i \in DOMAIN alerts
      BY <1>3, <2>4, <2>5
    <2>6. CASE i \notin DOMAIN alerts
      <3>1. k \in Keys /\ Ledger!Raise(k) /\ IsFiniteSet(DOMAIN alerts')
        BY <1>1, <1>6, <2>1, <2>2, <2>4, <2>6, InsertRaises DEF SiblingsClear
      <3> QED
        BY <3>1 DEF Ledger!Next
    <2> QED
      BY <2>5, <2>6
  <1>7. CASE alerts' = Executed(v) /\ v.pc \notin {"clear", "sibling", "mark", "insert"}
    <2>1. alerts' = alerts
      BY <1>7 DEF Executed
    <2> QED
      BY <1>3, <2>1
  <1> QED
    BY <1>2, <1>3, <1>4, <1>5, <1>6, <1>7

LEMMA LedgerInit == Init => LedgerInv /\ Ledger!Init
  <1> SUFFICES ASSUME Init PROVE LedgerInv /\ Ledger!Init
    OBVIOUS
  <1>1. DOMAIN alerts = {}
    BY DEF Init
  <1>2. IsFiniteSet(DOMAIN alerts)
    BY <1>1, FS_EmptySet
  <1>3. OpenKeys = {} /\ \A k : RowsOf(k) = {}
    BY <1>1 DEF OpenKeys, OpenIds, RowsOf
  <1>4. RaisedTimes = [k \in Keys |-> 0]
    BY <1>3, FS_EmptySet DEF RaisedTimes
  <1> QED
    BY <1>2, <1>3, <1>4, GroupInit
    DEF LedgerInv, Ledger!Init, OpenKeys, RaisedTimes, RowsOf

LEMMA LedgerStep ==
  ASSUME SiblingsClear
  PROVE  LedgerInv /\ [Next]_vars => LedgerInv' /\ [Ledger!Next]_(Ledger!ledger)
  <1> SUFFICES ASSUME LedgerInv, [Next]_vars
               PROVE  LedgerInv' /\ (Ledger!Next \/ UNCHANGED Ledger!ledger)
    OBVIOUS
  <1>1. GroupInv'
    BY GroupStep DEF LedgerInv
  <1>2. ASSUME NEW e \in Evals, Answer(e) \/ Fault(e)
        PROVE  LedgerInv' /\ (Ledger!Next \/ UNCHANGED Ledger!ledger)
    BY <1>1, <1>2, LedgerQuery DEF LedgerInv
  <1>3. CASE alerts' = alerts
    BY <1>1, <1>3 DEF LedgerInv, Ledger!ledger, OpenIds
  <1>4. ASSUME NEW e \in Evals, Tick(e) \/ Reply(e) PROVE alerts' = alerts
    BY <1>4 DEF Tick, Reply, SyncReply, LoadReply, ClearReply, SiblingReply, MarkReply,
                InsertReply
  <1>5. CASE (\E d \in Devices : LevelChange(d)) \/ Restart \/ UNCHANGED vars
    <2>1. alerts' = alerts
      BY <1>5 DEF LevelChange, Restart, vars
    <2> QED
      BY <1>3, <2>1
  <1> QED
    BY <1>2, <1>3, <1>4, <1>5 DEF Next

\* KeepsLedger: as long as evaluations do not overlap and the UPDATE of a
\* sibling does not fail, fireAlert, clearAlert and clearEscalationSiblings
\* with their map, queries, failures and restarts implement AlertLedger.
THEOREM LedgerCorrect == ASSUME SiblingsClear PROVE Spec => KeepsLedger
  <1>1. Init => LedgerInv /\ Ledger!Init
    BY LedgerInit
  <1>2. LedgerInv /\ [Next]_vars => LedgerInv' /\ [Ledger!Next]_(Ledger!ledger)
    BY LedgerStep
  <1> QED
    BY <1>1, <1>2, PTL DEF Spec, KeepsLedger, Ledger!Spec

-----------------------------------------------------------------------------
(* No restart: ids are fresh, so the map and the notices name their rows,   *)
(* with any number of overlapping evaluations and any fault.                *)

Firing(v) == v.pc \in {"mark", "insert"}
Unborn(v) == v.pc = "mark" \/ (v.pc = "insert" /\ v.reply = "none")

\* The id an evaluation fires under was handed out, is not in the table before
\* its INSERT is executed, and is that of its row once the INSERT succeeded.
FreshEval(v) ==
  /\ Firing(v) => v.id < counter
  /\ Unborn(v) => v.id \notin DOMAIN alerts
  /\ v.pc = "insert" /\ v.reply = "ok" => /\ v.id \in DOMAIN alerts
                                          /\ alerts[v.id].key = v.at

FreshIds ==
  /\ \A i \in DOMAIN alerts : i < counter
  /\ \A e \in Evals : FreshEval(ev[e])
  /\ \A e, f \in Evals : e # f /\ Firing(ev[e]) /\ Firing(ev[f]) => ev[e].id # ev[f].id

FreshInv == TypeInv /\ FreshIds /\ MapNamesItsRow /\ NoticesAreRecorded

\* An evaluation that sent its next query, under the id it had, a new one or
\* none, or that has ended.
LEMMA FreshNext ==
  ASSUME TypeInv, FreshIds, NEW e \in Evals, NEW w \in Evaluation,
         ev' = [ev EXCEPT ![e] = w], alerts' = alerts, w.reply = "none",
         \/ counter' = counter /\ ~Firing(w)
         \/ counter' = counter + 1 /\ w.id = counter
         \/ counter' = counter /\ w.id = ev[e].id /\ ev[e].pc = "mark"
  PROVE  FreshIds'
  <1>1. ev'[e] = w /\ (\A f \in Evals : f # e => ev'[f] = ev[f])
    BY DEF TypeInv, EvOK
  <1>2. counter \in Nat /\ counter' \in Nat /\ counter <= counter' /\ DOMAIN alerts \subseteq Nat
    BY DEF TypeInv, TypeOK, Ids
  <1>3. \A f \in Evals : ev[f].id \in Nat
    BY DEF TypeInv, EvOK, Evaluation, Ids
  <1>4. \A i \in DOMAIN alerts' : i < counter'
    BY <1>2 DEF FreshIds
  <1>5. \A f \in Evals : f # e => FreshEval(ev[f])'
    BY <1>1, <1>2, <1>3 DEF FreshIds, FreshEval, Firing, Unborn
  <1>6. FreshEval(ev[e])'
    <2>1. Firing(w) => w.id < counter' /\ w.id \notin DOMAIN alerts
      BY <1>2, <1>3 DEF FreshIds, FreshEval, Firing, Unborn
    <2> QED
      BY <1>1, <2>1 DEF FreshEval, Firing, Unborn
  <1>7. \A f \in Evals : f # e /\ Firing(w) /\ Firing(ev[f]) => w.id # ev[f].id
    BY <1>2, <1>3 DEF FreshIds, FreshEval, Firing
  <1>8. \A f, g \in Evals :
          f # g /\ Firing(ev'[f]) /\ Firing(ev'[g]) => ev'[f].id # ev'[g].id
    BY <1>1, <1>7 DEF FreshIds
  <1> QED
    BY <1>4, <1>5, <1>6, <1>8 DEF FreshIds, Firing

LEMMA FreshByResume ==
  ASSUME TypeInv, FreshIds, NEW e \in Evals, NEW v \in Evaluation, NEW m, OpenMap(m),
         Resume(e, v, m), alerts' = alerts
  PROVE  FreshIds'
  <1>1. PICK w \in Evaluation :
          /\ ev' = [ev EXCEPT ![e] = w] /\ w.reply = "none"
          /\ \/ counter' = counter /\ w.pc \notin {"mark", "insert"}
             \/ counter' = counter + 1 /\ w.pc \in {"mark", "insert"} /\ w.id = counter
    BY ResumeType DEF TypeInv, EvOK, TypeOK
  <1> QED
    BY <1>1, FreshNext DEF Firing

\* The table keeps its keys: what named its row still does.
LEMMA NamesKept ==
  ASSUME MapNamesItsRow, NoticesAreRecorded,
         \A i \in DOMAIN alerts : i \in DOMAIN alerts' /\ alerts'[i].key = alerts[i].key,
         openAlerts' = openAlerts, notices' = notices
  PROVE  MapNamesItsRow' /\ NoticesAreRecorded'
  BY DEF MapNamesItsRow, NoticesAreRecorded

\* The query of an evaluation is executed, or fails, or its reply is lost.
LEMMA FreshQuery ==
  ASSUME FreshInv, NEW e \in Evals, Answer(e) \/ Fault(e)
  PROVE  FreshIds' /\ MapNamesItsRow' /\ NoticesAreRecorded'
  <1> DEFINE v == ev[e]
  <1>1. /\ v \in Evaluation /\ FreshEval(v) /\ v.pc # "idle" /\ v.reply = "none"
        /\ v.pc \in {"sibling", "mark", "insert"} => v.at \in Keys
    BY DEF FreshInv, FreshIds, TypeInv, EvOK, Answer, Fault
  <1>2. PICK w : /\ ev' = [ev EXCEPT ![e] = w]
                 /\ w.pc = v.pc /\ w.id = v.id /\ w.at = v.at
                 /\ (w.reply = "ok" /\ alerts' = Executed(v)) \/ w.reply = "error"
    <2>1. CASE Answer(e)
      <3> DEFINE w == [ev[e] EXCEPT !.reply = "ok",
                                    !.seen = IF ev[e].pc = "sync" THEN OpenIds ELSE {}]
      <3>1. w.pc = v.pc /\ w.id = v.id /\ w.at = v.at /\ w.reply = "ok"
        BY <1>1 DEF Evaluation
      <3> QED
        BY <2>1, <3>1 DEF Answer, Become
    <2>2. CASE Fault(e)
      <3> DEFINE w == [ev[e] EXCEPT !.reply = "error"]
      <3>1. w.pc = v.pc /\ w.id = v.id /\ w.at = v.at /\ w.reply = "error"
        BY <1>1 DEF Evaluation
      <3> QED
        BY <2>2, <3>1 DEF Fault, Become
    <2> QED
      BY <2>1, <2>2
  <1>3. /\ alerts' = Executed(v) \/ alerts' = alerts
        /\ UNCHANGED <<memory, notices>>
    BY DEF Answer, Fault
  <1>4. ev'[e] = w /\ (\A f \in Evals : f # e => ev'[f] = ev[f])
    BY <1>2 DEF FreshInv, TypeInv, EvOK
  <1>5. /\ \A i \in DOMAIN alerts : i \in DOMAIN alerts' /\ alerts'[i].key = alerts[i].key
        /\ v.pc # "insert" => DOMAIN alerts' = DOMAIN alerts
        /\ v.pc = "insert" => DOMAIN alerts' \subseteq DOMAIN alerts \cup {v.id}
        /\ v.pc = "insert" /\ w.reply = "ok" => /\ v.id \in DOMAIN alerts'
                                                /\ alerts'[v.id].key = v.at
    <2>1. TypeOK /\ (v.pc \in {"mark", "insert"} => v.at \in Keys)
      BY <1>1 DEF FreshInv, TypeInv
    <2>2. v.pc = "insert" => v.id \notin DOMAIN alerts
      BY <1>1 DEF FreshEval, Unborn
    <2> HIDE DEF v
    <2>3. CASE alerts' = Executed(v)
      BY <1>1, <2>1, <2>2, <2>3, ExecutedType
    <2>4. CASE alerts' = alerts /\ w.reply = "error"
      BY <2>4
    <2> QED
      BY <1>2, <1>3, <2>3, <2>4
  <1> HIDE DEF v
  <1>6. MapNamesItsRow' /\ NoticesAreRecorded'
    BY <1>3, <1>5, NamesKept DEF FreshInv, memory
  <1>7. \A i \in DOMAIN alerts' : i < counter'
    BY <1>1, <1>3, <1>5 DEF FreshInv, FreshIds, FreshEval, Firing, memory
  <1>8. FreshEval(ev[e])'
    BY <1>1, <1>2, <1>3, <1>4, <1>5 DEF FreshEval, Firing, Unborn, memory
  <1>9. ASSUME NEW f \in Evals, f # e PROVE FreshEval(ev[f])'
    <2>1. /\ FreshEval(ev[f]) /\ ev'[f] = ev[f] /\ counter' = counter
          /\ Firing(ev[f]) /\ Firing(v) => ev[f].id # v.id
      BY <1>3, <1>4, <1>9 DEF FreshInv, FreshIds, memory, v
    <2> QED
      BY <1>5, <2>1 DEF FreshEval, Firing, Unborn
  <1>10. \A f, g \in Evals :
           f # g /\ Firing(ev'[f]) /\ Firing(ev'[g]) => ev'[f].id # ev'[g].id
    BY <1>2, <1>4 DEF FreshInv, FreshIds, Firing, v
  <1> QED
    BY <1>6, <1>7, <1>8, <1>9, <1>10 DEF FreshIds, Firing

LEMMA FreshTick ==
  ASSUME FreshInv, NEW e \in Evals, Tick(e)
  PROVE  FreshIds' /\ MapNamesItsRow' /\ NoticesAreRecorded'
  <1> DEFINE v == [Idle EXCEPT !.snap = level]
  <1>1. v \in Evaluation
    BY IdleType DEF FreshInv, TypeInv, TypeOK, Evaluation
  <1>2. /\ Sent(v, "sync") \in Evaluation /\ Sent(v, "sync").pc = "sync"
        /\ Sent(v, "sync").reply = "none"
        /\ Sent(v, "load") \in Evaluation /\ Sent(v, "load").pc = "load"
        /\ Sent(v, "load").reply = "none"
    BY <1>1, SentType DEF Queries
  <1> HIDE DEF v
  <1>3. /\ UNCHANGED <<openAlerts, alerts, notices>>
        /\ \/ Become(e, Sent(v, "sync")) /\ counter' = counter
           \/ Become(e, Sent(v, "load")) /\ counter' = counter
           \/ Resume(e, v, openAlerts)
    BY DEF Tick, v
  <1>4. MapNamesItsRow' /\ NoticesAreRecorded'
    BY <1>3, NamesKept DEF FreshInv
  <1>5. CASE Become(e, Sent(v, "sync")) /\ counter' = counter
    BY <1>2, <1>3, <1>4, <1>5, FreshNext DEF FreshInv, Become, Firing
  <1>6. CASE Become(e, Sent(v, "load")) /\ counter' = counter
    BY <1>2, <1>3, <1>4, <1>6, FreshNext DEF FreshInv, Become, Firing
  <1>7. CASE Resume(e, v, openAlerts)
    <2>1. OpenMap(openAlerts)
      BY DEF FreshInv, TypeInv, TypeOK, OpenMap
    <2> QED
      BY <1>1, <1>3, <1>4, <1>7, <2>1, FreshByResume DEF FreshInv
  <1> QED
    BY <1>3, <1>5, <1>6, <1>7

LEMMA FreshReply ==
  ASSUME FreshInv, TypeInv', NEW e \in Evals, Reply(e)
  PROVE  FreshIds' /\ MapNamesItsRow' /\ NoticesAreRecorded'
  <1> DEFINE v == ev[e]
  <1>1. /\ v \in Evaluation /\ FreshEval(v) /\ v.seen \subseteq DOMAIN alerts
        /\ v.pc \in {"sibling", "mark", "insert"} => v.at \in Keys
    BY DEF FreshInv, FreshIds, TypeInv, EvOK
  <1>2. /\ TypeInv /\ TypeOK /\ FreshIds /\ OpenMap(openAlerts) /\ counter \in Ids
        /\ ev \in [Evals -> Evaluation] /\ MapNamesItsRow /\ NoticesAreRecorded
    BY DEF FreshInv, TypeInv, TypeOK, OpenMap
  <1>3. OpenMap(openAlerts')
    BY DEF TypeInv, TypeOK, OpenMap
  <1>4. alerts' = alerts
    BY DEF Reply, SyncReply, LoadReply, ClearReply, SiblingReply, MarkReply, InsertReply
  <1>5. CASE SyncReply(e)
    <2> DEFINE u == [v EXCEPT !.seen = {}]
    <2>1. u \in Evaluation
      BY <1>1 DEF Evaluation
    <2> HIDE DEF u
    <2>2. /\ notices' = notices
          /\ openAlerts' \in Merges(openAlerts, v.seen) \/ openAlerts' = openAlerts
          /\ (Become(e, Sent(u, "load")) /\ counter' = counter) \/ Resume(e, u, openAlerts')
      BY <1>5 DEF SyncReply, u
    <2>3. MapNamesItsRow'
      <3>1. CASE openAlerts' \in Merges(openAlerts, v.seen)
        <4> HIDE DEF v
        <4>1. \A k \in DOMAIN openAlerts' :
                \/ k \in DOMAIN openAlerts /\ openAlerts'[k] = openAlerts[k]
                \/ openAlerts'[k] \in v.seen /\ alerts[openAlerts'[k]].key = k
          BY <1>1, <1>2, <3>1, MergesType
        <4> QED
          BY <1>1, <1>2, <1>4, <4>1 DEF MapNamesItsRow
      <3>2. CASE openAlerts' = openAlerts
        BY <1>2, <1>4, <3>2 DEF MapNamesItsRow
      <3> QED
        BY <2>2, <3>1, <3>2
    <2>4. NoticesAreRecorded'
      BY <1>2, <1>4, <2>2 DEF NoticesAreRecorded
    <2>5. CASE Become(e, Sent(u, "load")) /\ counter' = counter
      <3>1. /\ Sent(u, "load") \in Evaluation /\ Sent(u, "load").pc = "load"
            /\ Sent(u, "load").reply = "none"
        BY <2>1, SentType DEF Queries
      <3> QED
        BY <1>2, <1>4, <2>3, <2>4, <2>5, <3>1, FreshNext DEF Become, Firing
    <2>6. CASE Resume(e, u, openAlerts')
      BY <1>2, <1>3, <1>4, <2>1, <2>3, <2>4, <2>6, FreshByResume
    <2> QED
      BY <2>2, <2>5, <2>6
  <1>6. CASE LoadReply(e)
    <2>1. /\ openAlerts' = openAlerts /\ notices' = notices
          /\ Resume(e, v, openAlerts) \/ (Become(e, Idle) /\ counter' = counter)
      BY <1>6 DEF LoadReply
    <2>2. MapNamesItsRow' /\ NoticesAreRecorded'
      BY <1>2, <1>4, <2>1, NamesKept
    <2>3. CASE Resume(e, v, openAlerts)
      BY <1>1, <1>2, <1>4, <2>2, <2>3, FreshByResume
    <2>4. CASE Become(e, Idle) /\ counter' = counter
      BY <1>2, <1>4, <2>2, <2>4, IdleType, FreshNext DEF Become, Firing
    <2> QED
      BY <2>1, <2>3, <2>4
  <1>7. CASE ClearReply(e) \/ SiblingReply(e)
    <2>1. PICK k : /\ openAlerts' = Drop(openAlerts, k) \/ openAlerts' = openAlerts
                   /\ notices' = notices
      BY <1>7 DEF ClearReply, SiblingReply
    <2>2. \A j \in DOMAIN openAlerts' :
            j \in DOMAIN openAlerts /\ openAlerts'[j] = openAlerts[j]
      BY <2>1 DEF Drop
    <2>3. MapNamesItsRow' /\ NoticesAreRecorded'
      BY <1>2, <1>4, <2>1, <2>2 DEF MapNamesItsRow, NoticesAreRecorded
    <2>4. \/ Resume(e, v, openAlerts')
          \/ v.pc = "sibling" /\ ClearSibling(e, v, openAlerts', v.sib)
          \/ /\ v.pc = "sibling" /\ v.at \notin DOMAIN openAlerts'
             /\ Fire(e, v, openAlerts')
      BY <1>7 DEF ClearReply, SiblingReply
    <2>5. CASE Resume(e, v, openAlerts')
      BY <1>1, <1>2, <1>3, <1>4, <2>3, <2>5, FreshByResume
    <2>6. CASE v.pc = "sibling" /\ ClearSibling(e, v, openAlerts', v.sib)
      <3>1. v.at \in Keys /\ v.sib \in 0..(Top + 1)
        BY <1>1, <2>6, ConstantsAssumption DEF Evaluation
      <3>2. PICK w \in Evaluation : /\ ev' = [ev EXCEPT ![e] = w] /\ w.reply = "none"
                                    /\ w.pc = "sibling" /\ counter' = counter
        BY <1>1, <1>2, <1>3, <2>6, <3>1, ClearSiblingType
      <3> QED
        BY <1>2, <1>4, <2>3, <3>2, FreshNext DEF Firing
    <2>7. CASE /\ v.pc = "sibling" /\ v.at \notin DOMAIN openAlerts'
               /\ Fire(e, v, openAlerts')
      <3>1. v.at \in Keys
        BY <1>1, <2>7
      <3>2. PICK w \in Evaluation : /\ ev' = [ev EXCEPT ![e] = w] /\ w.reply = "none"
                                    /\ w.id = counter /\ counter' = counter + 1
        BY <1>1, <1>2, <1>3, <2>7, <3>1, FireType
      <3> QED
        BY <1>2, <1>4, <2>3, <3>2, FreshNext
    <2> QED
      BY <2>4, <2>5, <2>6, <2>7
  <1>8. CASE MarkReply(e)
    <2>1. /\ v.pc = "mark" /\ UNCHANGED <<openAlerts, notices, counter>>
          /\ Become(e, Sent(v, "insert"))
      BY <1>8 DEF MarkReply, memory
    <2>2. MapNamesItsRow' /\ NoticesAreRecorded'
      BY <1>2, <1>4, <2>1, NamesKept
    <2>3. /\ Sent(v, "insert") \in Evaluation /\ Sent(v, "insert").reply = "none"
          /\ Sent(v, "insert").id = v.id
      BY <1>1, SentType DEF Queries
    <2> QED
      BY <1>2, <1>4, <2>1, <2>2, <2>3, FreshNext DEF Become
  <1>9. CASE InsertReply(e)
    <2>1. /\ v.pc = "insert" /\ Resume(e, v, openAlerts')
          /\ \/ /\ v.reply = "ok" /\ openAlerts' = Put(openAlerts, v.at, v.id)
                /\ notices' = notices \cup {<<v.id, v.at>>}
             \/ openAlerts' = openAlerts /\ notices' = notices
      BY <1>9 DEF InsertReply
    <2>2. MapNamesItsRow' /\ NoticesAreRecorded'
      <3>1. CASE /\ v.reply = "ok" /\ openAlerts' = Put(openAlerts, v.at, v.id)
                 /\ notices' = notices \cup {<<v.id, v.at>>}
        <4>1. v.id \in DOMAIN alerts /\ alerts[v.id].key = v.at
          BY <1>1, <2>1, <3>1 DEF FreshEval
        <4> HIDE DEF v
        <4>2. MapNamesItsRow'
          BY <1>2, <1>4, <3>1, <4>1 DEF Put, MapNamesItsRow
        <4>3. NoticesAreRecorded'
          BY <1>2, <1>4, <3>1, <4>1 DEF NoticesAreRecorded
        <4> QED
          BY <4>2, <4>3
      <3>2. CASE openAlerts' = openAlerts /\ notices' = notices
        BY <1>2, <1>4, <3>2, NamesKept
      <3> QED
        BY <2>1, <3>1, <3>2
    <2> QED
      BY <1>1, <1>2, <1>3, <1>4, <2>1, <2>2, FreshByResume
  <1> QED
    BY <1>5, <1>6, <1>7, <1>8, <1>9 DEF Reply

LEMMA FreshInit == Init => FreshInv
  <1> SUFFICES ASSUME Init PROVE FreshInv
    OBVIOUS
  <1>1. DOMAIN alerts = {} /\ DOMAIN openAlerts = {} /\ notices = {}
    BY DEF Init
  <1>2. \A e \in Evals : ev[e].pc = "idle"
    BY IdleType DEF Init
  <1> QED
    BY <1>1, <1>2, TypeInit
    DEF FreshInv, FreshIds, FreshEval, Firing, Unborn, MapNamesItsRow, NoticesAreRecorded

LEMMA FreshStep == MaxRestarts = 0 /\ FreshInv /\ [Next]_vars => FreshInv'
  <1> SUFFICES ASSUME MaxRestarts = 0, FreshInv, [Next]_vars PROVE FreshInv'
    OBVIOUS
  <1>1. TypeInv'
    BY TypeStep DEF FreshInv
  <1>2. ASSUME NEW e \in Evals, Tick(e) \/ Answer(e) \/ Fault(e) \/ Reply(e)
        PROVE  FreshInv'
    BY <1>1, <1>2, FreshTick, FreshQuery, FreshReply DEF FreshInv
  <1>3. CASE \/ \E d \in Devices : LevelChange(d)
             \/ UNCHANGED vars
    <2>1. UNCHANGED <<openAlerts, counter, alerts, notices, ev>>
      BY <1>3 DEF LevelChange, vars, memory
    <2> QED
      BY <1>1, <2>1 DEF FreshInv, FreshIds, FreshEval, Firing, Unborn, MapNamesItsRow,
                        NoticesAreRecorded
  <1>4. ~Restart
    BY DEF Restart, FreshInv, TypeInv, TypeOK
  <1> QED
    BY <1>2, <1>3, <1>4 DEF Next

\* MapNamesItsRow and NoticesAreRecorded: without a restart the map of open
\* alerts and the notices sent name the row of that device and rule, however
\* many evaluations overlap and whatever queries fail.
THEOREM NamesCorrect ==
  ASSUME MaxRestarts = 0
  PROVE  Spec => []MapNamesItsRow /\ []NoticesAreRecorded
  <1>1. Init => FreshInv
    BY FreshInit
  <1>2. FreshInv /\ [Next]_vars => FreshInv'
    BY FreshStep
  <1>3. FreshInv => MapNamesItsRow /\ NoticesAreRecorded
    BY DEF FreshInv
  <1> QED
    BY <1>1, <1>2, <1>3, PTL DEF Spec

\* NoticesAreRecorded: without a restart no alert is announced to the mailer
\* under the id of another one's row, or before its row is there.
COROLLARY NoticesCorrect == ASSUME MaxRestarts = 0 PROVE Spec => []NoticesAreRecorded
  BY NamesCorrect, PTL

-----------------------------------------------------------------------------
(* No restart and no failed INSERT: a CHILD has its ROOT, or soon will.     *)

HasRoot == \E j \in DOMAIN alerts : alerts[j].cause = "root" /\ alerts[j].key[2] = 0

\* Only a root cause marks others, it is a device.down, and once its INSERT
\* has been answered it is in the table.
RootEval(v) ==
  /\ v.pc = "mark" => v.root
  /\ Firing(v) /\ v.root => v.at[2] = 0
  /\ v.pc = "insert" /\ v.root /\ v.reply # "none" => HasRoot

RootInv == FreshInv /\ ChildHasRoot /\ \A e \in Evals : RootEval(ev[e])

\* An evaluation has moved on; if it was firing a root cause, that is in the
\* table or is what it fires still.
LEMMA RootNext ==
  ASSUME RootInv, NEW e \in Evals, NEW w \in Evaluation,
         ev' = [ev EXCEPT ![e] = w], alerts' = alerts, w.reply = "none",
         w.pc = "mark" => w.root, Firing(w) /\ w.root => w.at[2] = 0,
         Firing(ev[e]) /\ ev[e].root => HasRoot \/ (Firing(w) /\ w.root)
  PROVE  ChildHasRoot' /\ \A f \in Evals : RootEval(ev[f])'
  <1>1. ev'[e] = w /\ (\A f \in Evals : f # e => ev'[f] = ev[f])
    BY DEF RootInv, FreshInv, TypeInv, EvOK
  <1>2. HasRoot' <=> HasRoot
    BY DEF HasRoot
  <1>3. ChildHasRoot'
    BY <1>1 DEF RootInv, ChildHasRoot, HasRoot, Firing
  <1>4. RootEval(ev[e])'
    BY <1>1 DEF RootEval, Firing
  <1>5. ASSUME NEW f \in Evals, f # e PROVE RootEval(ev[f])'
    BY <1>1, <1>2, <1>5 DEF RootInv, RootEval, Firing
  <1> QED
    BY <1>3, <1>4, <1>5

LEMMA RootByResume ==
  ASSUME RootInv, NEW e \in Evals, NEW v \in Evaluation, NEW m, OpenMap(m),
         Resume(e, v, m), alerts' = alerts,
         Firing(ev[e]) /\ ev[e].root => HasRoot
  PROVE  ChildHasRoot' /\ \A f \in Evals : RootEval(ev[f])'
  <1>1. PICK w \in Evaluation :
          ev' = [ev EXCEPT ![e] = w] /\ w.reply = "none" /\ Aims(w, m)
    BY ResumeType DEF RootInv, FreshInv, TypeInv, TypeOK, EvOK
  <1> QED
    BY <1>1, RootNext DEF Aims, Firing

\* A query keeps the root causes; only the UPDATE of fireAlert makes a CHILD;
\* the INSERT of a root cause, whose id is free, makes a ROOT.
LEMMA CausesAfter ==
  ASSUME TypeOK, NEW v \in Evaluation, v.pc = "insert" => v.id \notin DOMAIN alerts,
         alerts' = Executed(v)
  PROVE  /\ HasRoot => HasRoot'
         /\ \A i \in DOMAIN alerts' :
              alerts'[i].cause = "child" =>
                v.pc = "mark" \/ (i \in DOMAIN alerts /\ alerts[i].cause = "child")
         /\ v.pc = "insert" /\ v.root /\ v.at[2] = 0 => HasRoot'
  <1>1. CASE v.pc \in {"clear", "sibling"}
    <2>1. alerts' = CloseRow(v.id)
      BY <1>1 DEF Executed
    <2>2. \A j \in DOMAIN alerts :
            /\ [alerts[j] EXCEPT !.open = FALSE].cause = alerts[j].cause
            /\ [alerts[j] EXCEPT !.open = FALSE].key = alerts[j].key
      BY DEF TypeOK
    <2>3. /\ DOMAIN alerts' = DOMAIN alerts
          /\ \A j \in DOMAIN alerts : /\ alerts'[j].cause = alerts[j].cause
                                      /\ alerts'[j].key = alerts[j].key
      BY <2>1, <2>2 DEF CloseRow
    <2> QED
      BY <1>1, <2>3 DEF HasRoot
  <1>2. CASE v.pc = "mark"
    <2>1. alerts' = MarkRows(v.at[1])
      BY <1>2 DEF Executed
    <2>2. \A j \in DOMAIN alerts : [alerts[j] EXCEPT !.cause = "child"].key = alerts[j].key
      BY DEF TypeOK
    <2>3. /\ DOMAIN alerts' = DOMAIN alerts
          /\ \A j \in DOMAIN alerts :
               /\ alerts[j].cause = "root" => alerts'[j].cause = "root"
               /\ alerts'[j].key = alerts[j].key
      BY <2>1, <2>2 DEF MarkRows
    <2> QED
      BY <1>2, <2>3 DEF HasRoot
  <1>3. CASE v.pc = "insert"
    <2> DEFINE row == Row(v.at, IF v.root THEN "root" ELSE "none")
    <2>1. alerts' = Put(alerts, v.id, row)
      BY <1>3 DEF Executed, InsertRow
    <2>2. /\ row.key = v.at /\ row.cause # "child"
          /\ v.root => row.cause = "root"
      BY DEF Row
    <2> HIDE DEF row
    <2>3. /\ DOMAIN alerts' = DOMAIN alerts \cup {v.id} /\ alerts'[v.id] = row
          /\ \A j \in DOMAIN alerts : alerts'[j] = alerts[j]
      BY <1>3, <2>1 DEF Put
    <2> QED
      BY <1>3, <2>2, <2>3 DEF HasRoot
  <1>4. CASE v.pc \notin {"clear", "sibling", "mark", "insert"}
    BY <1>4 DEF Executed, HasRoot
  <1> QED
    BY <1>1, <1>2, <1>3, <1>4

\* A query is answered, or fails without being an INSERT, or its reply is lost.
LEMMA RootQuery ==
  ASSUME RootInv, "insert" \notin MayFail, NEW e \in Evals, Answer(e) \/ Fault(e)
  PROVE  ChildHasRoot' /\ \A f \in Evals : RootEval(ev[f])'
  <1> DEFINE v == ev[e]
  <1>1. /\ v \in Evaluation /\ FreshEval(v) /\ RootEval(v) /\ TypeOK
        /\ v.pc # "idle" /\ v.reply = "none" /\ ev \in [Evals -> Evaluation]
    BY DEF RootInv, FreshInv, FreshIds, TypeInv, EvOK, Answer, Fault
  <1>2. PICK w : /\ ev' = [ev EXCEPT ![e] = w]
                 /\ w.pc = v.pc /\ w.at = v.at /\ w.root = v.root
    <2>1. CASE Answer(e)
      <3> DEFINE w == [ev[e] EXCEPT !.reply = "ok",
                                    !.seen = IF ev[e].pc = "sync" THEN OpenIds ELSE {}]
      <3>1. w.pc = v.pc /\ w.at = v.at /\ w.root = v.root
        BY <1>1 DEF Evaluation
      <3> QED
        BY <2>1, <3>1 DEF Answer, Become
    <2>2. CASE Fault(e)
      <3> DEFINE w == [ev[e] EXCEPT !.reply = "error"]
      <3>1. w.pc = v.pc /\ w.at = v.at /\ w.root = v.root
        BY <1>1 DEF Evaluation
      <3> QED
        BY <2>2, <3>1 DEF Fault, Become
    <2> QED
      BY <2>1, <2>2
  <1>3. ev'[e] = w /\ (\A f \in Evals : f # e => ev'[f] = ev[f])
    BY <1>1, <1>2
  <1>4. alerts' = Executed(v) \/ (alerts' = alerts /\ v.pc # "insert")
    BY DEF Answer, Fault
  <1> HIDE DEF v
  <1>5. /\ HasRoot => HasRoot'
        /\ \A i \in DOMAIN alerts' :
             alerts'[i].cause = "child" =>
               v.pc = "mark" \/ (i \in DOMAIN alerts /\ alerts[i].cause = "child")
        /\ v.pc = "insert" /\ v.root /\ v.at[2] = 0 => HasRoot'
    <2>1. CASE alerts' = Executed(v)
      BY <1>1, <2>1, CausesAfter DEF FreshEval, Unborn
    <2>2. CASE alerts' = alerts /\ v.pc # "insert"
      BY <2>2 DEF HasRoot
    <2> QED
      BY <1>4, <2>1, <2>2
  <1>6. ChildHasRoot'
    <2> SUFFICES ASSUME NEW i \in DOMAIN alerts', alerts'[i].cause = "child"
                 PROVE  HasRoot' \/ \E f \in Evals : Firing(ev'[f]) /\ ev'[f].root
      BY DEF ChildHasRoot, HasRoot, Firing
    <2>1. CASE v.pc = "mark"
      BY <1>1, <1>2, <1>3, <2>1 DEF RootEval, Firing
    <2>2. CASE i \in DOMAIN alerts /\ alerts[i].cause = "child"
      <3>1. HasRoot \/ \E f \in Evals : Firing(ev[f]) /\ ev[f].root
        BY <2>2 DEF RootInv, ChildHasRoot, HasRoot, Firing
      <3>2. \A f \in Evals : ev'[f].pc = ev[f].pc /\ ev'[f].root = ev[f].root
        BY <1>2, <1>3 DEF v
      <3> QED
        BY <1>5, <3>1, <3>2 DEF Firing
    <2> QED
      BY <1>5, <2>1, <2>2
  <1>7. RootEval(ev[e])'
    BY <1>1, <1>2, <1>3, <1>5 DEF RootEval, Firing
  <1>8. ASSUME NEW f \in Evals, f # e PROVE RootEval(ev[f])'
    BY <1>3, <1>5, <1>8 DEF RootInv, RootEval, Firing
  <1> QED
    BY <1>6, <1>7, <1>8

LEMMA RootTick ==
  ASSUME RootInv, NEW e \in Evals, Tick(e)
  PROVE  ChildHasRoot' /\ \A f \in Evals : RootEval(ev[f])'
  <1> DEFINE v == [Idle EXCEPT !.snap = level]
  <1>1. v \in Evaluation
    BY IdleType DEF RootInv, FreshInv, TypeInv, TypeOK, Evaluation
  <1>2. /\ Sent(v, "sync") \in Evaluation /\ Sent(v, "sync").pc = "sync"
        /\ Sent(v, "sync").reply = "none"
        /\ Sent(v, "load") \in Evaluation /\ Sent(v, "load").pc = "load"
        /\ Sent(v, "load").reply = "none"
    BY <1>1, SentType DEF Queries
  <1> HIDE DEF v
  <1>3. /\ alerts' = alerts /\ ~Firing(ev[e])
        /\ Become(e, Sent(v, "sync")) \/ Become(e, Sent(v, "load")) \/ Resume(e, v, openAlerts)
    BY DEF Tick, Firing, v
  <1>4. CASE Become(e, Sent(v, "sync"))
    BY <1>2, <1>3, <1>4, RootNext DEF Become, Firing
  <1>5. CASE Become(e, Sent(v, "load"))
    BY <1>2, <1>3, <1>5, RootNext DEF Become, Firing
  <1>6. CASE Resume(e, v, openAlerts)
    <2>1. OpenMap(openAlerts)
      BY DEF RootInv, FreshInv, TypeInv, TypeOK, OpenMap
    <2> QED
      BY <1>1, <1>3, <1>6, <2>1, RootByResume
  <1> QED
    BY <1>3, <1>4, <1>5, <1>6

LEMMA RootReply ==
  ASSUME RootInv, TypeInv', NEW e \in Evals, Reply(e)
  PROVE  ChildHasRoot' /\ \A f \in Evals : RootEval(ev[f])'
  <1> DEFINE v == ev[e]
             u == [v EXCEPT !.seen = {}]
  <1>1. /\ v \in Evaluation /\ RootEval(v) /\ EvOK /\ counter \in Ids
        /\ v.pc = "sibling" => v.at \in Keys
    BY DEF RootInv, FreshInv, TypeInv, TypeOK, EvOK
  <1>2. OpenMap(openAlerts') /\ OpenMap(openAlerts)
    BY DEF RootInv, FreshInv, TypeInv, TypeOK, OpenMap
  <1>3. u \in Evaluation
    BY <1>1 DEF Evaluation
  <1> HIDE DEF u
  <1>4. /\ Sent(u, "load") \in Evaluation /\ Sent(u, "load").pc = "load"
        /\ Sent(u, "load").reply = "none"
        /\ Sent(v, "insert") \in Evaluation /\ Sent(v, "insert").pc = "insert"
        /\ Sent(v, "insert").reply = "none" /\ Sent(v, "insert").root = v.root
        /\ Sent(v, "insert").at = v.at
    BY <1>1, <1>3, SentType DEF Queries
  <1>5. CASE SiblingReply(e)
    <2>1. /\ v.pc = "sibling" /\ alerts' = alerts
          /\ \/ ClearSibling(e, v, openAlerts', v.sib)
             \/ v.at \notin DOMAIN openAlerts' /\ Fire(e, v, openAlerts')
             \/ Resume(e, v, openAlerts')
      BY <1>5 DEF SiblingReply
    <2>2. v.sib \in 0..(Top + 1) /\ ev \in [Evals -> Evaluation] /\ ~Firing(v) /\ v.at \in Keys
      BY <1>1, <2>1, ConstantsAssumption DEF Evaluation, EvOK, Firing
    <2>3. CASE ClearSibling(e, v, openAlerts', v.sib)
      <3>1. PICK w \in Evaluation :
              ev' = [ev EXCEPT ![e] = w] /\ w.pc = "sibling" /\ w.reply = "none"
        BY <1>1, <1>2, <2>2, <2>3, ClearSiblingType
      <3> QED
        BY <2>1, <2>2, <3>1, RootNext DEF Firing
    <2>4. CASE v.at \notin DOMAIN openAlerts' /\ Fire(e, v, openAlerts')
      <3>1. PICK w \in Evaluation :
              /\ ev' = [ev EXCEPT ![e] = w] /\ w.reply = "none"
              /\ w.pc = "mark" <=> w.root
              /\ w.root => w.at[2] = 0
        BY <1>1, <1>2, <2>2, <2>4, FireType
      <3> QED
        BY <2>1, <2>2, <3>1, RootNext DEF Firing
    <2>5. CASE Resume(e, v, openAlerts')
      BY <1>1, <1>2, <2>1, <2>2, <2>5, RootByResume
    <2> QED
      BY <2>1, <2>3, <2>4, <2>5
  <1>6. CASE MarkReply(e)
    <2>1. v.pc = "mark" /\ alerts' = alerts /\ Become(e, Sent(v, "insert"))
      BY <1>6 DEF MarkReply
    <2> QED
      BY <1>1, <1>4, <2>1, RootNext DEF Become, RootEval, Firing
  <1>7. CASE SyncReply(e) \/ LoadReply(e) \/ ClearReply(e) \/ InsertReply(e)
    <2>1. /\ alerts' = alerts /\ v.pc # "mark" /\ v.reply # "none"
          /\ \/ Become(e, Sent(u, "load")) \/ Become(e, Idle)
             \/ Resume(e, u, openAlerts') \/ Resume(e, v, openAlerts')
          /\ v.pc # "insert" => ~Firing(v)
      BY <1>7 DEF SyncReply, LoadReply, ClearReply, InsertReply, Firing, u
    <2>2. Firing(v) /\ v.root => HasRoot
      BY <1>1, <2>1 DEF RootEval, Firing
    <2>3. CASE Become(e, Sent(u, "load"))
      BY <1>4, <2>1, <2>2, <2>3, RootNext DEF Become, Firing
    <2>4. CASE Become(e, Idle)
      BY <2>1, <2>2, <2>4, IdleType, RootNext DEF Become, Firing
    <2>5. CASE Resume(e, u, openAlerts')
      BY <1>2, <1>3, <2>1, <2>2, <2>5, RootByResume
    <2>6. CASE Resume(e, v, openAlerts')
      BY <1>1, <1>2, <2>1, <2>2, <2>6, RootByResume
    <2> QED
      BY <2>1, <2>3, <2>4, <2>5, <2>6
  <1> QED
    BY <1>5, <1>6, <1>7 DEF Reply

LEMMA RootInit == Init => RootInv
  <1> SUFFICES ASSUME Init PROVE RootInv
    OBVIOUS
  <1>1. DOMAIN alerts = {} /\ \A e \in Evals : ev[e].pc = "idle"
    BY IdleType DEF Init
  <1> QED
    BY <1>1, FreshInit DEF RootInv, ChildHasRoot, RootEval, Firing

LEMMA RootStep ==
  MaxRestarts = 0 /\ "insert" \notin MayFail /\ RootInv /\ [Next]_vars => RootInv'
  <1> SUFFICES ASSUME MaxRestarts = 0, "insert" \notin MayFail, RootInv, [Next]_vars
               PROVE  RootInv'
    OBVIOUS
  <1>1. FreshInv' /\ TypeInv'
    BY FreshStep DEF RootInv, FreshInv
  <1>2. ASSUME NEW e \in Evals, Tick(e) \/ Answer(e) \/ Fault(e) \/ Reply(e)
        PROVE  RootInv'
    BY <1>1, <1>2, RootTick, RootQuery, RootReply DEF RootInv
  <1>3. CASE (\E d \in Devices : LevelChange(d)) \/ UNCHANGED vars
    <2>1. UNCHANGED <<alerts, ev>>
      BY <1>3 DEF LevelChange, vars
    <2> QED
      BY <1>1, <2>1 DEF RootInv, ChildHasRoot, RootEval, HasRoot, Firing
  <1>4. ~Restart
    BY DEF Restart, RootInv, FreshInv, TypeInv, TypeOK
  <1> QED
    BY <1>2, <1>3, <1>4 DEF Next

\* ChildHasRoot: without a restart and unless an INSERT fails, an alert is a
\* CHILD only if its ROOT is in the table or is being fired, however many
\* evaluations overlap and whatever replies are lost.
THEOREM ChildCorrect ==
  ASSUME MaxRestarts = 0, "insert" \notin MayFail
  PROVE  Spec => []ChildHasRoot
  <1>1. Init => RootInv
    BY RootInit
  <1>2. RootInv /\ [Next]_vars => RootInv'
    BY RootStep
  <1>3. RootInv => ChildHasRoot
    BY DEF RootInv
  <1> QED
    BY <1>1, <1>2, <1>3, PTL DEF Spec

-----------------------------------------------------------------------------
(* Rows are history: no step rewrites, reopens or deletes one.              *)

\* The rows there are stay, under their keys, and stay closed once closed.
RowsStay ==
  \A i \in DOMAIN alerts :
    /\ i \in DOMAIN alerts'
    /\ alerts'[i].key = alerts[i].key
    /\ alerts'[i].open => alerts[i].open

LEMMA RowsStayStep == TypeInv /\ [Next]_vars => RowsStay
  <1> SUFFICES ASSUME TypeInv, [Next]_vars PROVE RowsStay
    OBVIOUS
  <1>1. CASE alerts' = alerts
    BY <1>1 DEF RowsStay
  <1>2. ASSUME NEW e \in Evals, alerts' = Executed(ev[e]), ev[e].pc # "idle"
        PROVE  RowsStay
    <2>1. ev[e] \in Evaluation /\ (ev[e].pc \in {"mark", "insert"} => ev[e].at \in Keys)
      BY DEF TypeInv, EvOK
    <2> QED
      BY <1>2, <2>1, ExecutedType DEF RowsStay, TypeInv
  <1>3. ASSUME NEW e \in Evals, Tick(e) \/ Reply(e) PROVE alerts' = alerts
    BY <1>3 DEF Tick, Reply, SyncReply, LoadReply, ClearReply, SiblingReply, MarkReply,
                InsertReply
  <1>4. ASSUME NEW e \in Evals, Answer(e) \/ Fault(e) PROVE RowsStay
    BY <1>1, <1>2, <1>4 DEF Answer, Fault
  <1>5. ASSUME NEW d \in Devices, LevelChange(d) PROVE alerts' = alerts
    BY <1>5 DEF LevelChange
  <1>6. CASE Restart
    BY <1>1, <1>6 DEF Restart
  <1> QED
    BY <1>1, <1>3, <1>4, <1>5, <1>6 DEF Next, vars

\* Whatever overlaps, fails or restarts, no row of the table alerts is ever
\* rewritten for another alert, reopened or deleted.
THEOREM HistoryCorrect == Spec => HistoryIsKept
  <1>1. RowsStay <=>
          \A i \in DOMAIN alerts :
            /\ i \in DOMAIN alerts'
            /\ alerts'[i].key = alerts[i].key
            /\ alerts'[i].open => alerts[i].open
    BY DEF RowsStay
  <1> QED
    BY <1>1, TypeInit, TypeStep, RowsStayStep, PTL DEF Spec, HistoryIsKept

=============================================================================

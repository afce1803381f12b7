------------------------- MODULE ConfigVersionsProofs -------------------------
(***************************************************************************)
(* Theorems about ConfigVersions, for any devices, calls and schemas, and  *)
(* any number of rows, revisions and failures.                             *)
(***************************************************************************)
EXTENDS ConfigVersions, TLAPS

\* A row of device d does not offend against the foreign key.
Insertable(d) == schema.fk = "none" \/ status[d] = "live"

\* The versions of d are 1 to some m, so that they have a maximum.
Dense(d) == \E m \in Nat : Versions(d) = 1..m

RowsInv ==
  /\ Numbered /\ NewerIsNotOlder
  /\ \A d \in Devices : Dense(d)
  /\ \A d \in Devices : \A i \in DOMAIN table[d] : table[d][i].text <= config[d]

\* Snapshots of one device that have not overlapped are taken by one call.
Alone ==
  \A b, c \in Calls :
    Taking(b) /\ Taking(c) /\ call[b].dev = call[c].dev /\ call[b].dev \notin overlapped
      => b = c

\* What a call has read and still relies on: its text is no older than any
\* row, and its version follows one that is there, the last one if no other
\* call has interfered.  A call without a device has none to come to.
CallOK(v) ==
  /\ v.pc \in {"rest", "list"} => v.todo = {}
  /\ v.pc \in {"interfaces", "max", "insert"} => status[v.dev] # "new"
  /\ v.pc \in {"max", "insert"} =>
       /\ v.text <= config[v.dev]
       /\ v.dev \notin overlapped =>
            \A i \in DOMAIN table[v.dev] : table[v.dev][i].text <= v.text
  /\ v.pc = "insert" => v.next # 0
  /\ v.pc = "insert" /\ Insertable(v.dev) =>
       /\ v.next = 1 \/ v.next - 1 \in Versions(v.dev)
       /\ v.dev \notin overlapped => v.next = Len(table[v.dev]) + 1

ConfigInv == TypeOK /\ RowsInv /\ Alone /\ \A c \in Calls : CallOK(call[c])

-----------------------------------------------------------------------------
(* The rows of a device, and their versions. *)

LEMMA VersionsAre ==
  ASSUME NEW d
  PROVE  \A v : v \in Versions(d) <=> \E i \in DOMAIN table[d] : v = table[d][i].version
  BY Zenon DEF Versions

LEMMA VersionsAfter ==
  ASSUME NEW d
  PROVE  \A v : v \in Versions(d)' <=> \E i \in DOMAIN table'[d] : v = table'[d][i].version
  BY Zenon DEF Versions

LEMMA RowsOfDevice ==
  ASSUME TypeOK, NEW d \in Devices
  PROVE  /\ table[d] \in Seq([version : Nat, text : Nat])
         /\ Len(table[d]) \in Nat /\ DOMAIN table[d] = 1..Len(table[d])
         /\ \A i \in DOMAIN table[d] : table[d][i] \in [version : Nat, text : Nat]
  <1>1. table[d] \in Seq([version : Nat, text : Nat])
    BY DEF TypeOK
  <1>2. Len(table[d]) \in Nat /\ DOMAIN table[d] = 1..Len(table[d])
    BY <1>1
  <1> DEFINE R == [version : Nat, text : Nat]
  <1>3. table[d] \in Seq(R) => \A i \in 1..Len(table[d]) : table[d][i] \in R
    <2> HIDE DEF R
    <2> QED
      OBVIOUS
  <1> QED
    BY <1>1, <1>2, <1>3

-----------------------------------------------------------------------------
(* What a call does to its own record. *)

\* Call c is on to another query, or is over; the other calls are as they were.
Moved(c) ==
  /\ call' \in [Calls -> CallType]
  /\ \A b \in Calls : b # c => call'[b] = call[b]
  /\ \A b \in Calls : Taking(b)' => call'[b].dev \in Devices
  /\ overlapped \subseteq overlapped' /\ overlapped' \subseteq Devices
  /\ Alone'

LEMMA BeginFacts ==
  ASSUME TypeOK, Alone, NEW c \in Calls, NEW d \in Devices, NEW todo \in SUBSET Devices,
         Begin(c, d, todo)
  PROVE  Moved(c) /\ call'[c].pc = "device"
  <1> DEFINE v == [pc |-> "device", dev |-> d, text |-> 0, next |-> 0, todo |-> todo]
  <1>1. v \in CallType /\ v.pc = "device" /\ v.dev = d
    BY DEF CallType
  <1>2. call' = [call EXCEPT ![c] = v]
    BY DEF Begin
  <1>3. overlapped' = overlapped \cup {e \in {d} : \E b \in Calls \ {c} : Taking(b) /\ call[b].dev = e}
    BY DEF Begin
  <1> HIDE DEF v
  <1>4. /\ call' \in [Calls -> CallType]
        /\ \A b \in Calls : b # c => call'[b] = call[b]
        /\ call'[c] = v
    BY <1>1, <1>2 DEF TypeOK
  <1>5. overlapped \subseteq overlapped' /\ overlapped' \subseteq Devices
    BY <1>3 DEF TypeOK
  <1>6. \A b \in Calls : b # c => (Taking(b)' <=> Taking(b))
    BY <1>4 DEF Taking
  <1>7. \A b \in Calls : Taking(b)' => call'[b].dev \in Devices
    BY <1>1, <1>4, <1>6 DEF TypeOK
  <1>8. ASSUME NEW a \in Calls, NEW b \in Calls, Taking(a)', Taking(b)',
               call'[a].dev = call'[b].dev, call'[a].dev \notin overlapped'
        PROVE  a = b
    <2>1. CASE a # c /\ b # c
      BY <2>1, <1>4, <1>5, <1>6, <1>8 DEF Alone
    <2>2. CASE a = c /\ b # c
      BY <2>2, <1>1, <1>3, <1>4, <1>6, <1>8
    <2>3. CASE a # c /\ b = c
      BY <2>3, <1>1, <1>3, <1>4, <1>6, <1>8
    <2> QED
      BY <2>1, <2>2, <2>3
  <1>9. Alone'
    BY <1>8 DEF Alone
  <1> QED
    BY <1>1, <1>4, <1>5, <1>7, <1>9 DEF Moved

\* The record of a call that asks for nothing more, or that asks on.
LEMMA BecomeFacts ==
  ASSUME TypeOK, Alone, NEW c \in Calls, NEW v \in CallType,
         call' = [call EXCEPT ![c] = v], UNCHANGED overlapped,
         v.pc \in {"rest", "list"} \/ (Taking(c) /\ v.dev = call[c].dev)
  PROVE  Moved(c) /\ call'[c] = v
  <1>1. /\ call' \in [Calls -> CallType]
        /\ \A b \in Calls : b # c => call'[b] = call[b]
        /\ call'[c] = v
    BY DEF TypeOK
  <1>2. \A b \in Calls : b # c => (Taking(b)' <=> Taking(b))
    BY <1>1 DEF Taking
  <1>3. Taking(c)' => Taking(c) /\ v.dev = call[c].dev
    BY <1>1 DEF Taking
  <1>4. \A b \in Calls : Taking(b)' => call'[b].dev \in Devices
    BY <1>1, <1>2, <1>3 DEF TypeOK
  <1>5. Alone'
    BY <1>1, <1>2, <1>3 DEF Alone
  <1> QED
    BY <1>1, <1>4, <1>5 DEF Moved, TypeOK

LEMMA GoOnFacts ==
  ASSUME TypeOK, Alone, NEW c \in Calls, NEW todo \in SUBSET Devices, GoOn(c, todo)
  PROVE  /\ Moved(c) /\ call'[c].pc \in {"rest", "device"}
         /\ call'[c].pc = "rest" => call'[c].todo = {}
  <1>1. CASE End(c)
    <2>1. Resting \in CallType /\ Resting.pc = "rest" /\ Resting.todo = {}
      BY DEF Resting, CallType
    <2> QED
      BY <2>1, <1>1, BecomeFacts DEF End
  <1>2. ASSUME NEW d \in todo, Begin(c, d, todo \ {d})
        PROVE  Moved(c) /\ call'[c].pc = "device"
    BY <1>2, BeginFacts
  <1> QED
    BY <1>1, <1>2 DEF GoOn

-----------------------------------------------------------------------------
(* What a step that leaves the rows alone does to the invariant. *)

Tables == <<schema, status, config, table>>

LEMMA QuietRows ==
  ASSUME RowsInv, UNCHANGED Tables, overlapped \subseteq overlapped'
  PROVE  RowsInv'
  <1>1. \A d : Versions(d)' = Versions(d)
    BY DEF Tables, Versions
  <1>2. Numbered'
    BY DEF RowsInv, Numbered, Tables
  <1>3. NewerIsNotOlder'
    BY DEF RowsInv, NewerIsNotOlder, Tables
  <1>4. \A d \in Devices : Dense(d)'
    BY <1>1 DEF RowsInv, Dense
  <1>5. \A d \in Devices : \A i \in DOMAIN table'[d] : table'[d][i].text <= config'[d]
    BY DEF RowsInv, Tables
  <1> QED
    BY <1>2, <1>3, <1>4, <1>5 DEF RowsInv

LEMMA QuietCalls ==
  ASSUME UNCHANGED Tables, overlapped \subseteq overlapped',
         NEW v, CallOK(v), NEW w, w = v
  PROVE  \A x : x = w => CallOK(x)'
  <1>1. \A d : Versions(d)' = Versions(d) /\ Insertable(d)' = Insertable(d)
    BY DEF Tables, Versions, Insertable
  <1> QED
    BY <1>1 DEF CallOK, Tables

\* A call moves and is right about the tables, which are as they were.
LEMMA QuietStep ==
  ASSUME ConfigInv, NEW c \in Calls, Moved(c), UNCHANGED Tables, faults' \in 0..MaxFaults,
         CallOK(call[c])'
  PROVE  ConfigInv'
  <1>1. TypeOK'
    BY DEF ConfigInv, TypeOK, Moved, Tables
  <1>2. RowsInv'
    BY QuietRows DEF ConfigInv, Moved
  <1>3. ASSUME NEW b \in Calls PROVE CallOK(call[b])'
    <2>1. CASE b = c
      BY <2>1
    <2>2. CASE b # c
      <3>1. call'[b] = call[b] /\ CallOK(call[b])
        BY <2>2 DEF Moved, ConfigInv
      <3> QED
        BY <3>1, QuietCalls DEF Moved
    <2> QED
      BY <2>1, <2>2
  <1> QED
    BY <1>1, <1>2, <1>3 DEF ConfigInv, Moved

\* The same for a call that is at its first query, or over.
LEMMA FreshStep ==
  ASSUME ConfigInv, NEW c \in Calls, Moved(c), UNCHANGED Tables, faults' \in 0..MaxFaults,
         call'[c].pc \in {"rest", "list", "device"},
         call'[c].pc \in {"rest", "list"} => call'[c].todo = {}
  PROVE  ConfigInv'
  <1>1. CallOK(call[c])'
    BY DEF CallOK
  <1> QED
    BY <1>1, QuietStep

-----------------------------------------------------------------------------
(* The queries of a call. *)

LEMMA StartSteps ==
  ASSUME ConfigInv, NEW c \in Calls,
         (\E d \in Devices : StartOne(c, d)) \/ StartAll(c) \/ List(c)
  PROVE  ConfigInv'
  <1> USE DEF ConfigInv
  <1>1. ASSUME NEW d \in Devices, StartOne(c, d) PROVE ConfigInv'
    <2>1. Moved(c) /\ call'[c].pc = "device"
      BY <1>1, BeginFacts DEF StartOne
    <2>2. UNCHANGED Tables /\ faults' \in 0..MaxFaults
      BY <1>1 DEF StartOne, Tables, TypeOK
    <2> QED
      BY <2>1, <2>2, FreshStep
  <1>2. CASE StartAll(c)
    <2> DEFINE v == [call[c] EXCEPT !.pc = "list"]
    <2>1. v \in CallType /\ v.pc = "list" /\ v.todo = {}
      BY <1>2 DEF StartAll, TypeOK, CallType, CallOK
    <2>2. Moved(c) /\ call'[c] = v
      BY <2>1, <1>2, BecomeFacts DEF StartAll, Send
    <2>3. UNCHANGED Tables /\ faults' \in 0..MaxFaults
      BY <1>2 DEF StartAll, Tables, TypeOK
    <2> QED
      BY <2>1, <2>2, <2>3, FreshStep
  <1>3. CASE List(c)
    <2>1. Moved(c) /\ call'[c].pc \in {"rest", "device"} /\ (call'[c].pc = "rest" => call'[c].todo = {})
      BY <1>3, GoOnFacts DEF List
    <2>2. UNCHANGED Tables /\ faults' \in 0..MaxFaults
      BY <1>3 DEF List, Tables, TypeOK
    <2> QED
      BY <2>1, <2>2, FreshStep
  <1> QED
    BY <1>1, <1>2, <1>3

\* A snapshot ends without a row.
LEMMA GoOnStep ==
  ASSUME ConfigInv, NEW c \in Calls, GoOn(c, call[c].todo), UNCHANGED Tables,
         faults' \in 0..MaxFaults
  PROVE  ConfigInv'
  <1>1. call[c].todo \in SUBSET Devices
    BY DEF ConfigInv, TypeOK, CallType
  <1>2. Moved(c) /\ call'[c].pc \in {"rest", "device"} /\ (call'[c].pc = "rest" => call'[c].todo = {})
    BY <1>1, GoOnFacts DEF ConfigInv
  <1> QED
    BY <1>2, FreshStep

\* A call with a reply sends its next query.
LEMMA SendStep ==
  ASSUME ConfigInv, NEW c \in Calls, NEW v \in CallType, Taking(c), v.dev = call[c].dev,
         Send(c, v), UNCHANGED <<Tables, faults>>, CallOK(v)
  PROVE  ConfigInv'
  <1>1. Moved(c) /\ call'[c] = v
    BY BecomeFacts DEF Send, ConfigInv
  <1>2. CallOK(call[c])'
    BY <1>1, QuietCalls DEF Moved
  <1>3. faults' \in 0..MaxFaults
    BY DEF ConfigInv, TypeOK
  <1> QED
    BY <1>1, <1>2, <1>3, QuietStep

LEMMA ReadDeviceStep ==
  ASSUME ConfigInv, NEW c \in Calls, ReadDevice(c)
  PROVE  ConfigInv'
  <1> USE DEF ConfigInv
  <1>1. CASE status[call[c].dev] = "live"
    <2> DEFINE v == [call[c] EXCEPT !.pc = "interfaces"]
    <2>1. v \in CallType /\ v.pc = "interfaces" /\ v.dev = call[c].dev
      BY DEF TypeOK, CallType
    <2>2. Send(c, v) /\ Taking(c) /\ UNCHANGED <<Tables, faults>>
      BY <1>1 DEF ReadDevice, Taking, Tables
    <2> HIDE DEF v
    <2>3. CallOK(v)
      BY <1>1, <2>1 DEF CallOK
    <2> QED
      BY <2>1, <2>2, <2>3, SendStep
  <1>2. CASE status[call[c].dev] # "live"
    BY <1>2, GoOnStep DEF ReadDevice, Tables, TypeOK
  <1> QED
    BY <1>1, <1>2

LEMMA ReadInterfacesStep ==
  ASSUME ConfigInv, NEW c \in Calls, ReadInterfaces(c)
  PROVE  ConfigInv'
  <1> USE DEF ConfigInv
  <1> DEFINE v == [call[c] EXCEPT !.pc = "max", !.text = config[call[c].dev]]
  <1>1. Taking(c) /\ call[c].dev \in Devices /\ call[c].pc = "interfaces"
    BY DEF ReadInterfaces, Taking, TypeOK
  <1>2. config[call[c].dev] \in Nat
    BY <1>1 DEF TypeOK
  <1>3. v \in CallType /\ v.pc = "max" /\ v.dev = call[c].dev /\ v.text = config[call[c].dev]
    BY <1>2 DEF TypeOK, CallType
  <1>4. Send(c, v) /\ UNCHANGED <<Tables, faults>>
    BY DEF ReadInterfaces, Tables
  <1> HIDE DEF v
  <1>5. CallOK(v)
    BY <1>1, <1>2, <1>3 DEF CallOK, RowsInv
  <1> QED
    BY <1>1, <1>3, <1>4, <1>5, SendStep

\* MAX(version) of versions that are dense.
LEMMA MaxVersionFacts ==
  ASSUME NEW d, NEW m \in Nat, Versions(d) = 1..m
  PROVE  MaxVersion(d) = m
  <1>1. m \in {0} \cup Versions(d) /\ \A v \in Versions(d) : v <= m
    OBVIOUS
  <1>2. /\ MaxVersion(d) \in {0} \cup Versions(d)
        /\ \A v \in Versions(d) : v <= MaxVersion(d)
    BY <1>1 DEF MaxVersion
  <1> QED
    BY <1>1, <1>2

\* The rows of a device are numbered through: so are its versions.
LEMMA VersionsOfNumbered ==
  ASSUME TypeOK, NEW d \in Devices, \A i \in DOMAIN table[d] : table[d][i].version = i
  PROVE  Versions(d) = 1..Len(table[d])
  <1>1. DOMAIN table[d] = 1..Len(table[d])
    BY RowsOfDevice
  <1>2. \A v : v \in Versions(d) <=> \E i \in DOMAIN table[d] : v = i
    BY VersionsAre
  <1> QED
    BY <1>1, <1>2

LEMMA ReadMaxStep ==
  ASSUME ConfigInv, NEW c \in Calls, ReadMax(c)
  PROVE  ConfigInv'
  <1> USE DEF ConfigInv
  <1> DEFINE d == call[c].dev
  <1>1. Taking(c) /\ d \in Devices /\ call[c].pc = "max"
    BY DEF ReadMax, Taking, TypeOK
  <1>2. PICK m \in Nat : Versions(d) = 1..m
    BY <1>1 DEF RowsInv, Dense
  <1>3. PICK n \in Nat : n = m + 1
    OBVIOUS
  <1> DEFINE v == [call[c] EXCEPT !.pc = "insert", !.next = n]
  <1>4. /\ v \in CallType /\ v.pc = "insert" /\ v.dev = d /\ v.next = n
        /\ v.text = call[c].text
    BY DEF CallType, TypeOK
  <1>5. Send(c, v) /\ UNCHANGED <<Tables, faults>>
    BY <1>2, <1>3, MaxVersionFacts DEF ReadMax, Tables
  <1>6. d \notin overlapped => m = Len(table[d])
    <2>1. ASSUME d \notin overlapped PROVE Versions(d) = 1..Len(table[d])
      BY <2>1, <1>1, VersionsOfNumbered DEF RowsInv, Numbered
    <2>2. Len(table[d]) \in Nat
      BY <1>1 DEF TypeOK
    <2> QED
      BY <2>1, <2>2, <1>2
  <1>7. v.next = 1 \/ v.next - 1 \in Versions(d)
    BY <1>2, <1>3, <1>4
  <1>8. v.next # 0
    BY <1>3, <1>4
  <1> HIDE DEF v, d
  <1>9. /\ status[d] # "new" /\ call[c].text <= config[d]
        /\ d \notin overlapped => \A i \in DOMAIN table[d] : table[d][i].text <= call[c].text
    BY <1>1 DEF CallOK, d
  <1>10. CallOK(v)
    BY <1>3, <1>4, <1>6, <1>7, <1>8, <1>9 DEF CallOK
  <1> QED
    BY <1>1, <1>4, <1>5, <1>10, SendStep DEF d

-----------------------------------------------------------------------------
(* The INSERT. *)

\* A row is added under the version the call has: what that does to the n rows
\* of the device, and to its versions.
Grown(c, d, n) ==
  /\ n \in Nat /\ DOMAIN table[d] = 1..n /\ DOMAIN table'[d] = 1..(n + 1)
  /\ \A i \in 1..n : table'[d][i] = table[d][i]
  /\ table'[d][n + 1] = Snapshot(call[c].next, call[c].text)
  /\ Len(table'[d]) = n + 1
  /\ \A e \in Devices : e # d => table'[e] = table[e] /\ Versions(e)' = Versions(e)
  /\ Versions(d)' = Versions(d) \cup {call[c].next}
  /\ table' \in [Devices -> Seq([version : Nat, text : Nat])]

LEMMA InsertedFacts ==
  ASSUME TypeOK, NEW c \in Calls, Taking(c), table' = Inserted(c),
         NEW d, d = call[c].dev, NEW n, n = Len(table[d])
  PROVE  Grown(c, d, n)
  <1> DEFINE s == Snapshot(call[c].next, call[c].text)
             R == [version : Nat, text : Nat]
  <1>1. d \in Devices /\ table[d] \in Seq(R)
    BY DEF TypeOK
  <1>2. s \in R /\ s.version = call[c].next
    BY DEF TypeOK, CallType, Snapshot
  <1>3. table' = [table EXCEPT ![d] = Append(table[d], s)]
    BY DEF Inserted
  <1> HIDE DEF s, R
  <1>4. table'[d] = Append(table[d], s) /\ \A e \in Devices : e # d => table'[e] = table[e]
    BY <1>1, <1>3 DEF TypeOK
  <1>5. /\ n \in Nat /\ DOMAIN table[d] = 1..n /\ DOMAIN table'[d] = 1..(n + 1)
        /\ \A i \in 1..n : table'[d][i] = table[d][i]
        /\ table'[d][n + 1] = s /\ Len(table'[d]) = n + 1
        /\ table'[d] \in Seq(R)
    BY <1>1, <1>2, <1>4
  <1>6. table' \in [Devices -> Seq(R)]
    BY <1>1, <1>3, <1>4, <1>5 DEF TypeOK, R
  <1>7. \A e \in Devices : e # d => Versions(e)' = Versions(e)
    BY <1>4 DEF Versions
  <1>8. Versions(d)' = Versions(d) \cup {s.version}
    <2>1. ASSUME NEW v \in Versions(d)' PROVE v \in Versions(d) \cup {s.version}
      <3>1. \E i \in DOMAIN table'[d] : v = table'[d][i].version
        BY <2>1, VersionsAfter
      <3>2. PICK i \in 1..(n + 1) : v = table'[d][i].version
        BY <3>1, <1>5
      <3>3. CASE i \in 1..n
        BY <3>2, <3>3, <1>5, VersionsAre
      <3>4. CASE i = n + 1
        BY <3>2, <3>4, <1>5
      <3> QED
        BY <1>5, <3>3, <3>4
    <2>2. ASSUME NEW v \in Versions(d) PROVE v \in Versions(d)'
      <3>1. PICK i \in 1..n : v = table[d][i].version
        BY <2>2, <1>5, VersionsAre
      <3>2. i \in DOMAIN table'[d] /\ v = table'[d][i].version
        BY <3>1, <1>5
      <3> QED
        BY <3>2, VersionsAfter
    <2>3. s.version \in Versions(d)'
      <3>1. n + 1 \in DOMAIN table'[d] /\ s.version = table'[d][n + 1].version
        BY <1>5
      <3> QED
        BY <3>1, VersionsAfter
    <2> QED
      BY <2>1, <2>2, <2>3
  <1> QED
    BY <1>2, <1>4, <1>5, <1>6, <1>7, <1>8 DEF Grown, s, R

\* The call inserts the version after the last one.
LEMMA NextIsLast ==
  ASSUME ConfigInv, NEW c \in Calls, call[c].pc = "insert", NEW d, d = call[c].dev,
         Accepted(d, call[c].next), schema.unique \/ d \notin overlapped
  PROVE  call[c].next = Len(table[d]) + 1
  <1> USE DEF ConfigInv
  <1>1. /\ call[c].next # 0 /\ call[c].next \in Nat
        /\ call[c].next = 1 \/ call[c].next - 1 \in Versions(d)
        /\ d \notin overlapped => call[c].next = Len(table[d]) + 1
    BY DEF CallOK, Accepted, Insertable, TypeOK, Schema, CallType, ConfigAssumption
  <1>2. d \in Devices
    BY DEF TypeOK, Taking
  <1>3. Versions(d) = 1..Len(table[d]) /\ Len(table[d]) \in Nat
    <2>1. \A i \in DOMAIN table[d] : table[d][i].version = i
      BY <1>2 DEF RowsInv, Numbered
    <2> QED
      BY <1>2, <2>1, VersionsOfNumbered, RowsOfDevice
  <1>4. schema.unique => call[c].next \notin Versions(d)
    BY DEF Accepted
  <1> QED
    BY <1>1, <1>3, <1>4

LEMMA InsertedRows ==
  ASSUME ConfigInv, NEW c \in Calls, call[c].pc = "insert",
         Accepted(call[c].dev, call[c].next), table' = Inserted(c),
         UNCHANGED <<schema, status, config>>, overlapped \subseteq overlapped'
  PROVE  RowsInv'
  <1> USE DEF ConfigInv
  <1>a. PICK d : d = call[c].dev
    OBVIOUS
  <1>b. PICK n : n = Len(table[d])
    OBVIOUS
  <1> USE <1>a, <1>b
  <1>1. Taking(c) /\ d \in Devices
    BY DEF Taking, TypeOK
  <1>2. /\ n \in Nat /\ DOMAIN table[d] = 1..n /\ DOMAIN table'[d] = 1..(n + 1)
        /\ \A i \in 1..n : table'[d][i] = table[d][i]
        /\ table'[d][n + 1].version = call[c].next /\ table'[d][n + 1].text = call[c].text
        /\ \A e \in Devices : e # d => table'[e] = table[e] /\ Versions(e)' = Versions(e)
        /\ Versions(d)' = Versions(d) \cup {call[c].next}
    <2>1. Grown(c, d, n)
      BY <1>1, InsertedFacts
    <2> QED
      BY <2>1 DEF Grown, Snapshot
  <1>3. /\ call[c].text <= config[d]
        /\ d \notin overlapped => \A i \in 1..n : table[d][i].text <= call[c].text
        /\ call[c].next \in Nat \ {0} /\ call[c].text \in Nat
        /\ call[c].next = 1 \/ call[c].next - 1 \in Versions(d)
    BY <1>2 DEF CallOK, Accepted, Insertable, TypeOK, CallType
  <1>4. schema.unique \/ d \notin overlapped => call[c].next = n + 1
    BY NextIsLast
  <1>5. Numbered'
    <2> SUFFICES ASSUME NEW e \in Devices, schema'.unique \/ e \notin overlapped',
                        NEW i \in DOMAIN table'[e]
                 PROVE  table'[e][i].version = i
      BY DEF Numbered
    <2>1. CASE e # d
      BY <2>1, <1>2 DEF RowsInv, Numbered
    <2>2. CASE e = d /\ i \in 1..n
      BY <2>2, <1>2 DEF RowsInv, Numbered
    <2>3. CASE e = d /\ i = n + 1
      BY <2>3, <1>2, <1>4
    <2> QED
      BY <2>1, <2>2, <2>3, <1>2
  <1>6. NewerIsNotOlder'
    <2> SUFFICES ASSUME NEW e \in Devices, e \notin overlapped',
                        NEW i \in DOMAIN table'[e], NEW j \in DOMAIN table'[e], i <= j
                 PROVE  table'[e][i].text <= table'[e][j].text
      BY DEF NewerIsNotOlder
    <2>1. CASE e # d
      BY <2>1, <1>2 DEF RowsInv, NewerIsNotOlder
    <2>2. CASE e = d /\ j \in 1..n
      <3>1. i \in 1..n
        BY <2>2, <1>2
      <3> QED
        BY <2>2, <3>1, <1>2 DEF RowsInv, NewerIsNotOlder
    <2>3. CASE e = d /\ j = n + 1 /\ i \in 1..n
      BY <2>3, <1>2, <1>3
    <2>4. CASE e = d /\ j = n + 1 /\ i = n + 1
      BY <2>4, <1>2, <1>3
    <2> QED
      BY <2>1, <2>2, <2>3, <2>4, <1>2, SMTT(30)
  <1>7. \A e \in Devices : Dense(e)'
    <2>1. ASSUME NEW e \in Devices, e # d PROVE Dense(e)'
      BY <2>1, <1>2 DEF RowsInv, Dense
    <2>2. PICK m \in Nat : Versions(d) = 1..m
      BY <1>1 DEF RowsInv, Dense
    <2>3. call[c].next <= m + 1
      BY <2>2, <1>3
    <2>4. Versions(d)' = 1..m \/ Versions(d)' = 1..(m + 1)
      BY <2>2, <2>3, <1>2, <1>3
    <2>5. Dense(d)'
      BY <2>2, <2>4 DEF Dense
    <2> QED
      BY <2>1, <2>5
  <1>8. \A e \in Devices : \A i \in DOMAIN table'[e] : table'[e][i].text <= config'[e]
    <2> TAKE e \in Devices
    <2>1. CASE e # d
      BY <2>1, <1>2 DEF RowsInv
    <2>2. CASE e = d
      BY <2>2, <1>1, <1>2, <1>3 DEF RowsInv
    <2> QED
      BY <2>1, <2>2
  <1> QED
    BY <1>5, <1>6, <1>7, <1>8 DEF RowsInv

LEMMA InsertedStep ==
  ASSUME ConfigInv, NEW c \in Calls, call[c].pc = "insert",
         Accepted(call[c].dev, call[c].next), Len(table[call[c].dev]) < MaxRows,
         table' = Inserted(c), GoOn(c, call[c].todo),
         UNCHANGED <<schema, status, config>>, faults' \in 0..MaxFaults
  PROVE  ConfigInv'
  <1> USE DEF ConfigInv
  <1>a. PICK d : d = call[c].dev
    OBVIOUS
  <1>b. PICK n : n = Len(table[d])
    OBVIOUS
  <1> USE <1>a, <1>b
  <1>1. Taking(c) /\ d \in Devices /\ call[c].todo \in SUBSET Devices
    BY DEF Taking, TypeOK, CallType
  <1>2. /\ Moved(c) /\ call'[c].pc \in {"rest", "device"}
        /\ call'[c].pc = "rest" => call'[c].todo = {}
    BY <1>1, GoOnFacts
  <1>3. /\ n \in Nat /\ Len(table'[d]) = n + 1
        /\ \A e \in Devices : e # d => table'[e] = table[e] /\ Versions(e)' = Versions(e)
        /\ Versions(d)' = Versions(d) \cup {call[c].next}
        /\ table' \in [Devices -> Seq([version : Nat, text : Nat])]
    <2>1. Grown(c, d, n)
      BY <1>1, InsertedFacts
    <2> QED
      BY <2>1 DEF Grown
  <1>4. TypeOK'
    <2>1. \A e \in Devices : Len(table'[e]) <= MaxRows
      <3> TAKE e \in Devices
      <3>1. Len(table[e]) <= MaxRows /\ Len(table[e]) \in Nat
        BY RowsOfDevice DEF TypeOK
      <3>2. CASE e = d
        BY <3>2, <1>3, ConfigAssumption
      <3>3. CASE e # d
        BY <3>1, <3>3, <1>3
      <3> QED
        BY <3>2, <3>3
    <2> QED
      BY <1>2, <1>3, <2>1 DEF Moved, TypeOK
  <1>5. RowsInv'
    BY <1>2, InsertedRows DEF Moved
  <1>6. CallOK(call[c])'
    BY <1>2 DEF CallOK
  <1>7. ASSUME NEW b \in Calls, b # c PROVE CallOK(call[b])'
    <2>1. call'[b] = call[b] /\ CallOK(call[b]) /\ overlapped \subseteq overlapped'
      BY <1>2, <1>7 DEF Moved
    <2>2. CASE call[b].dev = d /\ Taking(b)
      <3>1. d \in overlapped
        BY <2>2, <1>1, <1>7 DEF Alone
      <3> QED
        BY <3>1, <2>1, <2>2, <1>3 DEF CallOK, Insertable
    <2>3. CASE call[b].dev # d /\ Taking(b)
      <3>1. call[b].dev \in Devices
        BY <2>3 DEF TypeOK
      <3> QED
        BY <3>1, <2>1, <2>3, <1>3 DEF CallOK, Insertable
    <2>4. CASE ~Taking(b)
      BY <2>1, <2>4 DEF CallOK, Taking
    <2> QED
      BY <2>2, <2>3, <2>4
  <1> QED
    BY <1>2, <1>4, <1>5, <1>6, <1>7 DEF Moved

LEMMA InsertStep ==
  ASSUME ConfigInv, NEW c \in Calls, Insert(c) \/ Refuse(c)
  PROVE  ConfigInv'
  <1>1. CASE Insert(c)
    BY <1>1, InsertedStep DEF Insert, ConfigInv, TypeOK
  <1>2. CASE Refuse(c)
    BY <1>2, GoOnStep DEF Refuse, Tables, ConfigInv, TypeOK
  <1> QED
    BY <1>1, <1>2

LEMMA FaultStep ==
  ASSUME ConfigInv, NEW c \in Calls, Fault(c)
  PROVE  ConfigInv'
  <1>1. faults' \in 0..MaxFaults
    BY ConfigAssumption DEF Fault, ConfigInv, TypeOK
  <1>2. CASE UNCHANGED table
    BY <1>1, <1>2, GoOnStep DEF Fault, Tables
  <1>3. CASE /\ call[c].pc = "insert" /\ Accepted(call[c].dev, call[c].next)
             /\ Len(table[call[c].dev]) < MaxRows /\ table' = Inserted(c)
    BY <1>1, <1>3, InsertedStep DEF Fault
  <1> QED
    BY <1>2, <1>3 DEF Fault

-----------------------------------------------------------------------------
(* The devices. *)

LEMMA CreateDeviceStep ==
  ASSUME ConfigInv, NEW d \in Devices, CreateDevice(d)
  PROVE  ConfigInv'
  <1> USE DEF ConfigInv
  <1>1. /\ status[d] = "new" /\ status' = [status EXCEPT ![d] = "live"]
        /\ UNCHANGED <<schema, config, table, call, overlapped, faults>>
    BY DEF CreateDevice
  <1>2. TypeOK' /\ \A e \in Devices : e # d => status'[e] = status[e]
    BY <1>1 DEF TypeOK, Taking
  <1>3. \A e : Versions(e)' = Versions(e)
    BY <1>1 DEF Versions
  <1>4. RowsInv'
    BY <1>1, <1>3 DEF RowsInv, Numbered, NewerIsNotOlder, Dense
  <1>5. Alone'
    BY <1>1 DEF Alone, Taking
  <1>6. ASSUME NEW c \in Calls PROVE CallOK(call[c])'
    <2>1. CASE call[c].pc \in {"interfaces", "max", "insert"}
      <3>1. call[c].dev \in Devices /\ call[c].dev # d
        BY <2>1, <1>1 DEF TypeOK, Taking, CallOK
      <3> QED
        BY <2>1, <3>1, <1>1, <1>2, <1>3 DEF CallOK, Insertable
    <2>2. CASE call[c].pc \notin {"interfaces", "max", "insert"}
      BY <2>2, <1>1 DEF CallOK
    <2> QED
      BY <2>1, <2>2
  <1> QED
    BY <1>2, <1>4, <1>5, <1>6

LEMMA DeleteDeviceStep ==
  ASSUME ConfigInv, NEW d \in Devices, DeleteDevice(d)
  PROVE  ConfigInv'
  <1> USE DEF ConfigInv
  <1>1. /\ status' = [status EXCEPT ![d] = "gone"]
        /\ UNCHANGED <<schema, config, call, overlapped, faults>>
    BY DEF DeleteDevice
  <1>2. /\ status'[d] = "gone" /\ \A e \in Devices : e # d => status'[e] = status[e]
        /\ \A e \in Devices : e # d => table'[e] = table[e]
        /\ table'[d] = <<>> \/ table'[d] = table[d]
        /\ schema.fk = "none" => table'[d] = table[d]
    BY <1>1 DEF DeleteDevice, TypeOK
  <1>3. TypeOK'
    <2>1. table' \in [Devices -> Seq([version : Nat, text : Nat])]
      BY DEF DeleteDevice, TypeOK
    <2>2. \A e \in Devices : Len(table'[e]) <= MaxRows
      BY <1>2, ConfigAssumption DEF TypeOK
    <2> QED
      BY <1>1, <2>1, <2>2 DEF TypeOK, Taking
  <1>4. /\ \A e \in Devices : e # d => Versions(e)' = Versions(e)
        /\ Versions(d)' = {} \/ (table'[d] = table[d] /\ Versions(d)' = Versions(d))
        /\ schema.fk = "none" => Versions(d)' = Versions(d)
    BY <1>2 DEF Versions
  <1>5. RowsInv'
    <2>1. Numbered'
      BY <1>1, <1>2 DEF RowsInv, Numbered
    <2>2. NewerIsNotOlder'
      BY <1>1, <1>2 DEF RowsInv, NewerIsNotOlder
    <2>3. {} = 1..0
      OBVIOUS
    <2>4. \A e \in Devices : Dense(e)'
      BY <1>4, <2>3 DEF RowsInv, Dense
    <2>5. \A e \in Devices : \A i \in DOMAIN table'[e] : table'[e][i].text <= config'[e]
      BY <1>1, <1>2 DEF RowsInv
    <2> QED
      BY <2>1, <2>2, <2>4, <2>5 DEF RowsInv
  <1>6. Alone'
    BY <1>1 DEF Alone, Taking
  <1>7. ASSUME NEW c \in Calls PROVE CallOK(call[c])'
    <2>1. CASE Taking(c) /\ call[c].dev = d
      BY <2>1, <1>1, <1>2, <1>4 DEF CallOK, Insertable
    <2>2. CASE Taking(c) /\ call[c].dev # d
      <3>1. call[c].dev \in Devices
        BY <2>2 DEF TypeOK
      <3> QED
        BY <2>2, <3>1, <1>1, <1>2, <1>4 DEF CallOK, Insertable
    <2>3. CASE ~Taking(c)
      BY <2>3, <1>1 DEF CallOK, Taking
    <2> QED
      BY <2>1, <2>2, <2>3
  <1> QED
    BY <1>3, <1>5, <1>6, <1>7

LEMMA EditStep ==
  ASSUME ConfigInv, NEW d \in Devices, Edit(d)
  PROVE  ConfigInv'
  <1> USE DEF ConfigInv
  <1>1. /\ config[d] < MaxEdits /\ config' = [config EXCEPT ![d] = config[d] + 1]
        /\ UNCHANGED <<schema, status, table, call, overlapped, faults>>
    BY DEF Edit
  <1>2. /\ config \in [Devices -> 0..MaxEdits] /\ config' \in [Devices -> 0..MaxEdits]
        /\ \A e \in Devices : config[e] <= config'[e]
    BY <1>1, ConfigAssumption DEF TypeOK
  <1>3. TypeOK'
    BY <1>1, <1>2 DEF TypeOK, Taking
  <1>4. \A e : Versions(e)' = Versions(e) /\ Insertable(e)' = Insertable(e)
    BY <1>1 DEF Versions, Insertable
  <1>5. RowsInv'
    <2>1. \A e \in Devices : \A i \in DOMAIN table[e] : table[e][i].text \in Nat
      BY RowsOfDevice
    <2>2. \A e \in Devices : \A i \in DOMAIN table'[e] : table'[e][i].text <= config'[e]
      BY <2>1, <1>1, <1>2, ConfigAssumption DEF RowsInv
    <2> QED
      BY <2>2, <1>1, <1>4 DEF RowsInv, Numbered, NewerIsNotOlder, Dense
  <1>6. Alone'
    BY <1>1 DEF Alone, Taking
  <1>7. ASSUME NEW c \in Calls PROVE CallOK(call[c])'
    <2>1. CASE call[c].pc \in {"max", "insert"}
      <3>1. call[c].dev \in Devices /\ call[c].text \in Nat
        BY <2>1 DEF TypeOK, Taking, CallType
      <3>2. call[c].text <= config'[call[c].dev]
        BY <2>1, <3>1, <1>2, ConfigAssumption DEF CallOK
      <3> QED
        BY <2>1, <3>1, <3>2, <1>1, <1>4 DEF CallOK
    <2>2. CASE call[c].pc \notin {"max", "insert"}
      BY <2>2, <1>1 DEF CallOK
    <2> QED
      BY <2>1, <2>2
  <1> QED
    BY <1>3, <1>5, <1>6, <1>7

-----------------------------------------------------------------------------
LEMMA ConfigInit == Init => ConfigInv
  <1> SUFFICES ASSUME Init PROVE ConfigInv
    OBVIOUS
  <1> USE DEF Init
  <1>1. \A c \in Calls : call[c] = Resting /\ ~Taking(c)
    BY DEF Resting, Taking
  <1>2. \A d \in Devices : table[d] = <<>> /\ Versions(d) = {}
    <2>1. DOMAIN <<>> = {}
      OBVIOUS
    <2> TAKE d \in Devices
    <2>2. table[d] = <<>>
      OBVIOUS
    <2>3. \A v : v \notin Versions(d)
      BY <2>1, <2>2, VersionsAre
    <2> QED
      BY <2>2, <2>3
  <1>3. TypeOK
    BY <1>1, <1>2, ConfigAssumption DEF TypeOK, Resting, CallType
  <1>4. RowsInv
    <2>1. {} = 1..0
      OBVIOUS
    <2>2. \A d \in Devices : Dense(d)
      BY <1>2, <2>1 DEF Dense
    <2>3. \A d \in Devices : DOMAIN table[d] = {}
      <3>1. DOMAIN <<>> = {}
        OBVIOUS
      <3> TAKE d \in Devices
      <3>2. table[d] = <<>>
        BY <1>2
      <3> QED
        BY <3>1, <3>2, Zenon
    <2> QED
      BY <2>2, <2>3 DEF RowsInv, Numbered, NewerIsNotOlder
  <1>5. Alone
    BY <1>1 DEF Alone
  <1>6. \A c \in Calls : CallOK(call[c])
    BY <1>1 DEF CallOK, Resting
  <1> QED
    BY <1>3, <1>4, <1>5, <1>6 DEF ConfigInv

LEMMA ConfigStep == ConfigInv /\ [Next]_vars => ConfigInv'
  <1> SUFFICES ASSUME ConfigInv, [Next]_vars PROVE ConfigInv'
    OBVIOUS
  <1>1. ASSUME NEW c \in Calls, (\E d \in Devices : StartOne(c, d)) \/ StartAll(c) \/ List(c)
        PROVE  ConfigInv'
    BY <1>1, StartSteps
  <1>2. ASSUME NEW c \in Calls, ReadDevice(c) PROVE ConfigInv'
    BY <1>2, ReadDeviceStep
  <1>3. ASSUME NEW c \in Calls, ReadInterfaces(c) PROVE ConfigInv'
    BY <1>3, ReadInterfacesStep
  <1>4. ASSUME NEW c \in Calls, ReadMax(c) PROVE ConfigInv'
    BY <1>4, ReadMaxStep
  <1>5. ASSUME NEW c \in Calls, Insert(c) \/ Refuse(c) PROVE ConfigInv'
    BY <1>5, InsertStep
  <1>6. ASSUME NEW c \in Calls, Fault(c) PROVE ConfigInv'
    BY <1>6, FaultStep
  <1>7. ASSUME NEW d \in Devices, CreateDevice(d) PROVE ConfigInv'
    BY <1>7, CreateDeviceStep
  <1>8. ASSUME NEW d \in Devices, DeleteDevice(d) PROVE ConfigInv'
    BY <1>8, DeleteDeviceStep
  <1>9. ASSUME NEW d \in Devices, Edit(d) PROVE ConfigInv'
    BY <1>9, EditStep
  <1>10. CASE UNCHANGED vars
    <2>1. UNCHANGED <<schema, status, config, table, call, overlapped, faults>>
      BY <1>10 DEF vars
    <2>2. \A d : Versions(d)' = Versions(d) /\ Insertable(d)' = Insertable(d)
      BY <2>1 DEF Versions, Insertable
    <2>3. TypeOK' /\ Alone'
      BY <2>1 DEF ConfigInv, TypeOK, Alone, Taking
    <2>4. RowsInv'
      BY <2>1, <2>2 DEF ConfigInv, RowsInv, Numbered, NewerIsNotOlder, Dense
    <2>5. \A c \in Calls : CallOK(call[c])'
      BY <2>1, <2>2 DEF ConfigInv, CallOK
    <2> QED
      BY <2>3, <2>4, <2>5 DEF ConfigInv
  <1> QED
    BY <1>1, <1>2, <1>3, <1>4, <1>5, <1>6, <1>7, <1>8, <1>9, <1>10 DEF Next

LEMMA GaplessOfDense ==
  ASSUME \A d \in Devices : Dense(d)
  PROVE  Gapless
  <1> SUFFICES ASSUME NEW d \in Devices, NEW v \in Versions(d), NEW w \in 1..v
               PROVE  w \in Versions(d)
    BY DEF Gapless
  <1>1. PICK m \in Nat : Versions(d) = 1..m
    BY DEF Dense
  <1> QED
    BY <1>1

\* For any devices, calls, schemas and failures: the versions of a device
\* number its snapshots if (device_id, version) is unique or its snapshots
\* take turns, none is ever missing, and of snapshots that take turns the
\* later one never holds the older configuration (takeSnapshot, snapshotAll).
THEOREM VersionsCorrect ==
  Spec => []TypeOK /\ []Numbered /\ []Gapless /\ []NewerIsNotOlder
  <1>1. Init => ConfigInv
    BY ConfigInit
  <1>2. ConfigInv /\ [Next]_vars => ConfigInv'
    BY ConfigStep
  <1>3. ConfigInv => TypeOK /\ Numbered /\ Gapless /\ NewerIsNotOlder
    BY GaplessOfDense DEF ConfigInv, RowsInv
  <1> QED
    BY <1>1, <1>2, <1>3, PTL DEF Spec

\* Gapless: no version of a device is ever skipped, whatever overlaps or fails.
COROLLARY GaplessCorrect == Spec => []Gapless
  BY VersionsCorrect, PTL

\* NewerIsNotOlder: of two snapshots that took turns the one with the higher
\* version does not hold the older configuration.
COROLLARY NewerCorrect == Spec => []NewerIsNotOlder
  BY VersionsCorrect, PTL

-----------------------------------------------------------------------------
(* snapshotAll leaves out no device. *)

\* In one step, what is on the list of call c stays there or is taken up.
Listed(c) ==
  \A d \in call[c].todo :
    d \in call'[c].todo \/ (call'[c].pc = "device" /\ call'[c].dev = d)

LEMMA ListedAfterGoOn ==
  ASSUME TypeOK, NEW c \in Calls, GoOn(c, call[c].todo)
  PROVE  Listed(c)
  <1>1. CASE End(c) /\ call[c].todo = {}
    BY <1>1 DEF Listed
  <1>2. ASSUME NEW d \in call[c].todo, Begin(c, d, call[c].todo \ {d}) PROVE Listed(c)
    BY <1>2 DEF Begin, Listed, TypeOK
  <1> QED
    BY <1>1, <1>2 DEF GoOn

\* An action of call b, seen from any call c.
LEMMA ListedAfterCall ==
  ASSUME ConfigInv, NEW b \in Calls, NEW c \in Calls,
         \/ \E d \in Devices : StartOne(b, d)
         \/ StartAll(b) \/ List(b) \/ ReadDevice(b) \/ ReadInterfaces(b)
         \/ ReadMax(b) \/ Insert(b) \/ Refuse(b) \/ Fault(b)
  PROVE  Listed(c)
  <1> USE DEF ConfigInv
  <1>1. CASE b # c
    <2>1. call'[c] = call[c]
      BY <1>1 DEF StartOne, StartAll, List, ReadDevice, ReadInterfaces, ReadMax, Insert,
                  Refuse, Fault, GoOn, End, Begin, Send, TypeOK
    <2> QED
      BY <2>1 DEF Listed
  <1>2. CASE b = c
    <2>1. CASE call[c].pc \in {"rest", "list"}
      BY <2>1 DEF CallOK, Listed
    <2>2. CASE GoOn(c, call[c].todo)
      BY <2>2, ListedAfterGoOn
    <2>4. ASSUME NEW v \in CallType, Send(c, v), v.todo = call[c].todo PROVE Listed(c)
      BY <2>4 DEF Send, Listed, TypeOK
    <2>5. CASE ReadDevice(c) /\ status[call[c].dev] = "live"
      <3>1. [call[c] EXCEPT !.pc = "interfaces"] \in CallType
            /\ [call[c] EXCEPT !.pc = "interfaces"].todo = call[c].todo
        BY DEF TypeOK, CallType
      <3> QED
        BY <2>4, <2>5, <3>1 DEF ReadDevice
    <2>6. CASE ReadInterfaces(c)
      BY <2>6 DEF ReadInterfaces, Send, Listed, TypeOK, CallType
    <2>7. CASE ReadMax(c)
      BY <2>7 DEF ReadMax, Send, Listed, TypeOK, CallType
    <2> QED
      BY <1>2, <2>1, <2>2, <2>5, <2>6, <2>7
         DEF StartOne, StartAll, List, ReadDevice, Insert, Refuse, Fault
  <1> QED
    BY <1>1, <1>2

LEMMA ListedStep == ConfigInv /\ [Next]_vars => \A c \in Calls : Listed(c)
  <1> SUFFICES ASSUME ConfigInv, [Next]_vars, NEW c \in Calls PROVE Listed(c)
    OBVIOUS
  <1>1. CASE call' = call
    BY <1>1 DEF Listed
  <1>2. ASSUME NEW d \in Devices, CreateDevice(d) \/ DeleteDevice(d) \/ Edit(d)
        PROVE  call' = call
    BY <1>2 DEF CreateDevice, DeleteDevice, Edit
  <1> QED
    BY <1>1, <1>2, ListedAfterCall DEF Next, vars

\* For any devices, calls, schemas and failures, snapshotAll comes to every
\* device of its list before it ends, whatever became of those before it.
THEOREM SweepCorrect == Spec => SweepGoesOn
  <1>1. Init => ConfigInv
    BY ConfigInit
  <1>2. ConfigInv /\ [Next]_vars => ConfigInv'
    BY ConfigStep
  <1>3. ConfigInv /\ [Next]_vars => \A c \in Calls : Listed(c)
    BY ListedStep
  <1>4. (\A c \in Calls : Listed(c)) =>
          \A c \in Calls : \A d \in call[c].todo :
            d \in call'[c].todo \/ (call'[c].pc = "device" /\ call'[c].dev = d)
    BY DEF Listed
  <1> QED
    BY <1>1, <1>2, <1>3, <1>4, PTL DEF Spec, SweepGoesOn

=============================================================================

------------------------- MODULE MetricsWriterProofs -------------------------
(***************************************************************************)
(* Theorems about MetricsWriter, for any names, any number of devices and  *)
(* of writes under way, and every kind of foreign key.                     *)
(***************************************************************************)
EXTENDS MetricsWriter, TLAPS

\* A map, and a set of rows, that give no device another one's id.
MapOK(m)      == m \in IdMaps /\ \A n \in DOMAIN m : devices[m[n]].name = n
RowsOK(batch) == batch \subseteq Simulated \X Ids /\ \A r \in batch : devices[r[2]].name = r[1]

WriterOK(v) ==
  /\ v \in [pc : {"rest", "load", "loaded", "write"}, ids : IdMaps,
            batch : SUBSET (Simulated \X Ids)]
  /\ MapOK(v.ids) /\ RowsOK(v.batch)

WriterInv ==
  /\ TypeOK /\ RowsOK(metrics)
  /\ MapOK(cache.ids)
  /\ \A w \in Slots : WriterOK(writers[w])

-----------------------------------------------------------------------------
\* Rows are only added to the registry, and never renamed.
Grown ==
  /\ Ids \subseteq Ids'
  /\ \A i \in Ids : devices'[i].name = devices[i].name

LEMMA MapKept ==
  ASSUME Grown, NEW m, MapOK(m)
  PROVE  m \in IdMaps' /\ \A n \in DOMAIN m : devices'[m[n]].name = n
  <1>1. PICK S \in SUBSET Names : m \in [S -> Ids]
    BY DEF MapOK, IdMaps
  <1>2. m \in [S -> Ids']
    BY <1>1 DEF Grown
  <1> QED
    BY <1>1, <1>2 DEF Grown, MapOK, IdMaps

LEMMA RowsKept ==
  ASSUME Grown, NEW batch, RowsOK(batch)
  PROVE  batch \subseteq Simulated \X Ids' /\ \A r \in batch : devices'[r[2]].name = r[1]
  <1>1. \A r \in batch : r \in Simulated \X Ids'
    BY DEF RowsOK, Grown
  <1>2. \A r \in batch : r[2] \in Ids
    BY DEF RowsOK
  <1> QED
    BY <1>1, <1>2 DEF RowsOK, Grown

\* When the registry only grows, whatever the calls and the cache hold stays
\* as good as it was.
LEMMA GrownStep ==
  ASSUME WriterInv, Grown, UNCHANGED <<cache, writers>>
  PROVE  /\ cache' \in [set : BOOLEAN, ids : IdMaps'] /\ MapOK(cache.ids)'
         /\ writers' \in [Slots -> [pc : {"rest", "load", "loaded", "write"}, ids : IdMaps',
                                    batch : SUBSET (Simulated \X Ids')]]
         /\ \A w \in Slots : WriterOK(writers[w])'
  <1>1. cache.ids \in IdMaps' /\ \A n \in DOMAIN cache.ids : devices'[cache.ids[n]].name = n
    BY MapKept DEF WriterInv
  <1>2. cache' \in [set : BOOLEAN, ids : IdMaps'] /\ MapOK(cache.ids)'
    BY <1>1 DEF WriterInv, TypeOK, MapOK
  <1>3. \A w \in Slots :
          /\ writers[w].ids \in IdMaps'
          /\ \A n \in DOMAIN writers[w].ids : devices'[writers[w].ids[n]].name = n
    BY MapKept DEF WriterInv, WriterOK
  <1>4. \A w \in Slots :
          /\ writers[w].batch \subseteq Simulated \X Ids'
          /\ \A r \in writers[w].batch : devices'[r[2]].name = r[1]
    BY RowsKept DEF WriterInv, WriterOK
  <1>5. \A w \in Slots :
          writers[w] \in [pc : {"rest", "load", "loaded", "write"}, ids : IdMaps',
                          batch : SUBSET (Simulated \X Ids')]
    BY <1>3, <1>4 DEF WriterInv, WriterOK
  <1>6. \A w \in Slots : WriterOK(writers[w])'
    BY <1>3, <1>4, <1>5 DEF WriterOK, MapOK, RowsOK
  <1> QED
    BY <1>2, <1>5, <1>6 DEF WriterInv, TypeOK

LEMMA CreateDeviceStep ==
  ASSUME WriterInv, NEW n \in Names, CreateDevice(n)
  PROVE  WriterInv'
  <1> USE WriterAssumption
  <1>1. /\ devices' = Append(devices, [name |-> n, live |-> TRUE])
        /\ devices \in Seq([name : Names, live : BOOLEAN]) /\ Len(devices) < MaxDevices
        /\ UNCHANGED <<metrics, cache, tick, writers, faults, deletes, restarts>>
    BY DEF CreateDevice, WriterInv, TypeOK
  <1>2. devices' \in Seq([name : Names, live : BOOLEAN]) /\ Len(devices') = Len(devices) + 1
    BY <1>1
  <1>3. Grown
    BY <1>1, <1>2 DEF Grown, Ids
  <1>4. RowsOK(metrics)'
    BY <1>1, <1>3, RowsKept DEF WriterInv, RowsOK
  <1>5. Len(devices') <= MaxDevices
    BY <1>1, <1>2
  <1>6. metrics' \subseteq Simulated \X Ids'
    BY <1>4 DEF RowsOK
  <1>7. TypeOK'
    BY <1>1, <1>2, <1>3, <1>5, <1>6, GrownStep DEF WriterInv, TypeOK
  <1> QED
    BY <1>1, <1>3, <1>4, <1>7, GrownStep DEF WriterInv

LEMMA DeleteDeviceStep ==
  ASSUME WriterInv, NEW i \in Ids, DeleteDevice(i)
  PROVE  WriterInv'
  <1> USE WriterAssumption
  <1>1. /\ devices' = [devices EXCEPT ![i].live = FALSE]
        /\ devices \in Seq([name : Names, live : BOOLEAN]) /\ Len(devices) <= MaxDevices
        /\ UNCHANGED <<cache, tick, writers, faults, restarts>>
        /\ deletes' \in 0..MaxDeletes /\ metrics' \subseteq metrics
    BY DEF DeleteDevice, WriterInv, TypeOK
  <1>2. /\ devices' \in Seq([name : Names, live : BOOLEAN]) /\ Len(devices') = Len(devices)
        /\ \A j \in 1..Len(devices) : devices'[j].name = devices[j].name
    <2> DEFINE Row == [name : Names, live : BOOLEAN]
               v == [devices[i] EXCEPT !.live = FALSE]
    <2>1. i \in 1..Len(devices)
      BY DEF Ids
    <2>2. devices \in Seq(Row) /\ devices' = [devices EXCEPT ![i] = v]
      BY <1>1
    <2>3. devices[i] \in Row
      <3> HIDE DEF Row
      <3> QED
        BY ONLY <2>1, <2>2
    <2>4. v \in Row /\ v.name = devices[i].name
      BY ONLY <2>3
    <2> HIDE DEF Row, v
    <2>5. devices' \in Seq(Row) /\ Len(devices') = Len(devices)
      BY ONLY <2>1, <2>2, <2>4
    <2>6. \A j \in 1..Len(devices) : devices'[j] = IF j = i THEN v ELSE devices[j]
      BY ONLY <2>1, <2>2, <2>4
    <2> QED
      BY <2>4, <2>5, <2>6 DEF Row
  <1>3. Grown
    BY <1>2 DEF Grown, Ids
  <1>4. RowsOK(metrics)'
    <2>1. RowsOK(metrics')
      BY <1>1 DEF WriterInv, RowsOK
    <2> QED
      BY <1>3, <2>1, RowsKept DEF RowsOK
  <1> QED
    BY <1>1, <1>2, <1>3, <1>4, GrownStep DEF WriterInv, TypeOK, RowsOK

-----------------------------------------------------------------------------
\* A step of one call, the registry standing still.
LEMMA CallStep ==
  ASSUME WriterInv, UNCHANGED devices, NEW w \in Slots, NEW v, WriterOK(v), Become(w, v),
         RowsOK(metrics'), cache' \in [set : BOOLEAN, ids : IdMaps], MapOK(cache'.ids),
         tick' \in 0..(WriteEvery - 1), faults' \in 0..MaxFaults,
         deletes' \in 0..MaxDeletes, restarts' \in 0..MaxRestarts
  PROVE  WriterInv'
  <1>1. Ids' = Ids /\ IdMaps' = IdMaps
    BY DEF Ids, IdMaps
  <1>2. /\ writers' \in [Slots -> [pc : {"rest", "load", "loaded", "write"}, ids : IdMaps,
                                   batch : SUBSET (Simulated \X Ids)]]
        /\ \A x \in Slots : WriterOK(writers'[x])
    BY DEF Become, WriterInv, TypeOK, WriterOK
  <1>3. \A x \in Slots : WriterOK(writers[x])'
    BY <1>1, <1>2 DEF WriterOK, MapOK, RowsOK
  <1>4. RowsOK(metrics)' /\ MapOK(cache.ids)'
    BY <1>1 DEF RowsOK, MapOK
  <1>5. TypeOK'
    BY <1>1, <1>2 DEF WriterInv, TypeOK, RowsOK
  <1> QED
    BY <1>3, <1>4, <1>5 DEF WriterInv

LEMMA NoIdsOK == MapOK(NoIds) /\ RowsOK({})
  <1>1. NoIds \in [{} -> Ids] /\ DOMAIN NoIds = {}
    BY DEF NoIds
  <1> QED
    BY <1>1 DEF MapOK, RowsOK, IdMaps

LEMMA CallsOK ==
  /\ WriterOK(Resting) /\ WriterOK(Loading)
  /\ \A m : MapOK(m) => WriterOK(Loaded(m)) /\ WriterOK(Writing(m))
  <1>1. WriterOK(Resting) /\ WriterOK(Loading)
    BY NoIdsOK DEF WriterOK, Resting, Loading, MapOK, RowsOK
  <1>2. ASSUME NEW m, MapOK(m)
        PROVE  WriterOK(Loaded(m)) /\ WriterOK(Writing(m))
    <2>1. RowsOK(Batch(m))
      <3>1. PICK S \in SUBSET Names : m \in [S -> Ids]
        BY <1>2 DEF MapOK, IdMaps
      <3> QED
        BY <1>2, <3>1 DEF Batch, RowsOK, MapOK
    <2>2. WriterOK(Loaded(m))
      BY <1>2, NoIdsOK DEF WriterOK, Loaded, MapOK, RowsOK
    <2>3. WriterOK([pc |-> "write", ids |-> NoIds, batch |-> Batch(m)])
      BY <2>1, NoIdsOK DEF WriterOK, MapOK, RowsOK
    <2> QED
      BY <1>1, <2>2, <2>3 DEF Writing
  <1> QED
    BY <1>1, <1>2

LEMMA WriterSteps ==
  ASSUME WriterInv, NEW w \in Slots,
         StartWrite(w) \/ AnswerLoad(w) \/ LoadReply(w) \/ Write(w) \/ RefuseWrite(w) \/ Fault(w)
  PROVE  WriterInv'
  <1> USE WriterAssumption
  <1>1. /\ RowsOK(metrics) /\ MapOK(cache.ids) /\ WriterOK(writers[w])
        /\ cache \in [set : BOOLEAN, ids : IdMaps] /\ tick \in 0..(WriteEvery - 1)
        /\ faults \in 0..MaxFaults /\ deletes \in 0..MaxDeletes /\ restarts \in 0..MaxRestarts
    BY DEF WriterInv, TypeOK
  <1>2. CASE StartWrite(w)
    <2>1. WriterOK(IF cache.set THEN Writing(cache.ids) ELSE Loading)
      BY <1>1, CallsOK
    <2> QED
      BY <1>1, <1>2, <2>1, CallStep DEF StartWrite
  <1>3. CASE AnswerLoad(w)
    <2>1. PICK m \in Loads : Become(w, Loaded(m))
      BY <1>3 DEF AnswerLoad
    <2>2. MapOK(m)
      <3>1. {n \in Names : Registered(n)} \in SUBSET Names /\ Live \subseteq Ids
        BY DEF Live
      <3>2. m \in [{n \in Names : Registered(n)} -> Live]
        BY DEF Loads
      <3>3. m \in [{n \in Names : Registered(n)} -> Ids]
        BY <3>1, <3>2
      <3>4. m \in IdMaps
        BY <3>1, <3>3 DEF IdMaps
      <3> QED
        BY <3>4 DEF MapOK, Loads
    <2>3. WriterOK(Loaded(m))
      BY <2>2, CallsOK
    <2> QED
      BY <1>1, <1>3, <2>1, <2>3, CallStep DEF AnswerLoad
  <1>4. CASE LoadReply(w)
    <2> DEFINE m == writers[w].ids
    <2>1. MapOK(m) /\ WriterOK(Writing(m))
      BY <1>1, CallsOK DEF WriterOK
    <2>2. cache' \in [set : BOOLEAN, ids : IdMaps] /\ MapOK(cache'.ids)
      BY <1>4, <2>1 DEF LoadReply, MapOK
    <2> QED
      BY <1>1, <1>4, <2>1, <2>2, CallStep DEF LoadReply
  <1>5. CASE Write(w)
    <2>1. RowsOK(metrics')
      BY <1>1, <1>5 DEF Write, RowsOK, WriterOK
    <2> QED
      BY <1>1, <1>5, <2>1, CallsOK, CallStep DEF Write
  <1>6. CASE RefuseWrite(w)
    BY <1>1, <1>6, CallsOK, CallStep DEF RefuseWrite
  <1>7. CASE Fault(w)
    BY <1>1, <1>7, CallsOK, CallStep DEF Fault
  <1> QED
    BY <1>2, <1>3, <1>4, <1>5, <1>6, <1>7

\* Steps on which no table, no cache and no call depends.
LEMMA TickStep ==
  ASSUME WriterInv, Tick \/ UNCHANGED vars
  PROVE  WriterInv'
  <1> USE WriterAssumption
  <1>1. UNCHANGED <<devices, metrics, cache, writers, faults, deletes, restarts>>
        /\ tick' \in 0..(WriteEvery - 1)
    BY DEF Tick, vars, WriterInv, TypeOK
  <1>2. Ids' = Ids /\ IdMaps' = IdMaps
    BY <1>1 DEF Ids, IdMaps
  <1>3. TypeOK'
    BY <1>1, <1>2 DEF WriterInv, TypeOK
  <1>4. RowsOK(metrics)' /\ MapOK(cache.ids)' /\ \A w \in Slots : WriterOK(writers[w])'
    BY <1>1, <1>2 DEF WriterInv, RowsOK, MapOK, WriterOK
  <1> QED
    BY <1>3, <1>4 DEF WriterInv

LEMMA RestartStep ==
  ASSUME WriterInv, Restart
  PROVE  WriterInv'
  <1> USE WriterAssumption
  <1>1. /\ UNCHANGED <<devices, metrics, faults, deletes>>
        /\ cache' = [set |-> FALSE, ids |-> NoIds] /\ tick' = 0
        /\ writers' = [w \in Slots |-> Resting] /\ restarts' \in 0..MaxRestarts
    BY DEF Restart, WriterInv, TypeOK
  <1>2. Ids' = Ids /\ IdMaps' = IdMaps
    BY <1>1 DEF Ids, IdMaps
  <1>3. cache' \in [set : BOOLEAN, ids : IdMaps] /\ MapOK(cache'.ids)
    BY <1>1, NoIdsOK DEF MapOK
  <1>4. /\ writers' \in [Slots -> [pc : {"rest", "load", "loaded", "write"}, ids : IdMaps,
                                   batch : SUBSET (Simulated \X Ids)]]
        /\ \A w \in Slots : WriterOK(writers'[w])
    BY <1>1, CallsOK DEF WriterOK
  <1>5. TypeOK'
    BY <1>1, <1>2, <1>3, <1>4 DEF WriterInv, TypeOK
  <1>6. RowsOK(metrics)' /\ MapOK(cache.ids)' /\ \A w \in Slots : WriterOK(writers[w])'
    BY <1>1, <1>2, <1>3, <1>4 DEF WriterInv, RowsOK, MapOK, WriterOK
  <1> QED
    BY <1>5, <1>6 DEF WriterInv

-----------------------------------------------------------------------------
\* Whatever the schema does to the metrics of a deleted device, and however
\* writes, loads, creations, deletions and restarts interleave, no device's
\* metrics are filed under another one's id.
THEOREM WriterCorrect == Spec => []TypeOK /\ []Attributed
  <1>1. Init => WriterInv
    <2> SUFFICES ASSUME Init PROVE WriterInv
      OBVIOUS
    <2> USE WriterAssumption
    <2>1. PICK k \in 0..MaxDevices : devices \in [1..k -> [name : Names, live : {TRUE}]]
      BY DEF Init
    <2>2. devices \in Seq([name : Names, live : BOOLEAN]) /\ Len(devices) <= MaxDevices
      <3> DEFINE Row == [name : Names, live : BOOLEAN]
      <3>1. devices \in [1..k -> Row]
        BY <2>1
      <3>2. k \in Nat
        BY <2>1
      <3> HIDE DEF Row
      <3>3. devices \in Seq(Row)
        BY ONLY <3>1, <3>2
      <3>4. Len(devices) = k
        BY ONLY <3>1, <3>2, <3>3
      <3> QED
        BY <2>1, <3>3, <3>4 DEF Row
    <2>3. cache \in [set : BOOLEAN, ids : IdMaps] /\ MapOK(cache.ids)
      BY NoIdsOK DEF Init, MapOK
    <2>4. /\ writers \in [Slots -> [pc : {"rest", "load", "loaded", "write"}, ids : IdMaps,
                                    batch : SUBSET (Simulated \X Ids)]]
          /\ \A w \in Slots : WriterOK(writers[w])
      BY CallsOK DEF Init, WriterOK
    <2>5. RowsOK(metrics)
      BY NoIdsOK DEF Init
    <2>6. TypeOK
      BY <2>2, <2>3, <2>4, <2>5 DEF Init, TypeOK, RowsOK
    <2> QED
      BY <2>3, <2>4, <2>5, <2>6 DEF WriterInv
  <1>2. WriterInv /\ [Next]_vars => WriterInv'
    BY CreateDeviceStep, DeleteDeviceStep, TickStep, WriterSteps, RestartStep DEF Next
  <1>3. WriterInv => TypeOK /\ Attributed
    BY DEF WriterInv, RowsOK, Attributed
  <1> QED
    BY <1>1, <1>2, <1>3, PTL DEF Spec

=============================================================================

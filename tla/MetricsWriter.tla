---------------------------- MODULE MetricsWriter ----------------------------
(***************************************************************************)
(* The device-metrics writer of src/src/simulation/simulation.service.ts   *)
(* beside the device registry of src/src/devices/devices.service.ts.       *)
(* Every fifth tick of a timer that waits for nobody, persistMetrics files *)
(* one row per simulated device under the id which deviceIdCache has for   *)
(* its name.  The cache is loaded by the first write that can load it and  *)
(* never again; devices come and go all the while.                         *)
(*                                                                         *)
(* The sampled values are left out: a row is the pair of the simulated     *)
(* device it describes and the id it is filed under.                       *)
(***************************************************************************)
EXTENDS Integers, Sequences

CONSTANTS
  Names,        \* device names
  Simulated,    \* the names of the devices the engine simulates
  Slots,        \* bound on writes under way at the same time
  WriteEvery,   \* WRITE_EVERY_N_TICKS
  ForeignKey,   \* what the schema does to the metrics of a deleted device
  MaxDevices,   \* bound on devices ever created
  MaxDeletes,   \* bound on devices deleted
  MaxFaults,    \* bound on failed queries and lost replies
  MaxRestarts   \* bound on restarts

\* The schema is not part of the repository: device_metrics.device_id may be
\* a plain number, or a reference that cascades or refuses a deletion.
ASSUME WriterAssumption ==
  /\ Simulated \subseteq Names
  /\ WriteEvery \in Nat \ {0}
  /\ ForeignKey \in {"none", "cascade", "restrict"}
  /\ MaxDevices \in Nat /\ MaxDeletes \in Nat /\ MaxFaults \in Nat /\ MaxRestarts \in Nat

VARIABLES
  devices,   \* table devices, by id: name, and whether the row is still there
  metrics,   \* table device_metrics: <<name of the simulated device, device_id>>
  cache,     \* deviceIdCache: whether it is set, and its ids by name
  tick,      \* tickCount modulo WriteEvery
  writers,   \* the calls of persistMetrics
  faults, deletes, restarts

vars == <<devices, metrics, cache, tick, writers, faults, deletes, restarts>>

-----------------------------------------------------------------------------
NoIds == [n \in {} |-> 0]

Ids  == 1..Len(devices)
Live == {i \in Ids : devices[i].live}
Registered(n) == \E i \in Live : devices[i].name = n

\* A new Map over the rows of SELECT id, name FROM devices: when two rows have
\* one name, the last of an unspecified order stays.
Loads == {m \in [{n \in Names : Registered(n)} -> Live] :
            \A n \in DOMAIN m : devices[m[n]].name = n}

\* The rows of a write: the simulated devices the cache knows.
Batch(ids) == {<<n, ids[n]>> : n \in DOMAIN ids \cap Simulated}

\* A call of persistMetrics: waiting for its SELECT or its INSERT, or none.
Resting      == [pc |-> "rest", ids |-> NoIds, batch |-> {}]
Loading      == [pc |-> "load", ids |-> NoIds, batch |-> {}]
Loaded(m)    == [pc |-> "loaded", ids |-> m, batch |-> {}]
Writing(ids) == IF Batch(ids) = {} THEN Resting
                ELSE [pc |-> "write", ids |-> NoIds, batch |-> Batch(ids)]

Become(w, v) == writers' = [writers EXCEPT ![w] = v]

-----------------------------------------------------------------------------
(* The device registry. *)

CreateDeviceReusing(n) ==   \* variant: ids are MAX(id) + 1
  LET new  == [name |-> n, live |-> TRUE]
      free == {i \in Ids : i = Len(devices) /\ ~devices[i].live} IN
  /\ free # {} \/ Len(devices) < MaxDevices
  /\ devices' = IF free = {} THEN Append(devices, new)
                             ELSE [i \in Ids |-> IF i \in free THEN new ELSE devices[i]]
  /\ UNCHANGED <<metrics, cache, tick, writers, faults, deletes, restarts>>

\* DevicesService.create: a row with the next id of the sequence.
CreateDevice(n) ==
  /\ Len(devices) < MaxDevices
  /\ devices' = Append(devices, [name |-> n, live |-> TRUE])
  /\ UNCHANGED <<metrics, cache, tick, writers, faults, deletes, restarts>>

\* DevicesService.delete.
DeleteDevice(i) ==
  /\ i \in Live /\ deletes < MaxDeletes /\ deletes' = deletes + 1
  /\ ForeignKey = "restrict" => \A r \in metrics : r[2] # i
  /\ devices' = [devices EXCEPT ![i].live = FALSE]
  /\ metrics' = IF ForeignKey = "cascade" THEN {r \in metrics : r[2] # i} ELSE metrics
  /\ UNCHANGED <<cache, tick, writers, faults, restarts>>

-----------------------------------------------------------------------------
(* The writer. *)

\* onTick between two writes.
Tick ==
  /\ tick + 1 < WriteEvery
  /\ tick' = tick + 1
  /\ UNCHANGED <<devices, metrics, cache, writers, faults, deletes, restarts>>

\* onTick on a multiple of WRITE_EVERY_N_TICKS: persistMetrics runs up to its
\* SELECT, or with the cache set up to its INSERT.
StartWrite(w) ==
  /\ tick + 1 = WriteEvery /\ writers[w].pc = "rest"
  /\ tick' = 0
  /\ Become(w, IF cache.set THEN Writing(cache.ids) ELSE Loading)
  /\ UNCHANGED <<devices, metrics, cache, faults, deletes, restarts>>

\* loadDeviceIds: the database reads the registry ...
AnswerLoad(w) ==
  /\ writers[w].pc = "load"
  /\ \E m \in Loads : Become(w, Loaded(m))
  /\ UNCHANGED <<devices, metrics, cache, tick, faults, deletes, restarts>>

\* ... and the answer, whatever has happened since, becomes the cache.
LoadReply(w) ==
  /\ writers[w].pc = "loaded"
  /\ cache' = [set |-> TRUE, ids |-> writers[w].ids]
  /\ Become(w, Writing(writers[w].ids))
  /\ UNCHANGED <<devices, metrics, tick, faults, deletes, restarts>>

\* One INSERT for all devices: one unknown device_id refuses them all.
Accepted(batch) == ForeignKey = "none" \/ \A r \in batch : r[2] \in Live

Write(w) ==
  /\ writers[w].pc = "write" /\ Accepted(writers[w].batch)
  /\ metrics' = metrics \cup writers[w].batch
  /\ Become(w, Resting)
  /\ UNCHANGED <<devices, cache, tick, faults, deletes, restarts>>

\* The write is refused: onTick only logs it.
RefuseWrite(w) ==
  /\ writers[w].pc = "write" /\ ~Accepted(writers[w].batch)
  /\ Become(w, Resting)
  /\ UNCHANGED <<devices, metrics, cache, tick, faults, deletes, restarts>>

FaultCaches(w) ==   \* variant: a failed load is remembered as an empty one
  /\ writers[w].pc # "rest" /\ faults < MaxFaults /\ faults' = faults + 1
  /\ cache' = IF writers[w].pc = "load" THEN [set |-> TRUE, ids |-> NoIds] ELSE cache
  /\ Become(w, Resting)
  /\ UNCHANGED <<devices, metrics, tick, deletes, restarts>>

\* A query or the reply to a SELECT is lost: onTick only logs it.
Fault(w) ==
  /\ writers[w].pc # "rest" /\ faults < MaxFaults /\ faults' = faults + 1
  /\ Become(w, Resting)
  /\ UNCHANGED <<devices, metrics, cache, tick, deletes, restarts>>

\* The process restarts: its caches and its calls are gone.
Restart ==
  /\ restarts < MaxRestarts /\ restarts' = restarts + 1
  /\ cache' = [set |-> FALSE, ids |-> NoIds]
  /\ tick' = 0
  /\ writers' = [w \in Slots |-> Resting]
  /\ UNCHANGED <<devices, metrics, faults, deletes>>

Init ==
  /\ devices \in UNION {[1..k -> [name : Names, live : {TRUE}]] : k \in 0..MaxDevices}
  /\ metrics = {}
  /\ cache = [set |-> FALSE, ids |-> NoIds]
  /\ tick = 0
  /\ writers = [w \in Slots |-> Resting]
  /\ faults = 0 /\ deletes = 0 /\ restarts = 0

Answer(w) == AnswerLoad(w) \/ LoadReply(w) \/ Write(w) \/ RefuseWrite(w)

Next ==
  \/ \E n \in Names : CreateDevice(n)
  \/ \E i \in Ids : DeleteDevice(i)
  \/ Tick
  \/ \E w \in Slots :
       \/ StartWrite(w) \/ AnswerLoad(w) \/ LoadReply(w)
       \/ Write(w) \/ RefuseWrite(w) \/ Fault(w)
  \/ Restart

Spec == Init /\ [][Next]_vars

\* setInterval goes on firing, and the database answers in the end.
Fairness ==
  /\ WF_vars(Tick) /\ WF_vars(\E w \in Slots : StartWrite(w))
  /\ \A w \in Slots : WF_vars(Answer(w))

LiveSpec == Spec /\ Fairness

-----------------------------------------------------------------------------
(* Properties. *)

IdMaps == UNION {[S -> Ids] : S \in SUBSET Names}

\* The types of the tables, the cache and the calls.
TypeOK ==
  /\ devices \in Seq([name : Names, live : BOOLEAN]) /\ Len(devices) <= MaxDevices
  /\ metrics \subseteq Simulated \X Ids
  /\ cache \in [set : BOOLEAN, ids : IdMaps]
  /\ tick \in 0..(WriteEvery - 1)
  /\ writers \in [Slots -> [pc : {"rest", "load", "loaded", "write"}, ids : IdMaps,
                            batch : SUBSET (Simulated \X Ids)]]
  /\ faults \in 0..MaxFaults /\ deletes \in 0..MaxDeletes /\ restarts \in 0..MaxRestarts

\* However stale the cache is, no device's metrics are ever filed under the
\* id of another one: devices are deleted and created again, writes overlap,
\* a slow load replaces the cache of a faster one.
Attributed == \A r \in metrics : devices[r[2]].name = r[1]

\* The cache names rows of the registry.
CacheLive == \A n \in DOMAIN cache.ids : cache.ids[n] \in Live

\* A write that files metrics for device n.
Filed(n) == \E w \in Slots : n \in {r[1] : r \in writers[w].batch} /\ Write(w)

\* A simulated device which is registered throughout has its metrics
\* persisted again and again, whatever queries fail, as long as no cached
\* device is deleted.
Persisted ==
  \A n \in Simulated : [](Registered(n) /\ CacheLive) => []<><<Filed(n)>>_vars

=============================================================================

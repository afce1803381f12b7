---------------------------- MODULE ConfigVersions ----------------------------
(***************************************************************************)
(* The configuration snapshots of                                          *)
(* src/src/configuration/configuration.service.ts.  takeSnapshot reads a   *)
(* device and its interfaces, renders its configuration, takes the highest *)
(* version so far plus one, and inserts the row: four queries without a    *)
(* transaction, between which other calls run.  snapshotAll does so for    *)
(* one device after the other and swallows their failures.                 *)
(*                                                                         *)
(* A configuration text is the revision of what it was rendered from; the  *)
(* time that the text also carries is left out here, see ConfigGenerator.  *)
(* A continuation touches nothing but the locals of its call, so a step is *)
(* the execution of a query together with what follows its reply.          *)
(***************************************************************************)
EXTENDS Integers, Sequences

CONSTANTS
  Devices,    \* the ids of devices, before, during and after they exist
  Calls,      \* calls of takeSnapshot and snapshotAll under way at once
  Sweeps,     \* those of them that may be calls of snapshotAll
  Schemas,    \* what the schema may be, see below
  MaxRows,    \* bound on the snapshots of a device
  MaxEdits,   \* bound on the revisions of a device
  MaxFaults   \* bound on failed queries and lost replies

\* The schema is not part of the repository: (device_id, version) may be
\* unique, and device_id a plain number or a reference that cascades or
\* refuses a deletion.
Schema == [unique : BOOLEAN, fk : {"none", "cascade", "restrict"}]

ASSUME ConfigAssumption ==
  /\ Schemas \subseteq Schema
  /\ Sweeps \subseteq Calls
  /\ MaxRows \in Nat /\ MaxEdits \in Nat /\ MaxFaults \in Nat

VARIABLES
  schema,      \* the schema the database has
  status,      \* of each device: not created yet, live, deleted
  config,      \* the revision of each device's interfaces (its row is never updated)
  table,       \* table device_config_snapshots: the rows of each device, as inserted
  call,        \* the calls under way
  overlapped,  \* history: devices of which two snapshots were taken at once
  faults

vars == <<schema, status, config, table, call, overlapped, faults>>

-----------------------------------------------------------------------------
Snapshot(v, r) == [version |-> v, text |-> r]
Versions(d)    == {table[d][i].version : i \in DOMAIN table[d]}

\* A call: the query it waits for, its device, the text rendered, the version
\* it is about to insert, and the devices snapshotAll has still to come to.
Resting == [pc |-> "rest", dev |-> "none", text |-> 0, next |-> 0, todo |-> {}]

Taking(c) == call[c].pc \in {"device", "interfaces", "max", "insert"}

\* getDeviceById of takeSnapshot(d).
Begin(c, d, todo) ==
  /\ call' = [call EXCEPT ![c] =
                [pc |-> "device", dev |-> d, text |-> 0, next |-> 0, todo |-> todo]]
  /\ overlapped' = overlapped \cup
       {e \in {d} : \E b \in Calls \ {c} : Taking(b) /\ call[b].dev = e}

End(c) == call' = [call EXCEPT ![c] = Resting] /\ UNCHANGED overlapped

\* A snapshot is over, well or ill: snapshotAll goes on with another device,
\* takeSnapshot returns or throws.
GoOn(c, todo) ==
  \/ todo = {} /\ End(c)
  \/ \E d \in todo : Begin(c, d, todo \ {d})

\* The call has the reply to its query and sends another.
Send(c, v) == call' = [call EXCEPT ![c] = v] /\ UNCHANGED overlapped

-----------------------------------------------------------------------------
(* The calls. *)

\* takeSnapshot, of any id.
StartOne(c, d) ==
  /\ call[c].pc = "rest"
  /\ Begin(c, d, {})
  /\ UNCHANGED <<schema, status, config, table, faults>>

\* snapshotAll, up to SELECT id FROM devices ...
StartAll(c) ==
  /\ call[c].pc = "rest" /\ c \in Sweeps
  /\ Send(c, [call[c] EXCEPT !.pc = "list"])
  /\ UNCHANGED <<schema, status, config, table, faults>>

\* ... and from its reply.
List(c) ==
  /\ call[c].pc = "list"
  /\ GoOn(c, {d \in Devices : status[d] = "live"})
  /\ UNCHANGED <<schema, status, config, table, faults>>

\* getDeviceById finds the device, or throws NotFoundException.
ReadDevice(c) ==
  /\ call[c].pc = "device"
  /\ IF status[call[c].dev] = "live"
     THEN Send(c, [call[c] EXCEPT !.pc = "interfaces"])
     ELSE GoOn(c, call[c].todo)
  /\ UNCHANGED <<schema, status, config, table, faults>>

ReadReplica(c) ==   \* variant: the interfaces come from a replica that lags behind
  /\ call[c].pc = "interfaces"
  /\ \E r \in 0..config[call[c].dev] : Send(c, [call[c] EXCEPT !.pc = "max", !.text = r])
  /\ UNCHANGED <<schema, status, config, table, faults>>

\* getInterfaces; then the configuration is rendered.
ReadInterfaces(c) ==
  /\ call[c].pc = "interfaces"
  /\ Send(c, [call[c] EXCEPT !.pc = "max", !.text = config[call[c].dev]])
  /\ UNCHANGED <<schema, status, config, table, faults>>

MaxOfAll(d) ==   \* variant: the maximum is that of all devices
  CHOOSE n \in {0} \cup UNION {Versions(e) : e \in Devices} :
    \A e \in Devices : \A v \in Versions(e) : v <= n

\* MAX(version) ?? 0.
MaxVersion(d) == CHOOSE n \in {0} \cup Versions(d) : \A v \in Versions(d) : v <= n

\* SELECT MAX(version); the next version is one more.
ReadMax(c) ==
  /\ call[c].pc = "max"
  /\ Send(c, [call[c] EXCEPT !.pc = "insert", !.next = MaxVersion(call[c].dev) + 1])
  /\ UNCHANGED <<schema, status, config, table, faults>>

AcceptedUnlessGone(d, v) ==   \* variant: (device_id, version) is not checked
  schema.fk # "none" => status[d] = "live"

\* The INSERT meets the constraints of the schema.
Accepted(d, v) ==
  /\ schema.unique => v \notin Versions(d)
  /\ schema.fk # "none" => status[d] = "live"

Inserted(c) ==
  [table EXCEPT ![call[c].dev] = Append(@, Snapshot(call[c].next, call[c].text))]

Insert(c) ==
  /\ call[c].pc = "insert" /\ Accepted(call[c].dev, call[c].next)
  /\ Len(table[call[c].dev]) < MaxRows
  /\ table' = Inserted(c)
  /\ GoOn(c, call[c].todo)
  /\ UNCHANGED <<schema, status, config, faults>>

\* The INSERT is refused, by a constraint or by the bound on rows.
Refuse(c) ==
  /\ call[c].pc = "insert"
  /\ ~Accepted(call[c].dev, call[c].next) \/ Len(table[call[c].dev]) = MaxRows
  /\ GoOn(c, call[c].todo)
  /\ UNCHANGED <<schema, status, config, table, faults>>

FaultStops(c) ==   \* variant: snapshotAll does not catch
  /\ call[c].pc # "rest" /\ faults < MaxFaults /\ faults' = faults + 1
  /\ End(c)
  /\ UNCHANGED <<schema, status, config, table>>

\* A query fails, or the INSERT is executed and its reply is lost.  Without
\* the list of devices snapshotAll fails; it catches everything else.
Fault(c) ==
  /\ call[c].pc # "rest" /\ faults < MaxFaults /\ faults' = faults + 1
  /\ \/ UNCHANGED table
     \/ /\ call[c].pc = "insert" /\ Accepted(call[c].dev, call[c].next)
        /\ Len(table[call[c].dev]) < MaxRows
        /\ table' = Inserted(c)
  /\ GoOn(c, call[c].todo)
  /\ UNCHANGED <<schema, status, config>>

-----------------------------------------------------------------------------
(* The devices. *)

\* DevicesService.create: an id that no device has had.
CreateDevice(d) ==
  /\ status[d] = "new"
  /\ status' = [status EXCEPT ![d] = "live"]
  /\ UNCHANGED <<schema, config, table, call, overlapped, faults>>

\* DevicesService.delete.
DeleteDevice(d) ==
  /\ status[d] = "live"
  /\ schema.fk = "restrict" => table[d] = <<>>
  /\ status' = [status EXCEPT ![d] = "gone"]
  /\ table' = IF schema.fk = "cascade" THEN [table EXCEPT ![d] = <<>>] ELSE table
  /\ UNCHANGED <<schema, config, call, overlapped, faults>>

\* Something outside the backend changes the interfaces of a device.
Edit(d) ==
  /\ config[d] < MaxEdits
  /\ config' = [config EXCEPT ![d] = @ + 1]
  /\ UNCHANGED <<schema, status, table, call, overlapped, faults>>

-----------------------------------------------------------------------------
Init ==
  /\ schema \in Schemas
  /\ status \in [Devices -> {"new", "live"}]
  /\ config = [d \in Devices |-> 0]
  /\ table = [d \in Devices |-> <<>>]
  /\ call = [c \in Calls |-> Resting]
  /\ overlapped = {}
  /\ faults = 0

Next ==
  \/ \E c \in Calls :
       \/ \E d \in Devices : StartOne(c, d)
       \/ StartAll(c) \/ List(c) \/ ReadDevice(c) \/ ReadInterfaces(c)
       \/ ReadMax(c) \/ Insert(c) \/ Refuse(c) \/ Fault(c)
  \/ \E d \in Devices : CreateDevice(d) \/ DeleteDevice(d) \/ Edit(d)

Spec == Init /\ [][Next]_vars

-----------------------------------------------------------------------------
(* Properties. *)

CallType ==
  [pc : {"rest", "list", "device", "interfaces", "max", "insert"},
   dev : Devices \cup {"none"}, text : Nat, next : Nat, todo : SUBSET Devices]

\* The types of the tables and of the calls under way.
TypeOK ==
  /\ schema \in Schemas
  /\ status \in [Devices -> {"new", "live", "gone"}]
  /\ config \in [Devices -> 0..MaxEdits]
  /\ table \in [Devices -> Seq([version : Nat, text : Nat])]
  /\ \A d \in Devices : Len(table[d]) <= MaxRows
  /\ call \in [Calls -> CallType]
  /\ \A c \in Calls : Taking(c) => call[c].dev \in Devices
  /\ overlapped \subseteq Devices
  /\ faults \in 0..MaxFaults

\* getConfigVersion finds the row by device and version: the versions of a
\* device number its snapshots in the order they were taken, each once, in
\* spite of failures and of snapshots taken at the same time, if the schema
\* makes (device_id, version) unique; without that, if they take turns.
Numbered ==
  \A d \in Devices :
    schema.unique \/ d \notin overlapped =>
      \A i \in DOMAIN table[d] : table[d][i].version = i

\* Whatever the schema, and however snapshots overlap, no version between two
\* others is missing: a snapshot that failed leaves no gap.
Gapless ==
  \A d \in Devices : \A v \in Versions(d) : \A w \in 1..v : w \in Versions(d)

\* Of a device whose snapshots take turns, the later version never holds the
\* older configuration: the one that listDeviceSummaries calls the latest is.
NewerIsNotOlder ==
  \A d \in Devices \ overlapped : \A i, j \in DOMAIN table[d] :
    i <= j => table[d][i].text <= table[d][j].text

\* snapshotAll leaves out no device: whatever happens to the snapshots before
\* it, a device goes from the list only by being taken up.
SweepGoesOn ==
  [][\A c \in Calls : \A d \in call[c].todo :
       d \in call'[c].todo \/ (call'[c].pc = "device" /\ call'[c].dev = d)]_vars

=============================================================================

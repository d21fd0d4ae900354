------------------------------ MODULE Ingestion ------------------------------
(***************************************************************************)
(* How energy readings get from the MQTT broker into the database, while   *)
(* the API edits the same community, unit and devices:                     *)
(* app/services/mqtt_consumer.py, ingest_event of                          *)
(* app/services/ingestion.py, and the handlers of app/api/routes.py that   *)
(* create, change and delete those rows.                                   *)
(*                                                                         *)
(* One MQTT network thread takes messages one at a time and runs one       *)
(* transaction per event of a message.  Each API request runs on a thread  *)
(* of its own, with a transaction of its own: it reads, decides, and later *)
(* writes and commits.  The database runs at READ COMMITTED, so nothing    *)
(* that was read is protected; what holds are its unique keys and foreign  *)
(* keys, and an ORM update that writes the changed columns of a row found  *)
(* by its primary key.                                                     *)
(*                                                                         *)
(* One community with one unit stands for all: events and requests about   *)
(* different ones meet in no row.  Nothing refers to a community by its    *)
(* primary key: a unit carries its name.                                   *)
(***************************************************************************)
EXTENDS Integers, Sequences

CONSTANTS
    Devices,        \* device ids on the unit
    Stamps,         \* timestamps of readings
    MqttLists,      \* lists of schedules that events carry
    ApiLists,       \* lists of schedules that API requests carry
    Messages,       \* what the broker may deliver: sequences of events
    Requests,       \* threads of the API
    Pks             \* bound: primary keys; those of deleted rows are used again

NoList == "null"        \* the NULL of the schedules column
Absent == "absent"      \* no list of schedules in the payload

ASSUME ListAssumption ==
    /\ MqttLists \intersect ApiLists = {}
    /\ {NoList, Absent} \intersect (MqttLists \union ApiLists) = {}

\* An event that passes validation.
Events == [dev : Devices, stamp : Stamps, controllable : BOOLEAN,
           schedules : MqttLists \union {Absent}]

\* Events that do not: the reason fits the dead letter's column, or is longer.
Invalid == [reason : {"short", "long"}]

ASSUME MessageAssumption == Messages \subseteq Seq(Events \union Invalid)

None == 0               \* no row

ASSUME PkAssumption == Pks \subseteq Nat \ {None}

Lists == MqttLists \union ApiLists \union {NoList}

\* A row of the devices table; its owner is the key of the unit's row.
DeviceRow == [pk : Pks, owner : Pks, source : {"mqtt", "manual"},
              controllable : BOOLEAN, schedules : Lists]
NoDevice == [pk |-> None]

VARIABLES
    community,      \* key of the community's row, or None
    unit,           \* key of the unit's row, or None
    device,         \* the devices' rows
    history,        \* keys of devices that have rows in device_state
    readings,       \* the keys in energy_readings
    deadLetters,    \* the payloads in dead_letters
    consumer,       \* the MQTTConsumer's flags and its network thread
    tx,             \* the network thread inside on_message
    api             \* the API threads

rows == <<community, unit, device>>
db == <<rows, history, readings, deadLetters>>
vars == <<db, consumer, tx, api>>

Exists(d) == device[d] # NoDevice

TxSteps == {"idle", "next", "select_community", "insert_community",
            "select_unit", "insert_unit", "select_device", "insert_device",
            "commit", "reject"}

\* The key of its new community, the unit and the device it works for, and the
\* rows it has added but not committed.  "raced" is a history variable: a
\* request has changed a row since this transaction began.
Transaction == [at : TxSteps, queue : Seq(Events \union Invalid),
                unit : Pks \union {None}, row : DeviceRow \union {NoDevice},
                added : SUBSET {"community", "unit", "device"},
                key : Pks \union {None}, raced : BOOLEAN]
Idle == [at |-> "idle", queue |-> <<>>, unit |-> None, row |-> NoDevice,
         added |-> {}, key |-> None, raced |-> FALSE]

ApiOps == {"create_community", "delete_community", "create_unit", "delete_unit",
           "device_create", "device_update", "device_delete"}

\* A request remembers the rows it has read.
Request == [op : ApiOps, dev : Devices \union {"none"},
            schedules : ApiLists \union {NoList}, controllable : BOOLEAN,
            key : Pks \union {None}, row : DeviceRow \union {NoDevice}]
NoRequest == [op |-> "none"]

Started == [running |-> TRUE, connected |-> FALSE, alive |-> TRUE]
NotStarted == [running |-> FALSE, connected |-> FALSE, alive |-> FALSE]

TypeOK ==
    /\ community \in Pks \union {None}
    /\ unit \in Pks \union {None}
    /\ device \in [Devices -> DeviceRow \union {NoDevice}]
    /\ history \subseteq Pks
    /\ readings \subseteq Devices \X Stamps
    /\ deadLetters \subseteq Events \union Invalid
    /\ consumer \in [running : BOOLEAN, connected : BOOLEAN, alive : BOOLEAN]
    /\ tx \in Transaction
    /\ api \in [Requests -> Request \union {NoRequest}]

Init ==
    /\ community = None
    /\ unit = None
    /\ device = [d \in Devices |-> NoDevice]
    /\ history = {}
    /\ readings = {}
    /\ deadLetters = {}
    /\ consumer \in {Started, NotStarted}
    /\ tx = Idle
    /\ api = [r \in Requests |-> NoRequest]

\* A new row takes a key that no row of its table has and no transaction holds.
CommunityPks == {community, tx.key}
UnitPks == {unit, tx.unit}
DevicePks == {tx.row.pk} \union {device[d].pk : d \in Devices}
Remembered == UNION {{api[r].key, api[r].row.pk} :
                        r \in {q \in Requests : api[q] # NoRequest}}

Free(taken) == Pks \ (taken \union Remembered)
New(taken) == CHOOSE p \in Free(taken) : TRUE

-----------------------------------------------------------------------------
(* The network thread: connection and messages.                            *)

\* The broker accepts: the flag goes up and the topics are subscribed.
OnConnect ==
    /\ consumer.alive /\ ~consumer.connected
    /\ consumer' = [consumer EXCEPT !.connected = TRUE]
    /\ UNCHANGED <<db, tx, api>>

\* Callbacks run on the one network thread, so never inside on_message.
OnDisconnect ==
    /\ consumer.alive /\ consumer.connected
    /\ tx = Idle
    /\ consumer' = [consumer EXCEPT !.connected = FALSE]
    /\ UNCHANGED <<db, tx, api>>

\* An exception leaves on_message: paho lets it end the network thread.
ThreadDies ==
    /\ consumer' = [consumer EXCEPT !.alive = FALSE]
    /\ tx' = Idle

OnMessage(m) ==
    /\ consumer.alive /\ consumer.connected
    /\ tx = Idle
    /\ tx' = [Idle EXCEPT !.at = "next", !.queue = m]
    /\ UNCHANGED <<db, consumer, api>>

\* A payload that is a bare JSON number: _normalize_events raises.
OnMessageScalar ==
    /\ consumer.alive /\ consumer.connected
    /\ tx = Idle
    /\ ThreadDies
    /\ UNCHANGED <<db, api>>

\* The process ends and starts again; open transactions are rolled back.
Restart ==
    /\ consumer' \in {Started, NotStarted}
    /\ tx' = Idle
    /\ api' = [r \in Requests |-> NoRequest]
    /\ UNCHANGED db

-----------------------------------------------------------------------------
(* The network thread: ingest_event.                                       *)

Event == Head(tx.queue)
Key == <<Event.dev, Event.stamp>>

\* Done with this event, whatever became of it.
EventEnds == tx' = [Idle EXCEPT !.at = "next", !.queue = Tail(tx.queue)]

\* IntegrityError: rolled back and taken for a duplicate.
Duplicate == EventEnds

\* The loop of on_message: validate the next event, or return.
NextEvent ==
    /\ tx.at = "next"
    /\ IF tx.queue = <<>>
       THEN tx' = Idle
       ELSE tx' = [tx EXCEPT !.at = IF Event \in Invalid THEN "reject"
                                    ELSE "select_community"]
    /\ UNCHANGED <<db, consumer, api>>

SelectCommunity ==
    /\ tx.at = "select_community"
    /\ tx' = [tx EXCEPT !.at = IF community = None THEN "insert_community"
                               ELSE "select_unit"]
    /\ UNCHANGED <<db, consumer, api>>

\* Flushed at once: from here to the commit the unique key is taken.
InsertCommunity ==
    /\ tx.at = "insert_community"
    /\ IF community # None
       THEN Duplicate
       ELSE /\ Free(CommunityPks) # {}
            /\ tx' = [tx EXCEPT !.at = "select_unit", !.key = New(CommunityPks),
                                !.added = tx.added \union {"community"}]
    /\ UNCHANGED <<db, consumer, api>>

SelectUnit ==
    /\ tx.at = "select_unit"
    /\ tx' = IF unit = None
             THEN [tx EXCEPT !.at = "insert_unit"]
             ELSE [tx EXCEPT !.at = "select_device", !.unit = unit]
    /\ UNCHANGED <<db, consumer, api>>

\* Mutant of InsertUnit: committed at once, not flushed.
InsertUnitCommits ==
    /\ tx.at = "insert_unit"
    /\ IF unit # None
       THEN Duplicate /\ UNCHANGED unit
       ELSE /\ Free(UnitPks) # {}
            /\ unit' = New(UnitPks)
            /\ tx' = [tx EXCEPT !.at = "select_device", !.unit = New(UnitPks)]
    /\ UNCHANGED <<community, device, history, readings, deadLetters, consumer, api>>

\* Flushed at once, as the community.
InsertUnit ==
    /\ tx.at = "insert_unit"
    /\ IF unit # None
       THEN Duplicate
       ELSE /\ Free(UnitPks) # {}
            /\ tx' = [tx EXCEPT !.at = "select_device", !.unit = New(UnitPks),
                                !.added = tx.added \union {"unit"}]
    /\ UNCHANGED <<db, consumer, api>>

SelectDevice ==
    /\ tx.at = "select_device"
    /\ tx' = IF Exists(Event.dev) /\ device[Event.dev].owner = tx.unit
             THEN [tx EXCEPT !.at = "commit", !.row = device[Event.dev]]
             ELSE [tx EXCEPT !.at = "insert_device"]
    /\ UNCHANGED <<db, consumer, api>>

\* The unit this transaction works for is there: its own, or a committed one.
UnitHeld == "unit" \in tx.added \/ unit = tx.unit

\* Mutant of NewDevice: an absent list is stored as it is.
NewDeviceRaw(p) ==
    [pk |-> p, owner |-> tx.unit, source |-> "mqtt",
     controllable |-> Event.controllable, schedules |-> Event.schedules]

NewDevice(p) ==
    [pk |-> p, owner |-> tx.unit, source |-> "mqtt",
     controllable |-> Event.controllable,
     schedules |-> IF Event.schedules = Absent THEN NoList ELSE Event.schedules]

\* Mutant of InsertDevice: nothing ties a device to its unit's row.
InsertDeviceUntied ==
    /\ tx.at = "insert_device"
    /\ IF Exists(Event.dev)
       THEN Duplicate
       ELSE /\ Free(DevicePks) # {}
            /\ tx' = [tx EXCEPT !.at = "commit", !.added = tx.added \union {"device"},
                                !.row = NewDevice(New(DevicePks))]
    /\ UNCHANGED <<db, consumer, api>>

\* Flushed at once.  The foreign key wants the unit's row, the unique key no
\* other device of that name on it.
InsertDevice ==
    /\ tx.at = "insert_device"
    /\ IF ~UnitHeld \/ Exists(Event.dev)
       THEN Duplicate
       ELSE /\ Free(DevicePks) # {}
            /\ tx' = [tx EXCEPT !.at = "commit", !.added = tx.added \union {"device"},
                                !.row = NewDevice(New(DevicePks))]
    /\ UNCHANGED <<db, consumer, api>>

\* Mutant of UpdatesSchedules: the source is not looked at.
UpdatesSchedulesOfAny == Event.schedules # Absent

\* What the event changes of the row as it was read.
UpdatesSchedules == tx.row.source = "mqtt" /\ Event.schedules # Absent
SchedulesChange == UpdatesSchedules /\ tx.row.schedules # Event.schedules
ControllableChanges == tx.row.controllable # Event.controllable
StateChanges == "device" \notin tx.added /\ (SchedulesChange \/ ControllableChanges)

\* The columns of the row that differ from what was read are written.
Updated(row) ==
    [row EXCEPT
        !.controllable = IF ControllableChanges THEN Event.controllable ELSE @,
        !.schedules = IF SchedulesChange THEN Event.schedules ELSE @]

\* The row to update is no longer there.
UpdateMisses == StateChanges /\ device[Event.dev].pk # tx.row.pk

\* Flush and commit: new rows, the update and its device_state row, the reading.
CommitEvent ==
    /\ tx.at = "commit"
    /\ ~UpdateMisses
    /\ Key \notin readings
    /\ community' = IF "community" \in tx.added THEN tx.key ELSE community
    /\ unit' = IF "unit" \in tx.added THEN tx.unit ELSE unit
    /\ device' = IF "device" \in tx.added
                 THEN [device EXCEPT ![Event.dev] = tx.row]
                 ELSE IF StateChanges
                      THEN [device EXCEPT ![Event.dev] = Updated(@)]
                      ELSE device
    /\ history' = IF StateChanges THEN history \union {tx.row.pk} ELSE history
    /\ readings' = readings \union {Key}
    /\ EventEnds
    /\ UNCHANGED <<deadLetters, consumer, api>>

\* The unique key of energy_readings.  Which is met first when an update misses
\* as well is not determined.
CommitDuplicate ==
    /\ tx.at = "commit"
    /\ Key \in readings
    /\ Duplicate
    /\ UNCHANGED <<db, consumer, api>>

\* StaleDataError: rolled back, and on to the dead letters.
CommitStale ==
    /\ tx.at = "commit"
    /\ UpdateMisses
    /\ tx' = [Idle EXCEPT !.at = "reject", !.queue = tx.queue, !.raced = tx.raced]
    /\ UNCHANGED <<db, consumer, api>>

RejectEvent ==
    /\ tx.at = "reject"
    /\ Event \in Invalid => Event.reason = "short"
    /\ deadLetters' = deadLetters \union {Event}
    /\ EventEnds
    /\ UNCHANGED <<rows, history, readings, consumer, api>>

\* A reason longer than the column: the commit in the except branch raises.
RejectRaises ==
    /\ tx.at = "reject"
    /\ Event \in Invalid /\ Event.reason = "long"
    /\ ThreadDies
    /\ UNCHANGED <<db, api>>

Ingest ==
    \/ NextEvent
    \/ SelectCommunity
    \/ InsertCommunity
    \/ SelectUnit
    \/ InsertUnit
    \/ SelectDevice
    \/ InsertDevice
    \/ CommitEvent
    \/ CommitDuplicate
    \/ CommitStale
    \/ RejectEvent
    \/ RejectRaises

-----------------------------------------------------------------------------
(* API threads: a request reads and checks, and later writes and commits.  *)
(* A request refused by its checks, or one that asks for what is already   *)
(* there, changes nothing and is left out.                                 *)

Asked(op) == [op |-> op, dev |-> "none", schedules |-> NoList,
              controllable |-> FALSE, key |-> None, row |-> NoDevice]

Begin(r, request) ==
    /\ api[r] = NoRequest
    /\ api' = [api EXCEPT ![r] = request]
    /\ UNCHANGED <<db, consumer, tx>>

\* The checks that precede the write: does the row exist, has the community
\* units.  create_unit does not look at the community.
CheckCommunity(r) ==
    \/ community = None /\ Begin(r, Asked("create_community"))
    \/ /\ community # None /\ unit = None
       /\ Begin(r, [Asked("delete_community") EXCEPT !.key = community])

CheckUnit(r) ==
    \/ unit = None /\ Begin(r, Asked("create_unit"))
    \/ unit # None /\ Begin(r, [Asked("delete_unit") EXCEPT !.key = unit])

CheckDevice(r) ==
    /\ unit # None
    /\ \E d \in Devices, s \in ApiLists \union {NoList}, b \in BOOLEAN :
        LET about(op) == [Asked(op) EXCEPT !.dev = d, !.schedules = s,
                            !.controllable = b, !.key = unit, !.row = device[d]]
        IN  \/ ~Exists(d) /\ Begin(r, about("device_create"))
            \/ /\ Exists(d)
               /\ s # NoList \/ b # device[d].controllable
               /\ Begin(r, about("device_update"))
            \/ /\ Exists(d)
               /\ Begin(r, [Asked("device_delete") EXCEPT !.dev = d, !.row = device[d]])

\* The transaction of the network thread that is open.
InTransaction == tx.at \notin {"idle", "next", "reject"}

\* The request answers.
Answer(r) ==
    /\ api' = [api EXCEPT ![r] = NoRequest]
    /\ tx' = [tx EXCEPT !.raced = @ \/ (InTransaction /\ rows' # rows)]
    /\ UNCHANGED <<history, readings, deadLetters, consumer>>

\* Waits while the network thread has an uncommitted row under the same key.
CreateCommunity(r) ==
    /\ api[r].op = "create_community"
    /\ "community" \notin tx.added
    /\ IF community = None
       THEN Free(CommunityPks) # {} /\ community' = New(CommunityPks)
       ELSE UNCHANGED community
    /\ UNCHANGED <<unit, device>>
    /\ Answer(r)

DeleteCommunity(r) ==
    /\ api[r].op = "delete_community"
    /\ community' = IF community = api[r].key THEN None ELSE community
    /\ UNCHANGED <<unit, device>>
    /\ Answer(r)

\* Waits as create_community does.
CreateUnit(r) ==
    /\ api[r].op = "create_unit"
    /\ "unit" \notin tx.added
    /\ IF unit = None
       THEN Free(UnitPks) # {} /\ unit' = New(UnitPks)
       ELSE UNCHANGED unit
    /\ UNCHANGED <<community, device>>
    /\ Answer(r)

\* The devices' rows, then the unit's: all or, when a device has device_state
\* rows, nothing.  Waits for an uncommitted device that refers to the unit.
DeleteUnit(r) ==
    /\ api[r].op = "delete_unit"
    /\ "device" \notin tx.added
    /\ IF \/ unit # api[r].key
          \/ \E d \in Devices : device[d].pk \in history
       THEN UNCHANGED <<unit, device>>
       ELSE /\ unit' = None
            /\ device' = [d \in Devices |-> NoDevice]
    /\ UNCHANGED community
    /\ Answer(r)

\* The foreign key wants the unit's row, the unique key a free device id.
DeviceCreate(r) ==
    LET q == api[r]
    IN  /\ q.op = "device_create"
        /\ "device" \in tx.added => Event.dev # q.dev
        /\ IF unit = q.key /\ ~Exists(q.dev)
           THEN /\ Free(DevicePks) # {}
                /\ device' = [device EXCEPT ![q.dev] =
                    [pk |-> New(DevicePks), owner |-> q.key,
                     source |-> IF q.schedules # NoList THEN "manual" ELSE "mqtt",
                     controllable |-> q.controllable, schedules |-> q.schedules]]
           ELSE UNCHANGED device
        /\ UNCHANGED <<community, unit>>
        /\ Answer(r)

\* Only columns that differ from the row as it was read are written.
Edited(row, q) ==
    LET given == q.schedules # NoList
    IN  [row EXCEPT
            !.controllable = IF q.controllable # q.row.controllable
                             THEN q.controllable ELSE @,
            !.schedules = IF given /\ q.schedules # q.row.schedules
                          THEN q.schedules ELSE @,
            !.source = IF given /\ q.row.source # "manual" THEN "manual" ELSE @]

DeviceUpdate(r) ==
    LET q == api[r]
    IN  /\ q.op = "device_update"
        /\ device' = IF device[q.dev].pk = q.row.pk
                     THEN [device EXCEPT ![q.dev] = Edited(@, q)]
                     ELSE device
        /\ UNCHANGED <<community, unit>>
        /\ Answer(r)

\* Refused by the foreign key of device_state once the device has history.
DeviceDelete(r) ==
    LET q == api[r]
    IN  /\ q.op = "device_delete"
        /\ device' = IF device[q.dev].pk = q.row.pk /\ q.row.pk \notin history
                     THEN [device EXCEPT ![q.dev] = NoDevice]
                     ELSE device
        /\ UNCHANGED <<community, unit>>
        /\ Answer(r)

Api(r) ==
    \/ CheckCommunity(r)
    \/ CheckUnit(r)
    \/ CheckDevice(r)
    \/ CreateCommunity(r)
    \/ DeleteCommunity(r)
    \/ CreateUnit(r)
    \/ DeleteUnit(r)
    \/ DeviceCreate(r)
    \/ DeviceUpdate(r)
    \/ DeviceDelete(r)

-----------------------------------------------------------------------------

Next ==
    \/ OnConnect
    \/ OnDisconnect
    \/ \E m \in Messages : OnMessage(m)
    \/ OnMessageScalar
    \/ Ingest
    \/ Restart
    \/ \E r \in Requests : Api(r)

Spec == Init /\ [][Next]_vars

-----------------------------------------------------------------------------
(* Properties.                                                             *)

\* No device outlives its unit, whichever of ingest_event, delete_unit and
\* unit_device_create looked at the unit first.
NoOrphanDevice == \A d \in Devices : Exists(d) => device[d].owner = unit

\* An event that ingest_event is done with is stored or in the dead letters;
\* the IntegrityError branch, which drops it, is taken otherwise only when
\* another transaction changed a row under this one.
EventAccounted ==
    [][tx.at # "next" /\ tx'.at = "next" /\ tx.queue # <<>> =>
          \/ Event \in Invalid /\ Event \in deadLetters'
          \/ Event \in Events /\ (Key \in readings' \/ Event \in deadLetters')
          \/ tx.raced]_vars

\* ingest_event is all or nothing: rows of the community, the unit or the
\* device, and the device's history, change only together with a new reading,
\* so an event delivered twice, dropped or rejected leaves no trace there.
IngestAtomic ==
    [][api' = api /\ <<rows, history>>' # <<rows, history>>
          => readings' # readings]_vars

\* Ingestion implements the intake: whatever the API threads do meanwhile, the
\* database shows of every event all or nothing, an event is dropped only as a
\* duplicate or when a request got in between, and one that is put aside did not
\* pass validation or was overtaken (on_message, ingest_event).
Intake == INSTANCE EventIntake WITH
    Valid <- Events, queue <- tx.queue, stored <- readings, dead <- deadLetters,
    catalog <- rows, audit <- history, overtaken <- tx.raced,
    asked <- {r \in Requests : api[r] # NoRequest}

ImplementsIntake == Intake!IntakeSpec

SameRow(d) == Exists(d) /\ device'[d].pk = device[d].pk

\* Once the API has set a device's schedules they stay its own: no concurrent
\* ingestion turns their source back to MQTT.
ManualStays ==
    [][\A d \in Devices :
          SameRow(d) /\ device[d].source = "manual" => device'[d].source = "manual"]_vars

\* The lock on schedules set by the API holds against every event whose
\* transaction was not overtaken by a request.
ManualLockedUnlessRaced ==
    [][\A d \in Devices :
          /\ SameRow(d) /\ device[d].source = "manual"
          /\ device'[d].schedules # device[d].schedules
          => device'[d].schedules \in ApiLists \/ tx.raced]_vars

\* API_REFERENCE.md: DELETE /communities/{community_id} deletes a community
\* that has no unit any more.
OnlyEmptyCommunityDeleted ==
    [][community # None /\ community' = None => unit = None]_vars

\* API_REFERENCE.md: DELETE of a unit's device answers "deleted".
DeviceDeleteDeletes ==
    [][\A r \in Requests :
          DeviceDelete(r) => device'[api[r].dev].pk # api[r].row.pk]_vars
=============================================================================

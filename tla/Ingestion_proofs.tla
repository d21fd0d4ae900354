-------------------------- MODULE Ingestion_proofs --------------------------
(***************************************************************************)
(* Proofs about the ingestion of readings beside the API, for every set of *)
(* devices, timestamps, messages, lists of schedules and API threads.      *)
(***************************************************************************)
EXTENDS Ingestion, TLAPS

-----------------------------------------------------------------------------
(* The inductive invariant.                                                *)

WithUnit == {"select_device", "insert_device", "commit"}

\* What a step of the transaction, or of a request, works with.
Working ==
    /\ tx.at \notin {"idle", "next"} => tx.queue # <<>>
    /\ InTransaction => Event \in Events
    /\ tx.at \in WithUnit => tx.unit \in Pks
    /\ tx.at = "commit" => tx.row \in DeviceRow

Asking ==
    \A r \in Requests :
        LET q == api[r]
        IN  /\ q.op \in {"delete_unit", "device_create"} => q.key \in Pks
            /\ q.op \in {"device_create", "device_update", "device_delete"} =>
                  q.dev \in Devices
            /\ q.op \in {"device_update", "device_delete"} => q.row \in DeviceRow

\* An uncommitted row keeps its place: nobody else inserts one under its
\* unique key, nor deletes the row it refers to.
Uncommitted ==
    /\ tx.added # {} => InTransaction
    /\ "unit" \in tx.added => tx.at \in WithUnit /\ unit = None
    /\ "device" \in tx.added =>
          /\ tx.at = "commit"
          /\ tx.row.owner = tx.unit
          /\ UnitHeld
          /\ ~Exists(Event.dev)

\* A transaction that no request has overtaken acts on what is there.
Fresh ==
    InTransaction /\ ~tx.raced =>
        /\ tx.at = "insert_community" => community = None
        /\ tx.at = "insert_unit" => unit = None
        /\ tx.at \in WithUnit => UnitHeld
        /\ tx.at = "insert_device" => ~Exists(Event.dev)
        /\ tx.at = "commit" /\ "device" \notin tx.added => tx.row = device[Event.dev]

IInv == TypeOK /\ Working /\ Asking /\ Uncommitted /\ NoOrphanDevice /\ Fresh

-----------------------------------------------------------------------------
(* Facts about keys, events and answers.                                   *)

LEMMA NewIsFree == ASSUME NEW S, Free(S) # {} PROVE New(S) \in Pks
  BY DEF Free, New

\* The event at the head of the queue is one of the kinds the broker delivers.
LEMMA QueueTypes ==
    ASSUME TypeOK, tx.queue # <<>>
    PROVE  /\ Event \in Events \union Invalid
           /\ Tail(tx.queue) \in Seq(Events \union Invalid)
  BY DEF TypeOK, Transaction, Event

\* A request that answers leaves the transaction as it is, but for "raced".
LEMMA AnswerType ==
    ASSUME TypeOK, NEW r \in Requests, Answer(r)
    PROVE  /\ api' \in [Requests -> Request \union {NoRequest}]
           /\ tx' \in Transaction
           /\ UNCHANGED <<history, readings, deadLetters, consumer>>
<1>1. api' \in [Requests -> Request \union {NoRequest}]
  BY DEF TypeOK, Answer
<1>2. (tx.raced \/ (InTransaction /\ rows' # rows)) \in BOOLEAN
  BY Zenon DEF TypeOK
<1>q. QED
  BY <1>1, <1>2 DEF TypeOK, Answer, Transaction

LEMMA AnswerTx ==
    ASSUME TypeOK, NEW r \in Requests, Answer(r)
    PROVE  /\ tx'.at = tx.at
           /\ tx'.queue = tx.queue
           /\ tx'.unit = tx.unit
           /\ tx'.row = tx.row
           /\ tx'.added = tx.added
           /\ tx'.key = tx.key
           /\ InTransaction /\ ~tx'.raced => ~tx.raced /\ rows' = rows
  BY DEF TypeOK, Answer, Transaction

LEMMA IdleType == Idle \in Transaction
  BY DEF Idle, Transaction, TxSteps, NoDevice, None

LEMMA StartedType ==
    {Started, NotStarted} \subseteq
        [running : BOOLEAN, connected : BOOLEAN, alive : BOOLEAN]
  BY DEF Started, NotStarted

LEMMA AskedType ==
    ASSUME TypeOK, NEW op \in ApiOps
    PROVE  /\ Asked(op) \in Request
           /\ Asked(op).op = op
           /\ \A p \in Pks \union {None} :
                 [Asked(op) EXCEPT !.key = p] \in Request
  BY DEF Asked, Request

\* A row is added to the transaction.
LEMMA AddedType ==
    ASSUME TypeOK, NEW at \in TxSteps, NEW p \in Pks,
           NEW kind \in {"community", "unit", "device"}
    PROVE  LET added == tx.added \union {kind}
           IN  /\ [tx EXCEPT !.at = at, !.key = p, !.added = added] \in Transaction
               /\ [tx EXCEPT !.at = at, !.unit = p, !.added = added] \in Transaction
<1> DEFINE added == tx.added \union {kind}
<1>1. added \in SUBSET {"community", "unit", "device"} /\ tx \in Transaction
  BY DEF TypeOK, Transaction
<1> HIDE DEF added
<1>q. QED
  BY <1>1 DEF Transaction

LEMMA AddedDeviceType ==
    ASSUME TypeOK, NEW row \in DeviceRow
    PROVE  [tx EXCEPT !.at = "commit", !.added = tx.added \union {"device"},
                      !.row = row] \in Transaction
<1> DEFINE added == tx.added \union {"device"}
<1>1. added \in SUBSET {"community", "unit", "device"} /\ tx \in Transaction
  BY DEF TypeOK, Transaction
<1> HIDE DEF added
<1>2. [tx EXCEPT !.at = "commit", !.added = added, !.row = row] \in Transaction
  BY <1>1 DEF Transaction, TxSteps
<1>q. QED
  BY <1>2 DEF added

LEMMA EventEndsType ==
    ASSUME TypeOK, tx.queue # <<>>, EventEnds
    PROVE  /\ tx' \in Transaction
           /\ tx'.at = "next"
           /\ tx'.added = {}
  BY QueueTypes, IdleType DEF EventEnds, Transaction, TxSteps, Idle

-----------------------------------------------------------------------------
(* What inserting a row does to the transaction.                           *)

LEMMA InsertCommunityTx ==
    ASSUME TypeOK, InsertCommunity, community = None
    PROVE  /\ tx'.at = "select_unit"
           /\ tx'.queue = tx.queue
           /\ tx'.key \in Pks
           /\ tx'.unit = tx.unit
           /\ tx'.row = tx.row
           /\ tx'.added = tx.added \union {"community"}
           /\ tx'.raced = tx.raced
           /\ tx' \in Transaction
<1>1. New(CommunityPks) \in Pks
  BY NewIsFree DEF InsertCommunity
<1>2. tx' = [tx EXCEPT !.at = "select_unit", !.key = New(CommunityPks),
                       !.added = tx.added \union {"community"}]
  BY Zenon DEF InsertCommunity
<1>3. tx' \in Transaction
  <2>1. [tx EXCEPT !.at = "select_unit", !.key = New(CommunityPks),
                   !.added = tx.added \union {"community"}] \in Transaction
    BY <1>1, AddedType DEF TxSteps
  <2>q. QED
    BY <1>2, <2>1
<1> HIDE DEF New
<1>q. QED
  BY <1>1, <1>2, <1>3 DEF TypeOK, Transaction

LEMMA InsertUnitTx ==
    ASSUME TypeOK, InsertUnit, unit = None
    PROVE  /\ tx'.at = "select_device"
           /\ tx'.queue = tx.queue
           /\ tx'.unit \in Pks
           /\ tx'.key = tx.key
           /\ tx'.row = tx.row
           /\ tx'.added = tx.added \union {"unit"}
           /\ tx'.raced = tx.raced
           /\ tx' \in Transaction
<1>1. New(UnitPks) \in Pks
  BY NewIsFree DEF InsertUnit
<1>2. tx' = [tx EXCEPT !.at = "select_device", !.unit = New(UnitPks),
                       !.added = tx.added \union {"unit"}]
  BY Zenon DEF InsertUnit
<1>3. tx' \in Transaction
  <2>1. [tx EXCEPT !.at = "select_device", !.unit = New(UnitPks),
                   !.added = tx.added \union {"unit"}] \in Transaction
    BY <1>1, AddedType DEF TxSteps
  <2>q. QED
    BY <1>2, <2>1
<1> HIDE DEF New
<1>q. QED
  BY <1>1, <1>2, <1>3 DEF TypeOK, Transaction

LEMMA InsertDeviceTx ==
    ASSUME TypeOK, Working, InsertDevice, UnitHeld, ~Exists(Event.dev)
    PROVE  /\ tx'.at = "commit"
           /\ tx'.queue = tx.queue
           /\ tx'.unit = tx.unit
           /\ tx'.key = tx.key
           /\ tx'.row \in DeviceRow
           /\ tx'.row.owner = tx.unit
           /\ tx'.added = tx.added \union {"device"}
           /\ tx'.raced = tx.raced
           /\ tx' \in Transaction
<1>1. New(DevicePks) \in Pks
  BY NewIsFree DEF InsertDevice
<1> DEFINE new == NewDevice(New(DevicePks))
<1>2. new \in DeviceRow /\ new.owner = tx.unit
  BY <1>1 DEF InsertDevice, NewDevice, DeviceRow, Working, InTransaction, WithUnit,
     Events, Lists
<1>3. tx' = [tx EXCEPT !.at = "commit", !.added = tx.added \union {"device"},
                       !.row = new]
  BY Zenon DEF InsertDevice
<1> HIDE DEF new
<1>4. tx' \in Transaction
  BY <1>2, <1>3, AddedDeviceType
<1>q. QED
  BY <1>2, <1>3, <1>4 DEF TypeOK, Transaction

-----------------------------------------------------------------------------
(* Types.                                                                  *)

LEMMA InitInv == Init => IInv
<1> SUFFICES ASSUME Init PROVE IInv
  OBVIOUS
<1>1. consumer \in [running : BOOLEAN, connected : BOOLEAN, alive : BOOLEAN]
  BY StartedType DEF Init
<1>2. TypeOK
  BY <1>1, IdleType DEF Init, TypeOK
<1>3. Working /\ Asking /\ Uncommitted /\ NoOrphanDevice /\ Fresh
  BY DEF Init, Working, Asking, Uncommitted, NoOrphanDevice, Fresh, Exists,
         InTransaction, WithUnit, Idle, NoRequest
<1>q. QED
  BY <1>2, <1>3 DEF IInv

LEMMA NextType ==
    TypeOK /\ Working /\ Asking /\ [Next]_vars => TypeOK'
<1> SUFFICES ASSUME TypeOK, Working, Asking, [Next]_vars PROVE TypeOK'
  OBVIOUS
<1> USE DEF TypeOK, db, rows
<1>1. ASSUME OnConnect PROVE TypeOK'
  BY <1>1 DEF OnConnect
<1>2. ASSUME OnDisconnect PROVE TypeOK'
  BY <1>2 DEF OnDisconnect
<1>3. ASSUME NEW m \in Messages, OnMessage(m) PROVE TypeOK'
  BY <1>3, MessageAssumption, IdleType DEF OnMessage, Transaction, TxSteps, Idle
<1>4. ASSUME OnMessageScalar PROVE TypeOK'
  BY <1>4, IdleType DEF OnMessageScalar, ThreadDies
<1>5. ASSUME NextEvent PROVE TypeOK'
  BY <1>5, IdleType DEF NextEvent, Transaction, TxSteps
<1>6. ASSUME SelectCommunity PROVE TypeOK'
  BY <1>6 DEF SelectCommunity, Transaction, TxSteps
<1>7. ASSUME InsertCommunity PROVE TypeOK'
  BY <1>7, EventEndsType, InsertCommunityTx DEF InsertCommunity, Duplicate, Working
<1>8. ASSUME SelectUnit PROVE TypeOK'
  BY <1>8 DEF SelectUnit, Transaction, TxSteps
<1>9. ASSUME InsertUnit PROVE TypeOK'
  BY <1>9, EventEndsType, InsertUnitTx DEF InsertUnit, Duplicate, Working
<1>10. ASSUME SelectDevice PROVE TypeOK'
  <2>1. device[Event.dev] \in DeviceRow \union {NoDevice}
    BY <1>10 DEF SelectDevice, Working, InTransaction, Events
  <2>q. QED
    BY <1>10, <2>1 DEF SelectDevice, Transaction, TxSteps
<1>11. ASSUME InsertDevice PROVE TypeOK'
  BY <1>11, EventEndsType, InsertDeviceTx DEF InsertDevice, Duplicate, Working
<1>12. ASSUME CommitEvent PROVE TypeOK'
  <2>1. /\ tx.queue # <<>> /\ tx.row \in DeviceRow
        /\ Event \in Events /\ Event.dev \in Devices /\ Key \in Devices \X Stamps
    BY <1>12 DEF CommitEvent, Working, InTransaction, Events, Key
  <2>2. tx' \in Transaction
    BY <1>12, <2>1, EventEndsType DEF CommitEvent
  <2>3. community' \in Pks \union {None} /\ unit' \in Pks \union {None}
    BY <1>12 DEF CommitEvent, Transaction
  <2>4. ASSUME StateChanges PROVE Updated(device[Event.dev]) \in DeviceRow
    <3>1. device[Event.dev] \in DeviceRow
      BY <1>12, <2>1, <2>4, PkAssumption
         DEF CommitEvent, UpdateMisses, DeviceRow, NoDevice, None
    <3>q. QED
      BY <2>1, <3>1 DEF Updated, DeviceRow, Events, Lists, SchedulesChange,
         UpdatesSchedules
  <2>5. device' \in [Devices -> DeviceRow \union {NoDevice}]
    BY <1>12, <2>1, <2>4 DEF CommitEvent
  <2>6. history' \subseteq Pks /\ readings' \subseteq Devices \X Stamps
    BY <1>12, <2>1 DEF CommitEvent, DeviceRow
  <2>q. QED
    BY <1>12, <2>2, <2>3, <2>5, <2>6 DEF CommitEvent
<1>13. ASSUME CommitDuplicate PROVE TypeOK'
  BY <1>13, EventEndsType DEF CommitDuplicate, Duplicate, Working
<1>14. ASSUME CommitStale PROVE TypeOK'
  BY <1>14, IdleType DEF CommitStale, Transaction, TxSteps
<1>15. ASSUME RejectEvent PROVE TypeOK'
  BY <1>15, EventEndsType, QueueTypes DEF RejectEvent, Working
<1>16. ASSUME RejectRaises PROVE TypeOK'
  BY <1>16, IdleType DEF RejectRaises, ThreadDies
<1>17. ASSUME Restart PROVE TypeOK'
  BY <1>17, IdleType, StartedType DEF Restart
<1>18. ASSUME NEW r \in Requests, CheckCommunity(r) PROVE TypeOK'
  BY <1>18, AskedType DEF CheckCommunity, Begin, ApiOps
<1>19. ASSUME NEW r \in Requests, CheckUnit(r) PROVE TypeOK'
  BY <1>19, AskedType DEF CheckUnit, Begin, ApiOps
<1>20. ASSUME NEW r \in Requests, CheckDevice(r) PROVE TypeOK'
  <2>1. ASSUME NEW d \in Devices, NEW s \in ApiLists \union {NoList},
               NEW b \in BOOLEAN, NEW op \in ApiOps
        PROVE  /\ [Asked(op) EXCEPT !.dev = d, !.schedules = s, !.controllable = b,
                      !.key = unit, !.row = device[d]] \in Request
               /\ [Asked(op) EXCEPT !.dev = d, !.row = device[d]] \in Request
    <3>1. device[d] \in DeviceRow \union {NoDevice} /\ unit \in Pks \union {None}
      OBVIOUS
    <3>q. QED
      BY <3>1 DEF Asked, Request
  <2>2. api' \in [Requests -> Request \union {NoRequest}]
    <3>1. PICK q \in Request : api' = [api EXCEPT ![r] = q]
      BY <1>20, <2>1, Zenon DEF CheckDevice, Begin, ApiOps
    <3>q. QED
      BY <3>1
  <2>q. QED
    BY <1>20, <2>2 DEF CheckDevice, Begin
<1>21. ASSUME NEW r \in Requests, CreateCommunity(r) PROVE TypeOK'
  BY <1>21, AnswerType, NewIsFree DEF CreateCommunity
<1>22. ASSUME NEW r \in Requests, DeleteCommunity(r) PROVE TypeOK'
  BY <1>22, AnswerType, NewIsFree DEF DeleteCommunity
<1>23. ASSUME NEW r \in Requests, CreateUnit(r) PROVE TypeOK'
  BY <1>23, AnswerType, NewIsFree DEF CreateUnit
<1>24. ASSUME NEW r \in Requests, DeleteUnit(r) PROVE TypeOK'
  BY <1>24, AnswerType, NewIsFree DEF DeleteUnit
<1>25. ASSUME NEW r \in Requests, DeviceCreate(r) PROVE TypeOK'
  <2>1. ASSUME Free(DevicePks) # {}
        PROVE  [pk |-> New(DevicePks), owner |-> api[r].key,
                source |-> IF api[r].schedules # NoList THEN "manual" ELSE "mqtt",
                controllable |-> api[r].controllable,
                schedules |-> api[r].schedules] \in DeviceRow
    BY <1>25, <2>1, NewIsFree DEF DeviceCreate, DeviceRow, Asking, Request,
       NoRequest, Lists
  <2>q. QED
    BY <1>25, <2>1, AnswerType DEF DeviceCreate
<1>26. ASSUME NEW r \in Requests, DeviceUpdate(r) PROVE TypeOK'
  <2>1. api[r].dev \in Devices /\ api[r].row \in DeviceRow /\ api[r] \in Request
    BY <1>26 DEF DeviceUpdate, Asking, NoRequest
  <2>2. ASSUME device[api[r].dev].pk = api[r].row.pk
        PROVE  Edited(device[api[r].dev], api[r]) \in DeviceRow
    <3>1. device[api[r].dev] \in DeviceRow
      BY <2>1, <2>2, PkAssumption DEF DeviceRow, NoDevice, None
    <3>q. QED
      BY <2>1, <3>1 DEF Edited, DeviceRow, Request, Lists
  <2>q. QED
    BY <1>26, <2>1, <2>2, AnswerType DEF DeviceUpdate
<1>27. ASSUME NEW r \in Requests, DeviceDelete(r) PROVE TypeOK'
  BY <1>27, AnswerType, NewIsFree DEF DeviceDelete
<1>28. CASE UNCHANGED vars
  BY <1>28 DEF vars
<1>q. QED
  BY <1>1, <1>2, <1>3, <1>4, <1>5, <1>6, <1>7, <1>8, <1>9, <1>10, <1>11,
     <1>12, <1>13, <1>14, <1>15, <1>16, <1>17, <1>18, <1>19, <1>20, <1>21,
     <1>22, <1>23, <1>24, <1>25, <1>26, <1>27, <1>28 DEF Next, Ingest, Api

-----------------------------------------------------------------------------
(* What steps work with.                                                   *)

\* Between events, and outside on_message, there is nothing to keep.
LEMMA Quiet ==
    ASSUME tx'.at \in {"idle", "next"}, tx'.added = {}
    PROVE  Working' /\ Uncommitted' /\ Fresh'
  BY DEF Working, Uncommitted, Fresh, InTransaction, WithUnit

LEMMA IdleIsQuiet ==
    ASSUME tx' = Idle
    PROVE  tx'.at \in {"idle", "next"} /\ tx'.added = {}
  BY DEF Idle

LEMMA EventEndsIsQuiet ==
    ASSUME EventEnds
    PROVE  tx'.at \in {"idle", "next"} /\ tx'.added = {}
  BY DEF EventEnds, Idle

\* A step of the network thread leaves the requests alone, and what a request
\* works with does not change until it answers.
LEMMA AskingKept == Asking /\ api' = api => Asking'
  BY DEF Asking

LEMMA AskingAnswer ==
    ASSUME TypeOK, Asking, NEW r \in Requests, Answer(r)
    PROVE  Asking'
<1>1. api' = [api EXCEPT ![r] = NoRequest] /\ api \in [Requests -> Request \union {NoRequest}]
  BY DEF Answer, TypeOK
<1>2. NoRequest.op = "none"
  BY DEF NoRequest
<1>q. QED
  BY <1>1, <1>2 DEF Asking

LEMMA NextAsking == TypeOK /\ Asking /\ [Next]_vars => Asking'
<1> SUFFICES ASSUME TypeOK, Asking, [Next]_vars PROVE Asking'
  OBVIOUS
<1> USE AskingKept, AskingAnswer

<1>1. ASSUME OnConnect PROVE Asking'
  BY <1>1 DEF OnConnect
<1>2. ASSUME OnDisconnect PROVE Asking'
  BY <1>2 DEF OnDisconnect
<1>3. ASSUME NEW m \in Messages, OnMessage(m) PROVE Asking'
  BY <1>3 DEF OnMessage
<1>4. ASSUME OnMessageScalar PROVE Asking'
  BY <1>4 DEF OnMessageScalar
<1>5. ASSUME NextEvent PROVE Asking'
  BY <1>5 DEF NextEvent
<1>6. ASSUME SelectCommunity PROVE Asking'
  BY <1>6 DEF SelectCommunity
<1>7. ASSUME InsertCommunity PROVE Asking'
  BY <1>7 DEF InsertCommunity
<1>8. ASSUME SelectUnit PROVE Asking'
  BY <1>8 DEF SelectUnit
<1>9. ASSUME InsertUnit PROVE Asking'
  BY <1>9 DEF InsertUnit
<1>10. ASSUME SelectDevice PROVE Asking'
  BY <1>10 DEF SelectDevice
<1>11. ASSUME InsertDevice PROVE Asking'
  BY <1>11 DEF InsertDevice
<1>12. ASSUME CommitEvent PROVE Asking'
  BY <1>12 DEF CommitEvent
<1>13. ASSUME CommitDuplicate PROVE Asking'
  BY <1>13 DEF CommitDuplicate
<1>14. ASSUME CommitStale PROVE Asking'
  BY <1>14 DEF CommitStale
<1>15. ASSUME RejectEvent PROVE Asking'
  BY <1>15 DEF RejectEvent
<1>16. ASSUME RejectRaises PROVE Asking'
  BY <1>16 DEF RejectRaises
<1>17. ASSUME Restart PROVE Asking'
  BY <1>17 DEF Restart, Asking, NoRequest
<1>18. ASSUME NEW r \in Requests, CheckCommunity(r) PROVE Asking'
  BY <1>18 DEF CheckCommunity, Begin, Asked, Asking, TypeOK
<1>19. ASSUME NEW r \in Requests, CheckUnit(r) PROVE Asking'
  BY <1>19 DEF CheckUnit, Begin, Asked, Asking, TypeOK
<1>20. ASSUME NEW r \in Requests, CheckDevice(r) PROVE Asking'
  <2> DEFINE about(op, d, s, b) ==
        [Asked(op) EXCEPT !.dev = d, !.schedules = s, !.controllable = b,
                          !.key = unit, !.row = device[d]]
             gone(d) == [Asked("device_delete") EXCEPT !.dev = d, !.row = device[d]]
  <2>1. ASSUME NEW d \in Devices, Exists(d)
        PROVE  device[d] \in DeviceRow
    BY <2>1 DEF TypeOK, Exists
  <2>2. unit \in Pks /\ api \in [Requests -> Request \union {NoRequest}]
    BY <1>20 DEF CheckDevice, TypeOK
  <2>3. ASSUME NEW d \in Devices, NEW s, NEW b
        PROVE  /\ about("device_create", d, s, b).op = "device_create"
               /\ about("device_create", d, s, b).dev = d
               /\ about("device_create", d, s, b).key = unit
               /\ about("device_update", d, s, b).op = "device_update"
               /\ about("device_update", d, s, b).dev = d
               /\ about("device_update", d, s, b).row = device[d]
               /\ gone(d).op = "device_delete"
               /\ gone(d).dev = d
               /\ gone(d).row = device[d]
    BY DEF Asked
  <2>4. PICK d \in Devices, s \in ApiLists \union {NoList}, b \in BOOLEAN :
          \/ ~Exists(d) /\ api' = [api EXCEPT ![r] = about("device_create", d, s, b)]
          \/ Exists(d) /\ api' = [api EXCEPT ![r] = about("device_update", d, s, b)]
          \/ Exists(d) /\ api' = [api EXCEPT ![r] = gone(d)]
    BY <1>20, Zenon DEF CheckDevice, Begin
  <2> HIDE DEF about, gone
  <2>q. QED
    BY <2>1, <2>2, <2>3, <2>4 DEF Asking
<1>21. ASSUME NEW r \in Requests, CreateCommunity(r) PROVE Asking'
  BY <1>21 DEF CreateCommunity
<1>22. ASSUME NEW r \in Requests, DeleteCommunity(r) PROVE Asking'
  BY <1>22 DEF DeleteCommunity
<1>23. ASSUME NEW r \in Requests, CreateUnit(r) PROVE Asking'
  BY <1>23 DEF CreateUnit
<1>24. ASSUME NEW r \in Requests, DeleteUnit(r) PROVE Asking'
  BY <1>24 DEF DeleteUnit
<1>25. ASSUME NEW r \in Requests, DeviceCreate(r) PROVE Asking'
  BY <1>25 DEF DeviceCreate
<1>26. ASSUME NEW r \in Requests, DeviceUpdate(r) PROVE Asking'
  BY <1>26 DEF DeviceUpdate
<1>27. ASSUME NEW r \in Requests, DeviceDelete(r) PROVE Asking'
  BY <1>27 DEF DeviceDelete
<1>28. CASE UNCHANGED vars
  BY <1>28 DEF vars
<1>q. QED
  BY <1>1, <1>2, <1>3, <1>4, <1>5, <1>6, <1>7, <1>8, <1>9, <1>10, <1>11,
     <1>12, <1>13, <1>14, <1>15, <1>16, <1>17, <1>18, <1>19, <1>20, <1>21,
     <1>22, <1>23, <1>24, <1>25, <1>26, <1>27, <1>28 DEF Next, Ingest, Api

LEMMA NextWorking ==
    TypeOK /\ Working /\ [Next]_vars => Working'
<1> SUFFICES ASSUME TypeOK, Working, [Next]_vars PROVE Working'
  OBVIOUS
<1> USE Quiet, IdleIsQuiet, EventEndsIsQuiet, AnswerTx

<1>1. ASSUME OnConnect PROVE Working'
  BY <1>1 DEF OnConnect, Working, InTransaction, WithUnit, Event
<1>2. ASSUME OnDisconnect PROVE Working'
  BY <1>2 DEF OnDisconnect, Working, InTransaction, WithUnit, Event
<1>3. ASSUME NEW m \in Messages, OnMessage(m) PROVE Working'
  BY <1>3 DEF OnMessage, Idle
<1>4. ASSUME OnMessageScalar PROVE Working'
  BY <1>4 DEF OnMessageScalar, ThreadDies
<1>5. ASSUME NextEvent PROVE Working'
  <2>1. CASE tx.queue = <<>>
    BY <1>5, <2>1 DEF NextEvent
  <2>2. CASE tx.queue # <<>>
    BY <1>5, <2>2, QueueTypes DEF NextEvent, TypeOK, Transaction, Working,
       InTransaction,
       WithUnit, Event
  <2>q. QED
    BY <2>1, <2>2
<1>6. ASSUME SelectCommunity PROVE Working'
  BY <1>6 DEF SelectCommunity, Idle, TypeOK, Transaction, Working, InTransaction,
     WithUnit, Event
<1>7. ASSUME InsertCommunity PROVE Working'
  BY <1>7, InsertCommunityTx DEF InsertCommunity, Duplicate, Working,
     InTransaction, WithUnit, Event
<1>8. ASSUME SelectUnit PROVE Working'
  BY <1>8 DEF SelectUnit, Idle, TypeOK, Transaction, Working, InTransaction,
     WithUnit, Event
<1>9. ASSUME InsertUnit PROVE Working'
  BY <1>9, InsertUnitTx DEF InsertUnit, Duplicate, Working, InTransaction,
     WithUnit, Event
<1>10. ASSUME SelectDevice PROVE Working'
  <2>1. Exists(Event.dev) => device[Event.dev] \in DeviceRow
    BY <1>10 DEF SelectDevice, Exists, TypeOK, Working, InTransaction, Events
  <2>q. QED
    BY <1>10, <2>1 DEF SelectDevice, TypeOK, Transaction, Working, InTransaction,
       WithUnit, Event
<1>11. ASSUME InsertDevice PROVE Working'
  BY <1>11, InsertDeviceTx DEF InsertDevice, Duplicate, Working, InTransaction,
     WithUnit, Event
<1>12. ASSUME CommitEvent PROVE Working'
  BY <1>12 DEF CommitEvent
<1>13. ASSUME CommitDuplicate PROVE Working'
  BY <1>13 DEF CommitDuplicate, Duplicate
<1>14. ASSUME CommitStale PROVE Working'
  BY <1>14 DEF CommitStale, Idle, TypeOK, Transaction, Working, InTransaction,
     WithUnit, Event
<1>15. ASSUME RejectEvent PROVE Working'
  BY <1>15 DEF RejectEvent
<1>16. ASSUME RejectRaises PROVE Working'
  BY <1>16 DEF RejectRaises, ThreadDies
<1>17. ASSUME Restart PROVE Working'
  BY <1>17 DEF Restart
<1>18. ASSUME NEW r \in Requests, CheckCommunity(r) PROVE Working'
  BY <1>18 DEF CheckCommunity, Begin, Working, InTransaction, WithUnit, Event
<1>19. ASSUME NEW r \in Requests, CheckUnit(r) PROVE Working'
  BY <1>19 DEF CheckUnit, Begin, Working, InTransaction, WithUnit, Event
<1>20. ASSUME NEW r \in Requests, CheckDevice(r) PROVE Working'
  BY <1>20 DEF CheckDevice, Begin, Working, InTransaction, WithUnit, Event
<1>21. ASSUME NEW r \in Requests, CreateCommunity(r) PROVE Working'
  <2>1. Answer(r)
    BY <1>21 DEF CreateCommunity
  <2>q. QED
    BY <2>1 DEF Working, InTransaction, WithUnit, Event
<1>22. ASSUME NEW r \in Requests, DeleteCommunity(r) PROVE Working'
  <2>1. Answer(r)
    BY <1>22 DEF DeleteCommunity
  <2>q. QED
    BY <2>1 DEF Working, InTransaction, WithUnit, Event
<1>23. ASSUME NEW r \in Requests, CreateUnit(r) PROVE Working'
  <2>1. Answer(r)
    BY <1>23 DEF CreateUnit
  <2>q. QED
    BY <2>1 DEF Working, InTransaction, WithUnit, Event
<1>24. ASSUME NEW r \in Requests, DeleteUnit(r) PROVE Working'
  <2>1. Answer(r)
    BY <1>24 DEF DeleteUnit
  <2>q. QED
    BY <2>1 DEF Working, InTransaction, WithUnit, Event
<1>25. ASSUME NEW r \in Requests, DeviceCreate(r) PROVE Working'
  <2>1. Answer(r)
    BY <1>25 DEF DeviceCreate
  <2>q. QED
    BY <2>1 DEF Working, InTransaction, WithUnit, Event
<1>26. ASSUME NEW r \in Requests, DeviceUpdate(r) PROVE Working'
  <2>1. Answer(r)
    BY <1>26 DEF DeviceUpdate
  <2>q. QED
    BY <2>1 DEF Working, InTransaction, WithUnit, Event
<1>27. ASSUME NEW r \in Requests, DeviceDelete(r) PROVE Working'
  <2>1. Answer(r)
    BY <1>27 DEF DeviceDelete
  <2>q. QED
    BY <2>1 DEF Working, InTransaction, WithUnit, Event
<1>28. CASE UNCHANGED vars
  BY <1>28 DEF vars, Working, InTransaction, WithUnit, Event
<1>q. QED
  BY <1>1, <1>2, <1>3, <1>4, <1>5, <1>6, <1>7, <1>8, <1>9, <1>10, <1>11,
     <1>12, <1>13, <1>14, <1>15, <1>16, <1>17, <1>18, <1>19, <1>20, <1>21,
     <1>22, <1>23, <1>24, <1>25, <1>26, <1>27, <1>28 DEF Next, Ingest, Api

-----------------------------------------------------------------------------
(* Keys: uncommitted rows and the owners of devices.                       *)

\* A device that exists has a row of its type, hence an owner that is a key.
LEMMA ExistsTyped ==
    ASSUME TypeOK, NEW d \in Devices, Exists(d)
    PROVE  device[d] \in DeviceRow /\ device[d].owner \in Pks /\ device[d].pk \in Pks
  BY DEF TypeOK, Exists, DeviceRow

LEMMA NoneIsNoKey == None \notin Pks
  BY PkAssumption

\* What a step that leaves the rows alone keeps of the owners.
LEMMA OwnersKept == NoOrphanDevice /\ UNCHANGED <<unit, device>> => NoOrphanDevice'
  BY DEF NoOrphanDevice, Exists

LEMMA NextForeign ==
    TypeOK /\ Working /\ Asking /\ Uncommitted /\ NoOrphanDevice /\ [Next]_vars
        => Uncommitted' /\ NoOrphanDevice'
<1> SUFFICES ASSUME TypeOK, Working, Asking, Uncommitted, NoOrphanDevice, [Next]_vars
             PROVE  Uncommitted' /\ NoOrphanDevice'
  OBVIOUS
<1> USE Quiet, IdleIsQuiet, EventEndsIsQuiet, OwnersKept DEF db, rows

<1>1. ASSUME OnConnect PROVE Uncommitted' /\ NoOrphanDevice'
  BY <1>1 DEF OnConnect, TypeOK, Transaction, Uncommitted, InTransaction,
     WithUnit, UnitHeld, Exists, Event
<1>2. ASSUME OnDisconnect PROVE Uncommitted' /\ NoOrphanDevice'
  BY <1>2 DEF OnDisconnect, TypeOK, Transaction, Uncommitted, InTransaction,
     WithUnit, UnitHeld, Exists, Event
<1>3. ASSUME NEW m \in Messages, OnMessage(m) PROVE Uncommitted' /\ NoOrphanDevice'
  BY <1>3 DEF OnMessage, Idle
<1>4. ASSUME OnMessageScalar PROVE Uncommitted' /\ NoOrphanDevice'
  BY <1>4 DEF OnMessageScalar, ThreadDies
<1>5. ASSUME NextEvent PROVE Uncommitted' /\ NoOrphanDevice'
  BY <1>5 DEF NextEvent, TypeOK, Transaction, Uncommitted, InTransaction,
     WithUnit, UnitHeld, Exists, Event
<1>6. ASSUME SelectCommunity PROVE Uncommitted' /\ NoOrphanDevice'
  BY <1>6 DEF SelectCommunity, TypeOK, Transaction, Uncommitted, InTransaction,
     WithUnit, UnitHeld, Exists, Event
<1>7. ASSUME InsertCommunity PROVE Uncommitted' /\ NoOrphanDevice'
  BY <1>7, InsertCommunityTx DEF InsertCommunity, Duplicate, Uncommitted,
     InTransaction, WithUnit, UnitHeld, Exists, Event
<1>8. ASSUME SelectUnit PROVE Uncommitted' /\ NoOrphanDevice'
  BY <1>8 DEF SelectUnit, TypeOK, Transaction, Uncommitted, InTransaction,
     WithUnit, UnitHeld, Exists, Event
<1>9. ASSUME InsertUnit PROVE Uncommitted' /\ NoOrphanDevice'
  BY <1>9, InsertUnitTx DEF InsertUnit, Duplicate, Uncommitted, InTransaction,
     WithUnit, UnitHeld, Exists, Event
<1>10. ASSUME SelectDevice PROVE Uncommitted' /\ NoOrphanDevice'
  BY <1>10 DEF SelectDevice, TypeOK, Transaction, Uncommitted, InTransaction,
     WithUnit, UnitHeld, Exists, Event
<1>11. ASSUME InsertDevice PROVE Uncommitted' /\ NoOrphanDevice'
  BY <1>11, InsertDeviceTx DEF InsertDevice, Duplicate, Working, Uncommitted,
     InTransaction, WithUnit, UnitHeld, Exists, Event
<1>12. ASSUME CommitEvent PROVE Uncommitted' /\ NoOrphanDevice'
  <2>1. Uncommitted'
    BY <1>12 DEF CommitEvent
  <2>2. tx.row \in DeviceRow /\ tx.unit \in Pks /\ Event.dev \in Devices
    BY <1>12 DEF CommitEvent, Working, WithUnit, InTransaction, Events
  <2>3. ASSUME NEW d \in Devices, Exists(d)'
        PROVE  device'[d].owner = unit'
    <3>1. CASE "device" \in tx.added
      <4>1. unit' = tx.unit /\ tx.row.owner = tx.unit
        BY <1>12, <3>1 DEF CommitEvent, Uncommitted, UnitHeld
      <4>2. CASE d = Event.dev
        BY <1>12, <2>2, <3>1, <4>1, <4>2 DEF CommitEvent, TypeOK
      <4>3. CASE d # Event.dev
        <5>1. device'[d] = device[d]
          BY <1>12, <3>1, <4>3 DEF CommitEvent, TypeOK
        <5>2. device[d].owner = unit /\ unit \in Pks
          BY <2>3, <5>1, ExistsTyped DEF Exists, NoOrphanDevice
        <5>3. "unit" \notin tx.added
          BY <5>2, NoneIsNoKey DEF Uncommitted
        <5>q. QED
          BY <1>12, <5>1, <5>2, <5>3 DEF CommitEvent
      <4>q. QED
        BY <4>2, <4>3
    <3>2. CASE "device" \notin tx.added
      <4>1. Exists(d) /\ device'[d].owner = device[d].owner
        <5>1. CASE StateChanges /\ d = Event.dev
          <6>1. device[d].pk = tx.row.pk /\ tx.row.pk \in Pks
            BY <1>12, <2>2, <5>1 DEF CommitEvent, UpdateMisses, DeviceRow
          <6>2. Exists(d)
            BY <6>1, NoneIsNoKey DEF Exists, NoDevice
          <6>q. QED
            BY <1>12, <2>2, <3>2, <5>1, <6>2, ExistsTyped
               DEF CommitEvent, TypeOK, Updated, DeviceRow
        <5>2. CASE ~(StateChanges /\ d = Event.dev)
          BY <1>12, <2>2, <2>3, <3>2, <5>2 DEF CommitEvent, TypeOK, Exists
        <5>q. QED
          BY <5>1, <5>2
      <4>2. device[d].owner = unit /\ unit \in Pks
        BY <4>1, ExistsTyped DEF NoOrphanDevice
      <4>3. "unit" \notin tx.added
        BY <4>2, NoneIsNoKey DEF Uncommitted
      <4>q. QED
        BY <1>12, <4>1, <4>2, <4>3 DEF CommitEvent
    <3>q. QED
      BY <3>1, <3>2
  <2>q. QED
    BY <2>1, <2>3 DEF NoOrphanDevice
<1>13. ASSUME CommitDuplicate PROVE Uncommitted' /\ NoOrphanDevice'
  BY <1>13 DEF CommitDuplicate, Duplicate
<1>14. ASSUME CommitStale PROVE Uncommitted' /\ NoOrphanDevice'
  BY <1>14 DEF CommitStale, Idle, Uncommitted
<1>15. ASSUME RejectEvent PROVE Uncommitted' /\ NoOrphanDevice'
  BY <1>15 DEF RejectEvent
<1>16. ASSUME RejectRaises PROVE Uncommitted' /\ NoOrphanDevice'
  BY <1>16 DEF RejectRaises, ThreadDies
<1>17. ASSUME Restart PROVE Uncommitted' /\ NoOrphanDevice'
  BY <1>17 DEF Restart
<1>18. ASSUME NEW r \in Requests, CheckCommunity(r) PROVE Uncommitted' /\ NoOrphanDevice'
  BY <1>18 DEF CheckCommunity, Begin, Uncommitted, InTransaction, WithUnit,
     UnitHeld, Exists, Event
<1>19. ASSUME NEW r \in Requests, CheckUnit(r) PROVE Uncommitted' /\ NoOrphanDevice'
  BY <1>19 DEF CheckUnit, Begin, Uncommitted, InTransaction, WithUnit, UnitHeld,
     Exists, Event
<1>20. ASSUME NEW r \in Requests, CheckDevice(r) PROVE Uncommitted' /\ NoOrphanDevice'
  BY <1>20 DEF CheckDevice, Begin, Uncommitted, InTransaction, WithUnit, UnitHeld,
     Exists, Event
<1>21. ASSUME NEW r \in Requests, CreateCommunity(r) PROVE Uncommitted' /\ NoOrphanDevice'
  BY <1>21, AnswerTx DEF CreateCommunity, Uncommitted, InTransaction, WithUnit,
     UnitHeld, Exists, Event
<1>22. ASSUME NEW r \in Requests, DeleteCommunity(r) PROVE Uncommitted' /\ NoOrphanDevice'
  BY <1>22, AnswerTx DEF DeleteCommunity, Uncommitted, InTransaction, WithUnit,
     UnitHeld, Exists, Event
<1>23. ASSUME NEW r \in Requests, CreateUnit(r) PROVE Uncommitted' /\ NoOrphanDevice'
  <2>1. Answer(r) /\ "unit" \notin tx.added /\ device' = device
    BY <1>23 DEF CreateUnit
  <2>2. CASE unit # None
    BY <1>23, <2>1, <2>2, AnswerTx DEF CreateUnit, Uncommitted, InTransaction,
       WithUnit,
       UnitHeld, Exists, Event
  <2>3. CASE unit = None
    <3>1. \A d \in Devices : ~Exists(d)
      BY <2>3, ExistsTyped, NoneIsNoKey DEF NoOrphanDevice
    <3>2. "device" \notin tx.added
      BY <2>1, <2>3, NoneIsNoKey DEF Uncommitted, UnitHeld, Working, WithUnit
    <3>3. NoOrphanDevice'
      BY <2>1, <3>1 DEF NoOrphanDevice, Exists
    <3>q. QED
      BY <2>1, <3>2, <3>3, AnswerTx DEF Uncommitted, InTransaction
  <2>q. QED
    BY <2>2, <2>3
<1>24. ASSUME NEW r \in Requests, DeleteUnit(r) PROVE Uncommitted' /\ NoOrphanDevice'
  <2>1. Answer(r) /\ "device" \notin tx.added
    BY <1>24 DEF DeleteUnit
  <2>2. unit' \in {None, unit}
    BY <1>24 DEF DeleteUnit
  <2>3. NoOrphanDevice'
    BY <1>24 DEF DeleteUnit, NoOrphanDevice, Exists
  <2>q. QED
    BY <2>1, <2>2, <2>3, AnswerTx DEF Uncommitted, InTransaction
<1>25. ASSUME NEW r \in Requests, DeviceCreate(r) PROVE Uncommitted' /\ NoOrphanDevice'
  <2>1. /\ Answer(r) /\ unit' = unit
        /\ "device" \in tx.added => Event.dev # api[r].dev
        /\ api[r].dev \in Devices
    BY <1>25 DEF DeviceCreate, Asking
  <2>2. \A d \in Devices : d # api[r].dev => device'[d] = device[d]
    BY <1>25, <2>1 DEF DeviceCreate, TypeOK
  <2>3. device'[api[r].dev] # NoDevice => device'[api[r].dev].owner = unit'
    <3>1. CASE unit = api[r].key /\ ~Exists(api[r].dev)
      BY <1>25, <2>1, <3>1 DEF DeviceCreate, TypeOK
    <3>2. CASE ~(unit = api[r].key /\ ~Exists(api[r].dev))
      BY <1>25, <2>1, <3>2 DEF DeviceCreate, Exists, NoOrphanDevice
    <3>q. QED
      BY <3>1, <3>2
  <2>4. NoOrphanDevice'
    BY <2>1, <2>2, <2>3 DEF NoOrphanDevice, Exists
  <2>5. "device" \in tx.added => Event.dev \in Devices
    BY DEF Uncommitted, Working, InTransaction, Events
  <2>q. QED
    BY <2>1, <2>2, <2>4, <2>5, AnswerTx
       DEF Uncommitted, InTransaction, WithUnit, UnitHeld, Exists, Event
<1>26. ASSUME NEW r \in Requests, DeviceUpdate(r) PROVE Uncommitted' /\ NoOrphanDevice'
  <2>1. Answer(r) /\ unit' = unit /\ api[r].dev \in Devices /\ api[r].row \in DeviceRow
    BY <1>26 DEF DeviceUpdate, Asking
  <2>2. ASSUME NEW d \in Devices
        PROVE  Exists(d)' => Exists(d) /\ device'[d].owner = device[d].owner
    <3>1. CASE d = api[r].dev /\ device[d].pk = api[r].row.pk
      <4>1. Exists(d)
        BY <2>1, <3>1, NoneIsNoKey DEF Exists, NoDevice, DeviceRow
      <4>q. QED
        BY <1>26, <2>1, <3>1, <4>1, ExistsTyped DEF DeviceUpdate, Edited,
           DeviceRow, TypeOK
    <3>2. CASE ~(d = api[r].dev /\ device[d].pk = api[r].row.pk)
      BY <1>26, <2>1, <3>2 DEF DeviceUpdate, TypeOK, Exists
    <3>q. QED
      BY <3>1, <3>2
  <2>3. NoOrphanDevice'
    BY <2>1, <2>2 DEF NoOrphanDevice
  <2>4. "device" \in tx.added => Event.dev \in Devices
    BY DEF Uncommitted, Working, InTransaction, Events
  <2>5. "device" \in tx.added => ~Exists(Event.dev)'
    BY <2>1, <2>2, <2>4, AnswerTx DEF Uncommitted, Event, Exists
  <2>q. QED
    BY <2>1, <2>3, <2>5, AnswerTx DEF Uncommitted, InTransaction, WithUnit, UnitHeld
<1>27. ASSUME NEW r \in Requests, DeviceDelete(r) PROVE Uncommitted' /\ NoOrphanDevice'
  <2>1. Answer(r) /\ unit' = unit /\ api[r].dev \in Devices
    BY <1>27 DEF DeviceDelete, Asking
  <2>2. \A d \in Devices : device'[d] = device[d] \/ device'[d] = NoDevice
    BY <1>27, <2>1 DEF DeviceDelete, TypeOK
  <2>3. NoOrphanDevice'
    BY <2>1, <2>2 DEF NoOrphanDevice, Exists
  <2>4. "device" \in tx.added => Event.dev \in Devices
    BY DEF Uncommitted, Working, InTransaction, Events
  <2>5. "device" \in tx.added => ~Exists(Event.dev)'
    BY <2>1, <2>2, <2>4, AnswerTx DEF Uncommitted, Event, Exists
  <2>q. QED
    BY <2>1, <2>3, <2>5, AnswerTx DEF Uncommitted, InTransaction, WithUnit, UnitHeld
<1>28. CASE UNCHANGED vars
  BY <1>28 DEF vars, Uncommitted, InTransaction, WithUnit, UnitHeld, Exists,
     Event
<1>q. QED
  BY <1>1, <1>2, <1>3, <1>4, <1>5, <1>6, <1>7, <1>8, <1>9, <1>10, <1>11,
     <1>12, <1>13, <1>14, <1>15, <1>16, <1>17, <1>18, <1>19, <1>20, <1>21,
     <1>22, <1>23, <1>24, <1>25, <1>26, <1>27, <1>28 DEF Next, Ingest, Api

-----------------------------------------------------------------------------
(* A transaction that has not been overtaken acts on what is there.        *)

LEMMA NextFresh ==
    /\ TypeOK /\ Working /\ Asking /\ Uncommitted /\ NoOrphanDevice /\ Fresh
    /\ [Next]_vars
    => Fresh'
<1> SUFFICES ASSUME TypeOK, Working, Asking, Uncommitted, NoOrphanDevice, Fresh,
                    [Next]_vars
             PROVE  Fresh'
  OBVIOUS
<1> USE Quiet, IdleIsQuiet, EventEndsIsQuiet DEF db, rows

<1>1. ASSUME OnConnect PROVE Fresh'
  BY <1>1 DEF OnConnect, TypeOK, Transaction, Fresh, InTransaction, WithUnit,
     UnitHeld, Exists, Event
<1>2. ASSUME OnDisconnect PROVE Fresh'
  BY <1>2 DEF OnDisconnect, TypeOK, Transaction, Fresh, InTransaction, WithUnit,
     UnitHeld, Exists, Event
<1>3. ASSUME NEW m \in Messages, OnMessage(m) PROVE Fresh'
  BY <1>3 DEF OnMessage, Idle
<1>4. ASSUME OnMessageScalar PROVE Fresh'
  BY <1>4 DEF OnMessageScalar, ThreadDies
<1>5. ASSUME NextEvent PROVE Fresh'
  BY <1>5 DEF NextEvent, TypeOK, Transaction, Fresh, InTransaction, WithUnit,
     UnitHeld, Exists, Event
<1>6. ASSUME SelectCommunity PROVE Fresh'
  BY <1>6 DEF SelectCommunity, TypeOK, Transaction, Fresh, InTransaction,
     WithUnit, UnitHeld, Exists, Event
<1>7. ASSUME InsertCommunity PROVE Fresh'
  BY <1>7, InsertCommunityTx DEF InsertCommunity, Duplicate, Fresh, InTransaction,
     WithUnit, UnitHeld, Exists, Event
<1>8. ASSUME SelectUnit PROVE Fresh'
  BY <1>8 DEF SelectUnit, TypeOK, Transaction, Fresh, InTransaction, WithUnit,
     UnitHeld, Exists, Event
<1>9. ASSUME InsertUnit PROVE Fresh'
  BY <1>9, InsertUnitTx DEF InsertUnit, Duplicate, Fresh, InTransaction, WithUnit,
     UnitHeld, Exists, Event
<1>10. ASSUME SelectDevice PROVE Fresh'
  <2>1. /\ Event.dev \in Devices /\ tx.unit \in Pks
        /\ ~tx'.raced => UnitHeld
    BY <1>10 DEF SelectDevice, Working, WithUnit, InTransaction, Events, Fresh,
       TypeOK,
       Transaction
  <2>2. ~tx'.raced /\ Exists(Event.dev) => device[Event.dev].owner = tx.unit
    BY <2>1, ExistsTyped, NoneIsNoKey DEF UnitHeld, NoOrphanDevice, Uncommitted
  <2>q. QED
    BY <1>10, <2>1, <2>2 DEF SelectDevice, TypeOK, Transaction, Fresh,
       InTransaction,
       WithUnit, UnitHeld, Exists, Event
<1>11. ASSUME InsertDevice PROVE Fresh'
  BY <1>11, InsertDeviceTx DEF InsertDevice, Duplicate, Working, Fresh,
     InTransaction, WithUnit, UnitHeld, Exists, Event
<1>12. ASSUME CommitEvent PROVE Fresh'
  BY <1>12 DEF CommitEvent
<1>13. ASSUME CommitDuplicate PROVE Fresh'
  BY <1>13 DEF CommitDuplicate, Duplicate
<1>14. ASSUME CommitStale PROVE Fresh'
  BY <1>14 DEF CommitStale, Idle, Fresh, InTransaction
<1>15. ASSUME RejectEvent PROVE Fresh'
  BY <1>15 DEF RejectEvent
<1>16. ASSUME RejectRaises PROVE Fresh'
  BY <1>16 DEF RejectRaises, ThreadDies
<1>17. ASSUME Restart PROVE Fresh'
  BY <1>17 DEF Restart
<1>18. ASSUME NEW r \in Requests, CheckCommunity(r) PROVE Fresh'
  BY <1>18 DEF CheckCommunity, Begin, Fresh, InTransaction, WithUnit, UnitHeld,
     Exists, Event
<1>19. ASSUME NEW r \in Requests, CheckUnit(r) PROVE Fresh'
  BY <1>19 DEF CheckUnit, Begin, Fresh, InTransaction, WithUnit, UnitHeld, Exists,
     Event
<1>20. ASSUME NEW r \in Requests, CheckDevice(r) PROVE Fresh'
  BY <1>20 DEF CheckDevice, Begin, Fresh, InTransaction, WithUnit, UnitHeld,
     Exists, Event
<1>21. ASSUME NEW r \in Requests, CreateCommunity(r) PROVE Fresh'
  <2>1. Answer(r)
    BY <1>21 DEF CreateCommunity
  <2>q. QED
    BY <2>1, AnswerTx DEF Fresh, InTransaction, WithUnit, UnitHeld, Exists, Event
<1>22. ASSUME NEW r \in Requests, DeleteCommunity(r) PROVE Fresh'
  <2>1. Answer(r)
    BY <1>22 DEF DeleteCommunity
  <2>q. QED
    BY <2>1, AnswerTx DEF Fresh, InTransaction, WithUnit, UnitHeld, Exists, Event
<1>23. ASSUME NEW r \in Requests, CreateUnit(r) PROVE Fresh'
  <2>1. Answer(r)
    BY <1>23 DEF CreateUnit
  <2>q. QED
    BY <2>1, AnswerTx DEF Fresh, InTransaction, WithUnit, UnitHeld, Exists, Event
<1>24. ASSUME NEW r \in Requests, DeleteUnit(r) PROVE Fresh'
  <2>1. Answer(r)
    BY <1>24 DEF DeleteUnit
  <2>q. QED
    BY <2>1, AnswerTx DEF Fresh, InTransaction, WithUnit, UnitHeld, Exists, Event
<1>25. ASSUME NEW r \in Requests, DeviceCreate(r) PROVE Fresh'
  <2>1. Answer(r)
    BY <1>25 DEF DeviceCreate
  <2>q. QED
    BY <2>1, AnswerTx DEF Fresh, InTransaction, WithUnit, UnitHeld, Exists, Event
<1>26. ASSUME NEW r \in Requests, DeviceUpdate(r) PROVE Fresh'
  <2>1. Answer(r)
    BY <1>26 DEF DeviceUpdate
  <2>q. QED
    BY <2>1, AnswerTx DEF Fresh, InTransaction, WithUnit, UnitHeld, Exists, Event
<1>27. ASSUME NEW r \in Requests, DeviceDelete(r) PROVE Fresh'
  <2>1. Answer(r)
    BY <1>27 DEF DeviceDelete
  <2>q. QED
    BY <2>1, AnswerTx DEF Fresh, InTransaction, WithUnit, UnitHeld, Exists, Event
<1>28. CASE UNCHANGED vars
  BY <1>28 DEF vars, Fresh, InTransaction, WithUnit, UnitHeld, Exists, Event
<1>q. QED
  BY <1>1, <1>2, <1>3, <1>4, <1>5, <1>6, <1>7, <1>8, <1>9, <1>10, <1>11,
     <1>12, <1>13, <1>14, <1>15, <1>16, <1>17, <1>18, <1>19, <1>20, <1>21,
     <1>22, <1>23, <1>24, <1>25, <1>26, <1>27, <1>28 DEF Next, Ingest, Api

-----------------------------------------------------------------------------
(* Theorems.                                                               *)

LEMMA NextInv == IInv /\ [Next]_vars => IInv'
  BY NextType, NextWorking, NextAsking, NextForeign, NextFresh DEF IInv

\* The inductive invariant holds throughout.
THEOREM IngestionInductive == Spec => []IInv
  BY InitInv, NextInv, PTL DEF Spec

\* Every variable keeps its type (ingest_event and the handlers of routes.py).
THEOREM IngestionTypeCorrect == Spec => []TypeOK
<1>1. IInv => TypeOK
  BY DEF IInv
<1>q. QED
  BY <1>1, IngestionInductive, PTL

\* No device outlives its unit, however ingest_event, delete_unit and
\* unit_device_create interleave.
THEOREM NoOrphanDeviceHolds == Spec => []NoOrphanDevice
<1>1. IInv => NoOrphanDevice
  BY DEF IInv
<1>q. QED
  BY <1>1, IngestionInductive, PTL

\* Once the API has set a device's schedules they stay its own.
LEMMA StepManualStays ==
    ASSUME TypeOK, Working, Asking, Uncommitted, [Next]_vars,
           NEW d \in Devices, SameRow(d), device[d].source = "manual"
    PROVE  device'[d].source = "manual"
<1> DEFINE Stays == device'[d].source = "manual"
<1> SUFFICES Stays
  OBVIOUS
<1> USE DEF db, rows
<1>0. device[d] \in DeviceRow /\ device[d].pk # None /\ device'[d].pk = device[d].pk
  BY ExistsTyped, NoneIsNoKey DEF SameRow
<1>u. device' = device => Stays
  OBVIOUS
<1> HIDE DEF Stays

<1>1. ASSUME OnConnect PROVE Stays
  BY <1>1, <1>u DEF OnConnect
<1>2. ASSUME OnDisconnect PROVE Stays
  BY <1>2, <1>u DEF OnDisconnect
<1>3. ASSUME NEW m \in Messages, OnMessage(m) PROVE Stays
  BY <1>3, <1>u DEF OnMessage
<1>4. ASSUME OnMessageScalar PROVE Stays
  BY <1>4, <1>u DEF OnMessageScalar
<1>5. ASSUME NextEvent PROVE Stays
  BY <1>5, <1>u DEF NextEvent
<1>6. ASSUME SelectCommunity PROVE Stays
  BY <1>6, <1>u DEF SelectCommunity
<1>7. ASSUME InsertCommunity PROVE Stays
  BY <1>7, <1>u DEF InsertCommunity
<1>8. ASSUME SelectUnit PROVE Stays
  BY <1>8, <1>u DEF SelectUnit
<1>9. ASSUME InsertUnit PROVE Stays
  BY <1>9, <1>u DEF InsertUnit
<1>10. ASSUME SelectDevice PROVE Stays
  BY <1>10, <1>u DEF SelectDevice
<1>11. ASSUME InsertDevice PROVE Stays
  BY <1>11, <1>u DEF InsertDevice
<1>12. ASSUME CommitEvent PROVE Stays
  <2>1. Event.dev \in Devices
    BY <1>12 DEF CommitEvent, Working, InTransaction, Events
  <2>2. CASE d # Event.dev
    BY <1>12, <2>1, <2>2 DEF CommitEvent, TypeOK, Stays
  <2>3. CASE d = Event.dev
    <3>1. "device" \notin tx.added
      BY <2>3 DEF Uncommitted, SameRow
    <3>2. CASE StateChanges
      BY <1>12, <1>0, <2>1, <2>3, <3>1, <3>2 DEF CommitEvent, TypeOK, Updated,
         DeviceRow, Stays
    <3>3. CASE ~StateChanges
      BY <1>12, <1>u, <3>1, <3>3 DEF CommitEvent
    <3>q. QED
      BY <3>2, <3>3
  <2>q. QED
    BY <2>2, <2>3
<1>13. ASSUME CommitDuplicate PROVE Stays
  BY <1>13, <1>u DEF CommitDuplicate
<1>14. ASSUME CommitStale PROVE Stays
  BY <1>14, <1>u DEF CommitStale
<1>15. ASSUME RejectEvent PROVE Stays
  BY <1>15, <1>u DEF RejectEvent
<1>16. ASSUME RejectRaises PROVE Stays
  BY <1>16, <1>u DEF RejectRaises
<1>17. ASSUME Restart PROVE Stays
  BY <1>17, <1>u DEF Restart
<1>18. ASSUME NEW r \in Requests, CheckCommunity(r) PROVE Stays
  BY <1>18, <1>u DEF CheckCommunity, Begin
<1>19. ASSUME NEW r \in Requests, CheckUnit(r) PROVE Stays
  BY <1>19, <1>u DEF CheckUnit, Begin
<1>20. ASSUME NEW r \in Requests, CheckDevice(r) PROVE Stays
  BY <1>20, <1>u DEF CheckDevice, Begin
<1>21. ASSUME NEW r \in Requests, CreateCommunity(r) PROVE Stays
  BY <1>21, <1>u DEF CreateCommunity
<1>22. ASSUME NEW r \in Requests, DeleteCommunity(r) PROVE Stays
  BY <1>22, <1>u DEF DeleteCommunity
<1>23. ASSUME NEW r \in Requests, CreateUnit(r) PROVE Stays
  BY <1>23, <1>u DEF CreateUnit
<1>24. ASSUME NEW r \in Requests, DeleteUnit(r) PROVE Stays
  BY <1>24, <1>0, <1>u DEF DeleteUnit, NoDevice
<1>25. ASSUME NEW r \in Requests, DeviceCreate(r) PROVE Stays
  <2>1. CASE d = api[r].dev
    BY <1>25, <1>u, <2>1 DEF DeviceCreate, SameRow
  <2>2. CASE d # api[r].dev
    BY <1>25, <2>2 DEF DeviceCreate, Asking, TypeOK, Stays
  <2>q. QED
    BY <2>1, <2>2
<1>26. ASSUME NEW r \in Requests, DeviceUpdate(r) PROVE Stays
  <2>1. api[r].dev \in Devices /\ api[r].row \in DeviceRow
    BY <1>26 DEF DeviceUpdate, Asking
  <2>q. QED
    BY <1>26, <1>0, <2>1 DEF DeviceUpdate, Edited, TypeOK, DeviceRow, Stays
<1>27. ASSUME NEW r \in Requests, DeviceDelete(r) PROVE Stays
  BY <1>27, <1>0, <1>u DEF DeviceDelete, NoDevice, TypeOK, Asking, Stays
<1>28. CASE UNCHANGED vars
  BY <1>28, <1>u DEF vars
<1>q. QED
  BY <1>1, <1>2, <1>3, <1>4, <1>5, <1>6, <1>7, <1>8, <1>9, <1>10, <1>11,
     <1>12, <1>13, <1>14, <1>15, <1>16, <1>17, <1>18, <1>19, <1>20, <1>21,
     <1>22, <1>23, <1>24, <1>25, <1>26, <1>27, <1>28 DEF Next, Ingest, Api

\* ManualStays: no concurrent ingestion turns the source of a device's
\* schedules back to MQTT.
THEOREM ManualStaysHolds == Spec => ManualStays
<1>1. ASSUME IInv, [Next]_vars
      PROVE  \A d \in Devices :
                SameRow(d) /\ device[d].source = "manual" => device'[d].source = "manual"
  BY <1>1, StepManualStays DEF IInv
<1>2. IInv /\ [Next]_vars =>
         [\A d \in Devices : SameRow(d) /\ device[d].source = "manual"
                                => device'[d].source = "manual"]_vars
  BY <1>1
<1>q. QED
  BY <1>2, IngestionInductive, PTL DEF Spec, ManualStays

\* The lock on schedules set by the API holds against an event whose
\* transaction no request has overtaken.
LEMMA StepManualLocked ==
    ASSUME TypeOK, Working, Asking, Uncommitted, Fresh, [Next]_vars,
           NEW d \in Devices, SameRow(d), device[d].source = "manual",
           device'[d].schedules # device[d].schedules, ~tx.raced
    PROVE  device'[d].schedules \in ApiLists
<1> DEFINE Locked == device'[d].schedules \in ApiLists
<1> SUFFICES Locked
  OBVIOUS
<1> USE DEF db, rows
<1>0. device[d] \in DeviceRow /\ device[d].pk # None /\ device'[d].pk = device[d].pk
  BY ExistsTyped, NoneIsNoKey DEF SameRow
<1>u. device' = device => Locked
  OBVIOUS
<1>v. device'[d] = device[d] => Locked
  OBVIOUS
<1> HIDE DEF Locked

<1>1. ASSUME OnConnect PROVE Locked
  BY <1>1, <1>u DEF OnConnect
<1>2. ASSUME OnDisconnect PROVE Locked
  BY <1>2, <1>u DEF OnDisconnect
<1>3. ASSUME NEW m \in Messages, OnMessage(m) PROVE Locked
  BY <1>3, <1>u DEF OnMessage
<1>4. ASSUME OnMessageScalar PROVE Locked
  BY <1>4, <1>u DEF OnMessageScalar
<1>5. ASSUME NextEvent PROVE Locked
  BY <1>5, <1>u DEF NextEvent
<1>6. ASSUME SelectCommunity PROVE Locked
  BY <1>6, <1>u DEF SelectCommunity
<1>7. ASSUME InsertCommunity PROVE Locked
  BY <1>7, <1>u DEF InsertCommunity
<1>8. ASSUME SelectUnit PROVE Locked
  BY <1>8, <1>u DEF SelectUnit
<1>9. ASSUME InsertUnit PROVE Locked
  BY <1>9, <1>u DEF InsertUnit
<1>10. ASSUME SelectDevice PROVE Locked
  BY <1>10, <1>u DEF SelectDevice
<1>11. ASSUME InsertDevice PROVE Locked
  BY <1>11, <1>u DEF InsertDevice
<1>12. ASSUME CommitEvent PROVE Locked
  <2>1. Event.dev \in Devices
    BY <1>12 DEF CommitEvent, Working, InTransaction, Events
  <2>2. CASE d # Event.dev
    BY <1>12, <1>v, <2>1, <2>2 DEF CommitEvent, TypeOK
  <2>3. CASE d = Event.dev
    <3>1. "device" \notin tx.added
      BY <2>3 DEF Uncommitted, SameRow
    <3>2. tx.row = device[Event.dev]
      BY <1>12, <3>1 DEF CommitEvent, Fresh, InTransaction
    <3>3. ~SchedulesChange
      BY <2>3, <3>2 DEF SchedulesChange, UpdatesSchedules
    <3>4. device'[d].schedules = device[d].schedules
      BY <1>12, <1>0, <2>1, <2>3, <3>1, <3>3 DEF CommitEvent, TypeOK, Updated,
         DeviceRow
    <3>q. QED
      BY <3>4
  <2>q. QED
    BY <2>2, <2>3
<1>13. ASSUME CommitDuplicate PROVE Locked
  BY <1>13, <1>u DEF CommitDuplicate
<1>14. ASSUME CommitStale PROVE Locked
  BY <1>14, <1>u DEF CommitStale
<1>15. ASSUME RejectEvent PROVE Locked
  BY <1>15, <1>u DEF RejectEvent
<1>16. ASSUME RejectRaises PROVE Locked
  BY <1>16, <1>u DEF RejectRaises
<1>17. ASSUME Restart PROVE Locked
  BY <1>17, <1>u DEF Restart
<1>18. ASSUME NEW r \in Requests, CheckCommunity(r) PROVE Locked
  BY <1>18, <1>u DEF CheckCommunity, Begin
<1>19. ASSUME NEW r \in Requests, CheckUnit(r) PROVE Locked
  BY <1>19, <1>u DEF CheckUnit, Begin
<1>20. ASSUME NEW r \in Requests, CheckDevice(r) PROVE Locked
  BY <1>20, <1>u DEF CheckDevice, Begin
<1>21. ASSUME NEW r \in Requests, CreateCommunity(r) PROVE Locked
  BY <1>21, <1>u DEF CreateCommunity
<1>22. ASSUME NEW r \in Requests, DeleteCommunity(r) PROVE Locked
  BY <1>22, <1>u DEF DeleteCommunity
<1>23. ASSUME NEW r \in Requests, CreateUnit(r) PROVE Locked
  BY <1>23, <1>u DEF CreateUnit
<1>24. ASSUME NEW r \in Requests, DeleteUnit(r) PROVE Locked
  BY <1>24, <1>0, <1>u DEF DeleteUnit, NoDevice
<1>25. ASSUME NEW r \in Requests, DeviceCreate(r) PROVE Locked
  <2>1. CASE d = api[r].dev
    BY <1>25, <1>u, <2>1 DEF DeviceCreate, SameRow
  <2>2. CASE d # api[r].dev
    BY <1>25, <1>v, <2>2 DEF DeviceCreate, Asking, TypeOK
  <2>q. QED
    BY <2>1, <2>2
<1>26. ASSUME NEW r \in Requests, DeviceUpdate(r) PROVE Locked
  <2>1. /\ api[r].dev \in Devices /\ api[r].row \in DeviceRow
        /\ api[r].schedules \in ApiLists \union {NoList}
    BY <1>26 DEF DeviceUpdate, Asking, TypeOK, Request, NoRequest
  <2>q. QED
    BY <1>26, <1>0, <2>1 DEF DeviceUpdate, Edited, TypeOK, DeviceRow, Locked
<1>27. ASSUME NEW r \in Requests, DeviceDelete(r) PROVE Locked
  BY <1>27, <1>0, <1>u, <1>v DEF DeviceDelete, NoDevice, TypeOK, Asking
<1>28. CASE UNCHANGED vars
  BY <1>28, <1>u DEF vars
<1>q. QED
  BY <1>1, <1>2, <1>3, <1>4, <1>5, <1>6, <1>7, <1>8, <1>9, <1>10, <1>11,
     <1>12, <1>13, <1>14, <1>15, <1>16, <1>17, <1>18, <1>19, <1>20, <1>21,
     <1>22, <1>23, <1>24, <1>25, <1>26, <1>27, <1>28 DEF Next, Ingest, Api

\* ManualLockedUnlessRaced: schedules set by the API change only by the API,
\* but for transactions a request has overtaken.
THEOREM ManualLockedUnlessRacedHolds == Spec => ManualLockedUnlessRaced
<1>1. ASSUME IInv, [Next]_vars
      PROVE  \A d \in Devices :
                /\ SameRow(d) /\ device[d].source = "manual"
                /\ device'[d].schedules # device[d].schedules
                => device'[d].schedules \in ApiLists \/ tx.raced
  BY <1>1, StepManualLocked DEF IInv
<1>2. IInv /\ [Next]_vars =>
         [\A d \in Devices :
                /\ SameRow(d) /\ device[d].source = "manual"
                /\ device'[d].schedules # device[d].schedules
                => device'[d].schedules \in ApiLists \/ tx.raced]_vars
  BY <1>1
<1>q. QED
  BY <1>2, IngestionInductive, PTL DEF Spec, ManualLockedUnlessRaced

LEMMA AnswerShows ==
    ASSUME TypeOK, NEW r \in Requests, Answer(r), api[r].op # "none"
    PROVE  api' # api
  BY DEF TypeOK, Answer, NoRequest

LEMMA StepIngestAtomic ==
    ASSUME TypeOK, [Next]_vars, api' = api, <<rows, history>>' # <<rows, history>>
    PROVE  readings' # readings
<1> DEFINE Atomic == readings' # readings
<1> SUFFICES Atomic
  OBVIOUS
<1> USE DEF db
<1>u. UNCHANGED <<rows, history>> => Atomic
  OBVIOUS
<1> HIDE DEF Atomic

<1>1. ASSUME OnConnect PROVE Atomic
  BY <1>1, <1>u DEF OnConnect
<1>2. ASSUME OnDisconnect PROVE Atomic
  BY <1>2, <1>u DEF OnDisconnect
<1>3. ASSUME NEW m \in Messages, OnMessage(m) PROVE Atomic
  BY <1>3, <1>u DEF OnMessage
<1>4. ASSUME OnMessageScalar PROVE Atomic
  BY <1>4, <1>u DEF OnMessageScalar
<1>5. ASSUME NextEvent PROVE Atomic
  BY <1>5, <1>u DEF NextEvent
<1>6. ASSUME SelectCommunity PROVE Atomic
  BY <1>6, <1>u DEF SelectCommunity
<1>7. ASSUME InsertCommunity PROVE Atomic
  BY <1>7, <1>u DEF InsertCommunity
<1>8. ASSUME SelectUnit PROVE Atomic
  BY <1>8, <1>u DEF SelectUnit
<1>9. ASSUME InsertUnit PROVE Atomic
  BY <1>9, <1>u DEF InsertUnit
<1>10. ASSUME SelectDevice PROVE Atomic
  BY <1>10, <1>u DEF SelectDevice
<1>11. ASSUME InsertDevice PROVE Atomic
  BY <1>11, <1>u DEF InsertDevice
<1>12. ASSUME CommitEvent PROVE Atomic
  BY <1>12 DEF CommitEvent, Atomic
<1>13. ASSUME CommitDuplicate PROVE Atomic
  BY <1>13, <1>u DEF CommitDuplicate
<1>14. ASSUME CommitStale PROVE Atomic
  BY <1>14, <1>u DEF CommitStale
<1>15. ASSUME RejectEvent PROVE Atomic
  BY <1>15, <1>u DEF RejectEvent
<1>16. ASSUME RejectRaises PROVE Atomic
  BY <1>16, <1>u DEF RejectRaises
<1>17. ASSUME Restart PROVE Atomic
  BY <1>17, <1>u DEF Restart
<1>18. ASSUME NEW r \in Requests, CheckCommunity(r) PROVE Atomic
  BY <1>18, <1>u DEF CheckCommunity, Begin
<1>19. ASSUME NEW r \in Requests, CheckUnit(r) PROVE Atomic
  BY <1>19, <1>u DEF CheckUnit, Begin
<1>20. ASSUME NEW r \in Requests, CheckDevice(r) PROVE Atomic
  BY <1>20, <1>u DEF CheckDevice, Begin
<1>21. ASSUME NEW r \in Requests, CreateCommunity(r) PROVE Atomic
  BY <1>21, AnswerShows DEF CreateCommunity
<1>22. ASSUME NEW r \in Requests, DeleteCommunity(r) PROVE Atomic
  BY <1>22, AnswerShows DEF DeleteCommunity
<1>23. ASSUME NEW r \in Requests, CreateUnit(r) PROVE Atomic
  BY <1>23, AnswerShows DEF CreateUnit
<1>24. ASSUME NEW r \in Requests, DeleteUnit(r) PROVE Atomic
  BY <1>24, AnswerShows DEF DeleteUnit
<1>25. ASSUME NEW r \in Requests, DeviceCreate(r) PROVE Atomic
  BY <1>25, AnswerShows DEF DeviceCreate
<1>26. ASSUME NEW r \in Requests, DeviceUpdate(r) PROVE Atomic
  BY <1>26, AnswerShows DEF DeviceUpdate
<1>27. ASSUME NEW r \in Requests, DeviceDelete(r) PROVE Atomic
  BY <1>27, AnswerShows DEF DeviceDelete
<1>28. CASE UNCHANGED vars
  BY <1>28, <1>u DEF vars
<1>q. QED
  BY <1>1, <1>2, <1>3, <1>4, <1>5, <1>6, <1>7, <1>8, <1>9, <1>10, <1>11,
     <1>12, <1>13, <1>14, <1>15, <1>16, <1>17, <1>18, <1>19, <1>20, <1>21,
     <1>22, <1>23, <1>24, <1>25, <1>26, <1>27, <1>28 DEF Next, Ingest, Api

\* IngestAtomic: ingest_event leaves its mark on the community, the unit, the
\* device and its history only together with a new reading.
THEOREM IngestAtomicHolds == Spec => IngestAtomic
<1>1. IInv /\ [Next]_vars =>
         [api' = api /\ <<rows, history>>' # <<rows, history>>
              => readings' # readings]_vars
  BY StepIngestAtomic DEF IInv
<1>q. QED
  BY <1>1, IngestionInductive, PTL DEF Spec, IngestAtomic

LEMMA StepEventAccounted ==
    ASSUME TypeOK, Working, Fresh, [Next]_vars,
           tx.at # "next", tx'.at = "next", tx.queue # <<>>
    PROVE  \/ Event \in Invalid /\ Event \in deadLetters'
           \/ Event \in Events /\ (Key \in readings' \/ Event \in deadLetters')
           \/ tx.raced
<1> DEFINE Accounted == \/ Event \in Invalid /\ Event \in deadLetters'
                        \/ Event \in Events /\ (Key \in readings' \/ Event \in deadLetters')
                        \/ tx.raced
<1> SUFFICES Accounted
  OBVIOUS
<1>e. Event \in Events \union Invalid
  BY QueueTypes
<1>r. tx.raced => Accounted
  OBVIOUS
<1> HIDE DEF Accounted

<1>1. ASSUME OnConnect PROVE Accounted
  BY <1>1 DEF OnConnect, TypeOK, Transaction
<1>2. ASSUME OnDisconnect PROVE Accounted
  BY <1>2 DEF OnDisconnect, TypeOK, Transaction
<1>3. ASSUME NEW m \in Messages, OnMessage(m) PROVE Accounted
  BY <1>3 DEF OnMessage, Idle
<1>4. ASSUME OnMessageScalar PROVE Accounted
  BY <1>4 DEF OnMessageScalar, ThreadDies, Idle
<1>5. ASSUME NextEvent PROVE Accounted
  BY <1>5 DEF NextEvent, TypeOK, Transaction
<1>6. ASSUME SelectCommunity PROVE Accounted
  BY <1>6 DEF SelectCommunity, TypeOK, Transaction
<1>7. ASSUME InsertCommunity PROVE Accounted
  <2>1. CASE community # None
    BY <1>7, <1>r, <2>1, Zenon DEF InsertCommunity, Fresh, InTransaction
  <2>2. CASE community = None
    BY <1>7, <2>2, InsertCommunityTx
  <2>q. QED
    BY <2>1, <2>2
<1>8. ASSUME SelectUnit PROVE Accounted
  BY <1>8 DEF SelectUnit, TypeOK, Transaction
<1>9. ASSUME InsertUnit PROVE Accounted
  <2>1. CASE unit # None
    BY <1>9, <1>r, <2>1, Zenon DEF InsertUnit, Fresh, InTransaction
  <2>2. CASE unit = None
    BY <1>9, <2>2, InsertUnitTx
  <2>q. QED
    BY <2>1, <2>2
<1>10. ASSUME SelectDevice PROVE Accounted
  BY <1>10 DEF SelectDevice, TypeOK, Transaction
<1>11. ASSUME InsertDevice PROVE Accounted
  <2>1. CASE ~UnitHeld \/ Exists(Event.dev)
    BY <1>11, <1>r, <2>1 DEF InsertDevice, Fresh, InTransaction, WithUnit
  <2>2. CASE UnitHeld /\ ~Exists(Event.dev)
    BY <1>11, <2>2, InsertDeviceTx
  <2>q. QED
    BY <2>1, <2>2
<1>12. ASSUME CommitEvent PROVE Accounted
  BY <1>12 DEF CommitEvent, Working, InTransaction, Accounted
<1>13. ASSUME CommitDuplicate PROVE Accounted
  BY <1>13 DEF CommitDuplicate, Working, InTransaction, Accounted, db
<1>14. ASSUME CommitStale PROVE Accounted
  BY <1>14 DEF CommitStale, Idle
<1>15. ASSUME RejectEvent PROVE Accounted
  BY <1>15, <1>e DEF RejectEvent, Accounted
<1>16. ASSUME RejectRaises PROVE Accounted
  BY <1>16 DEF RejectRaises, ThreadDies, Idle
<1>17. ASSUME Restart PROVE Accounted
  BY <1>17 DEF Restart, Idle
<1>18. ASSUME NEW r \in Requests, CheckCommunity(r) PROVE Accounted
  BY <1>18 DEF CheckCommunity, Begin
<1>19. ASSUME NEW r \in Requests, CheckUnit(r) PROVE Accounted
  BY <1>19 DEF CheckUnit, Begin
<1>20. ASSUME NEW r \in Requests, CheckDevice(r) PROVE Accounted
  BY <1>20 DEF CheckDevice, Begin
<1>21. ASSUME NEW r \in Requests, CreateCommunity(r) PROVE Accounted
  BY <1>21, AnswerTx DEF CreateCommunity
<1>22. ASSUME NEW r \in Requests, DeleteCommunity(r) PROVE Accounted
  BY <1>22, AnswerTx DEF DeleteCommunity
<1>23. ASSUME NEW r \in Requests, CreateUnit(r) PROVE Accounted
  BY <1>23, AnswerTx DEF CreateUnit
<1>24. ASSUME NEW r \in Requests, DeleteUnit(r) PROVE Accounted
  BY <1>24, AnswerTx DEF DeleteUnit
<1>25. ASSUME NEW r \in Requests, DeviceCreate(r) PROVE Accounted
  BY <1>25, AnswerTx DEF DeviceCreate
<1>26. ASSUME NEW r \in Requests, DeviceUpdate(r) PROVE Accounted
  BY <1>26, AnswerTx DEF DeviceUpdate
<1>27. ASSUME NEW r \in Requests, DeviceDelete(r) PROVE Accounted
  BY <1>27, AnswerTx DEF DeviceDelete
<1>28. CASE UNCHANGED vars
  BY <1>28 DEF vars
<1>q. QED
  BY <1>1, <1>2, <1>3, <1>4, <1>5, <1>6, <1>7, <1>8, <1>9, <1>10, <1>11,
     <1>12, <1>13, <1>14, <1>15, <1>16, <1>17, <1>18, <1>19, <1>20, <1>21,
     <1>22, <1>23, <1>24, <1>25, <1>26, <1>27, <1>28 DEF Next, Ingest, Api

\* EventAccounted: what ingest_event is done with is stored or dead-lettered,
\* unless a request overtook its transaction.
THEOREM EventAccountedHolds == Spec => EventAccounted
<1>1. IInv /\ [Next]_vars =>
         [tx.at # "next" /\ tx'.at = "next" /\ tx.queue # <<>> =>
              \/ Event \in Invalid /\ Event \in deadLetters'
              \/ Event \in Events /\ (Key \in readings' \/ Event \in deadLetters')
              \/ tx.raced]_vars
  BY StepEventAccounted DEF IInv
<1>q. QED
  BY <1>1, IngestionInductive, PTL DEF Spec, EventAccounted

-----------------------------------------------------------------------------
(* Ingestion implements the intake.                                        *)

\* Between transactions nothing is overtaken, and an event that passed
\* validation is rejected only once a request has overtaken it.
Orderly ==
    /\ tx.at \in {"idle", "next"} => ~tx.raced
    /\ tx.at = "reject" => Event \in Invalid \/ tx.raced

LEMMA NextOrderly == IInv /\ Orderly /\ [Next]_vars => Orderly'
<1> SUFFICES ASSUME IInv, Orderly, [Next]_vars PROVE Orderly'
  OBVIOUS
<1> USE DEF IInv, Orderly
<1>k. UNCHANGED tx => Orderly'
  BY DEF Event
<1>i. tx' = Idle => Orderly'
  BY DEF Idle
<1>e. EventEnds => Orderly'
  BY DEF EventEnds, Idle
<1>a. ASSUME NEW r \in Requests, Answer(r) PROVE Orderly'
  <2>1. tx'.at = tx.at /\ tx'.queue = tx.queue
    BY <1>a, AnswerTx
  <2>2. tx.raced => tx'.raced
    BY <1>a DEF Answer, TypeOK, Transaction
  <2>3. tx.at \in {"idle", "next"} => tx'.raced = tx.raced
    BY <1>a DEF Answer, TypeOK, Transaction, InTransaction
  <2>q. QED
    BY <2>1, <2>2, <2>3 DEF Event
<1>1. ASSUME OnConnect PROVE Orderly'
  BY <1>1, <1>k DEF OnConnect
<1>2. ASSUME OnDisconnect PROVE Orderly'
  BY <1>2, <1>k DEF OnDisconnect
<1>3. ASSUME NEW m \in Messages, OnMessage(m) PROVE Orderly'
  BY <1>3, <1>i DEF OnMessage, Idle
<1>4. ASSUME OnMessageScalar PROVE Orderly'
  BY <1>4, <1>i DEF OnMessageScalar, ThreadDies, Idle
<1>5. ASSUME NextEvent PROVE Orderly'
  <2>1. CASE tx.queue = <<>>
    BY <1>5, <1>i, <2>1 DEF NextEvent, Idle
  <2>2. CASE tx.queue # <<>> /\ Event \in Invalid
    BY <1>5, <2>2 DEF NextEvent, TypeOK, Transaction, Event
  <2>3. CASE tx.queue # <<>> /\ Event \notin Invalid
    BY <1>5, <2>3 DEF NextEvent, TypeOK, Transaction
  <2>q. QED
    BY <2>1, <2>2, <2>3
<1>6. ASSUME SelectCommunity PROVE Orderly'
  BY <1>6 DEF SelectCommunity, TypeOK, Transaction
<1>7. ASSUME InsertCommunity PROVE Orderly'
  <2>1. CASE community # None
    BY <1>7, <1>e, <2>1 DEF InsertCommunity, Duplicate
  <2>2. CASE community = None
    BY <1>7, <2>2, InsertCommunityTx
  <2>q. QED
    BY <2>1, <2>2
<1>8. ASSUME SelectUnit PROVE Orderly'
  BY <1>8 DEF SelectUnit, TypeOK, Transaction
<1>9. ASSUME InsertUnit PROVE Orderly'
  <2>1. CASE unit # None
    BY <1>9, <1>e, <2>1 DEF InsertUnit, Duplicate
  <2>2. CASE unit = None
    BY <1>9, <2>2, InsertUnitTx
  <2>q. QED
    BY <2>1, <2>2
<1>10. ASSUME SelectDevice PROVE Orderly'
  BY <1>10 DEF SelectDevice, TypeOK, Transaction
<1>11. ASSUME InsertDevice PROVE Orderly'
  <2>1. CASE ~UnitHeld \/ Exists(Event.dev)
    BY <1>11, <1>e, <2>1 DEF InsertDevice, Duplicate
  <2>2. CASE UnitHeld /\ ~Exists(Event.dev)
    BY <1>11, <2>2, InsertDeviceTx
  <2>q. QED
    BY <2>1, <2>2
<1>12. ASSUME CommitEvent PROVE Orderly'
  BY <1>12, <1>e DEF CommitEvent
<1>13. ASSUME CommitDuplicate PROVE Orderly'
  BY <1>13, <1>e DEF CommitDuplicate, Duplicate
<1>14. ASSUME CommitStale PROVE Orderly'
  <2>1. tx.raced
    BY <1>14 DEF CommitStale, UpdateMisses, StateChanges, Fresh, InTransaction
  <2>q. QED
    BY <1>14, <2>1 DEF CommitStale, Idle
<1>15. ASSUME RejectEvent PROVE Orderly'
  BY <1>15, <1>e DEF RejectEvent
<1>16. ASSUME RejectRaises PROVE Orderly'
  BY <1>16, <1>i DEF RejectRaises, ThreadDies
<1>17. ASSUME Restart PROVE Orderly'
  BY <1>17, <1>i DEF Restart
<1>18. ASSUME NEW r \in Requests, CheckCommunity(r) PROVE Orderly'
  BY <1>18, <1>k DEF CheckCommunity, Begin
<1>19. ASSUME NEW r \in Requests, CheckUnit(r) PROVE Orderly'
  BY <1>19, <1>k DEF CheckUnit, Begin
<1>20. ASSUME NEW r \in Requests, CheckDevice(r) PROVE Orderly'
  BY <1>20, <1>k DEF CheckDevice, Begin
<1>21. ASSUME NEW r \in Requests, CreateCommunity(r) PROVE Orderly'
  BY <1>21, <1>a DEF CreateCommunity
<1>22. ASSUME NEW r \in Requests, DeleteCommunity(r) PROVE Orderly'
  BY <1>22, <1>a DEF DeleteCommunity
<1>23. ASSUME NEW r \in Requests, CreateUnit(r) PROVE Orderly'
  BY <1>23, <1>a DEF CreateUnit
<1>24. ASSUME NEW r \in Requests, DeleteUnit(r) PROVE Orderly'
  BY <1>24, <1>a DEF DeleteUnit
<1>25. ASSUME NEW r \in Requests, DeviceCreate(r) PROVE Orderly'
  BY <1>25, <1>a DEF DeviceCreate
<1>26. ASSUME NEW r \in Requests, DeviceUpdate(r) PROVE Orderly'
  BY <1>26, <1>a DEF DeviceUpdate
<1>27. ASSUME NEW r \in Requests, DeviceDelete(r) PROVE Orderly'
  BY <1>27, <1>a DEF DeviceDelete
<1>28. CASE UNCHANGED vars
  BY <1>28, <1>k DEF vars
<1>q. QED
  BY <1>1, <1>2, <1>3, <1>4, <1>5, <1>6, <1>7, <1>8, <1>9, <1>10, <1>11,
     <1>12, <1>13, <1>14, <1>15, <1>16, <1>17, <1>18, <1>19, <1>20, <1>21,
     <1>22, <1>23, <1>24, <1>25, <1>26, <1>27, <1>28 DEF Next, Ingest, Api

LEMMA OrderlyHolds == Spec => []Orderly
<1>1. Init => Orderly
  BY DEF Init, Orderly, Idle
<1>q. QED
  BY <1>1, NextOrderly, IngestionInductive, PTL DEF Spec

LEMMA InvalidIsNoEvent == Invalid \intersect Events = {}
  BY DEF Invalid, Events

LEMMA AskedIsRequest ==
    ASSUME NEW op, op # "none"
    PROVE  Asked(op) # NoRequest /\ \A p : [Asked(op) EXCEPT !.key = p] # NoRequest
  BY DEF Asked, NoRequest

\* The requests at hand, as the intake sees them.
Answering == {r \in Requests : api[r] # NoRequest}

LEMMA StepIntake == IInv /\ Orderly /\ [Next]_vars => [Intake!IntakeNext]_(Intake!intake)
<1> DEFINE Mapped == [Intake!IntakeNext]_(Intake!intake)
<1> SUFFICES ASSUME IInv, Orderly, [Next]_vars PROVE Mapped
  OBVIOUS
<1> USE DEF IInv, db, Intake!intake, Intake!Event, Intake!Key, Event, Key
<1>k. UNCHANGED api => Answering' = Answering
  BY DEF Answering
<1>u. UNCHANGED <<tx.queue, tx.raced, db, api>> => Mapped
  BY <1>k DEF Answering
<1>w. /\ tx.at \notin {"idle", "next"} => tx.queue # <<>>
      /\ InTransaction => Event \in Events
  BY DEF Working
<1>d. tx.queue # <<>> /\ EventEnds /\ UNCHANGED api => Intake!Done
  BY <1>k DEF EventEnds, Idle, Intake!Done, Answering
<1>s. ASSUME tx.queue # <<>>, Event \in Events, Key \in readings \/ tx.raced,
             EventEnds, UNCHANGED <<db, api>>
      PROVE  Mapped
  <2>1. Intake!Skip
    BY <1>s, <1>d DEF Intake!Skip
  <2>q. QED
    BY <2>1 DEF Intake!IntakeNext
<1>l. ASSUME tx'.queue = <<>>, tx'.raced = FALSE, Answering' \in {Answering, {}},
             UNCHANGED db
      PROVE  Mapped
  <2>1. Intake!Lose
    BY <1>l DEF Intake!Lose, Answering
  <2>q. QED
    BY <2>1 DEF Intake!IntakeNext
<1>b. ASSUME NEW r \in Requests, NEW request, request # NoRequest, Begin(r, request) PROVE Mapped
  <2>1. Answering' = Answering \union {r}
    BY <1>b DEF Begin, Answering, TypeOK
  <2>2. Intake!Ask(r)
    BY <1>b, <2>1 DEF Begin, Intake!Ask, Answering
  <2>q. QED
    BY <2>2 DEF Intake!IntakeNext
<1>a. ASSUME NEW r \in Requests, api[r] # NoRequest, Answer(r) PROVE Mapped
  <2>1. r \in Answering /\ Answering' = Answering \ {r}
    BY <1>a DEF Answer, Answering, TypeOK
  <2>2. /\ tx'.queue = tx.queue
        /\ tx'.raced \in {tx.raced, TRUE}
        /\ tx'.raced # tx.raced => rows' # rows
    BY <1>a DEF Answer, TypeOK, Transaction
  <2>3. Intake!Edit(r)
    BY <1>a, <2>1, <2>2 DEF Answer, Intake!Edit, Answering
  <2>q. QED
    BY <2>3 DEF Intake!IntakeNext
<1> HIDE DEF Mapped
<1>1. ASSUME OnConnect PROVE Mapped
  BY <1>1, <1>u DEF OnConnect
<1>2. ASSUME OnDisconnect PROVE Mapped
  BY <1>2, <1>u DEF OnDisconnect
<1>3. ASSUME NEW m \in Messages, OnMessage(m) PROVE Mapped
  <2>1. Intake!Deliver(m)
    BY <1>3, <1>k DEF OnMessage, Idle, Intake!Deliver, Answering
  <2>q. QED
    BY <2>1 DEF Intake!IntakeNext, Mapped
<1>4. ASSUME OnMessageScalar PROVE Mapped
  BY <1>4, <1>k, <1>l DEF OnMessageScalar, ThreadDies, Idle
<1>5. ASSUME NextEvent PROVE Mapped
  <2>1. CASE tx.queue = <<>>
    <3>1. tx.raced \in BOOLEAN
      BY DEF TypeOK, Transaction
    <3>2. tx.raced = FALSE
      BY <1>5, <3>1, Zenon DEF NextEvent, Orderly
    <3>3. tx' = Idle
      BY <1>5, <2>1 DEF NextEvent
    <3>q. QED
      BY <1>5, <1>u, <2>1, <3>2, <3>3 DEF NextEvent, Idle
  <2>2. CASE tx.queue # <<>>
    BY <1>5, <1>u, <2>2 DEF NextEvent, TypeOK, Transaction
  <2>q. QED
    BY <2>1, <2>2
<1>6. ASSUME SelectCommunity PROVE Mapped
  BY <1>6, <1>u DEF SelectCommunity, TypeOK, Transaction
<1>7. ASSUME InsertCommunity PROVE Mapped
  <2>1. CASE community # None
    BY <1>7, <1>w, <1>s, <2>1 DEF InsertCommunity, Duplicate, Fresh, InTransaction
  <2>2. CASE community = None
    BY <1>7, <1>u, <2>2, InsertCommunityTx DEF InsertCommunity
  <2>q. QED
    BY <2>1, <2>2
<1>8. ASSUME SelectUnit PROVE Mapped
  BY <1>8, <1>u DEF SelectUnit, TypeOK, Transaction
<1>9. ASSUME InsertUnit PROVE Mapped
  <2>1. CASE unit # None
    BY <1>9, <1>w, <1>s, <2>1 DEF InsertUnit, Duplicate, Fresh, InTransaction
  <2>2. CASE unit = None
    BY <1>9, <1>u, <2>2, InsertUnitTx DEF InsertUnit
  <2>q. QED
    BY <2>1, <2>2
<1>10. ASSUME SelectDevice PROVE Mapped
  BY <1>10, <1>u DEF SelectDevice, TypeOK, Transaction
<1>11. ASSUME InsertDevice PROVE Mapped
  <2>1. CASE ~UnitHeld \/ Exists(Event.dev)
    BY <1>11, <1>w, <1>s, <2>1 DEF InsertDevice, Duplicate, Fresh, InTransaction, WithUnit
  <2>2. CASE UnitHeld /\ ~Exists(Event.dev)
    BY <1>11, <1>u, <2>2, InsertDeviceTx DEF InsertDevice
  <2>q. QED
    BY <2>1, <2>2
<1>12. ASSUME CommitEvent PROVE Mapped
  <2>1. Event \in Events /\ Intake!Done
    BY <1>12, <1>w, <1>d DEF CommitEvent, InTransaction
  <2>2. history \subseteq history'
    BY <1>12 DEF CommitEvent
  <2>3. Intake!Store
    BY <1>12, <1>k, <2>1, <2>2 DEF CommitEvent, Intake!Store
  <2>q. QED
    BY <2>3 DEF Intake!IntakeNext, Mapped
<1>13. ASSUME CommitDuplicate PROVE Mapped
  BY <1>13, <1>w, <1>s DEF CommitDuplicate, Duplicate, InTransaction
<1>14. ASSUME CommitStale PROVE Mapped
  <2>1. UNCHANGED <<tx.queue, tx.raced>>
    BY <1>14 DEF CommitStale, Idle
  <2>q. QED
    BY <1>14, <1>u, <2>1 DEF CommitStale
<1>15. ASSUME RejectEvent PROVE Mapped
  <2>1. Event \notin Events \/ tx.raced
    BY <1>15, InvalidIsNoEvent DEF RejectEvent, Orderly
  <2>2. Intake!Done
    BY <1>15, <1>w, <1>d DEF RejectEvent
  <2>3. Intake!Reject
    BY <1>15, <1>k, <2>1, <2>2 DEF RejectEvent, Intake!Reject
  <2>q. QED
    BY <2>3 DEF Intake!IntakeNext, Mapped
<1>16. ASSUME RejectRaises PROVE Mapped
  BY <1>16, <1>k, <1>l DEF RejectRaises, ThreadDies, Idle
<1>17. ASSUME Restart PROVE Mapped
  <2>1. Answering' = {}
    BY <1>17 DEF Restart, Answering
  <2>q. QED
    BY <1>17, <1>l, <2>1 DEF Restart, Idle
<1>18. ASSUME NEW r \in Requests, CheckCommunity(r) PROVE Mapped
  BY <1>18, <1>b, AskedIsRequest DEF CheckCommunity
<1>19. ASSUME NEW r \in Requests, CheckUnit(r) PROVE Mapped
  BY <1>19, <1>b, AskedIsRequest DEF CheckUnit
<1>20. ASSUME NEW r \in Requests, CheckDevice(r) PROVE Mapped
  <2>1. PICK d \in Devices, s \in ApiLists \union {NoList}, e \in BOOLEAN :
          LET about(op) == [Asked(op) EXCEPT !.dev = d, !.schedules = s,
                              !.controllable = e, !.key = unit, !.row = device[d]]
          IN  \/ Begin(r, about("device_create"))
              \/ Begin(r, about("device_update"))
              \/ Begin(r, [Asked("device_delete") EXCEPT !.dev = d, !.row = device[d]])
    BY <1>20 DEF CheckDevice
  <2>q. QED
    BY <1>b, <2>1 DEF Asked, NoRequest
<1>21. ASSUME NEW r \in Requests, CreateCommunity(r) PROVE Mapped
  BY <1>21, <1>a DEF CreateCommunity, NoRequest
<1>22. ASSUME NEW r \in Requests, DeleteCommunity(r) PROVE Mapped
  BY <1>22, <1>a DEF DeleteCommunity, NoRequest
<1>23. ASSUME NEW r \in Requests, CreateUnit(r) PROVE Mapped
  BY <1>23, <1>a DEF CreateUnit, NoRequest
<1>24. ASSUME NEW r \in Requests, DeleteUnit(r) PROVE Mapped
  BY <1>24, <1>a DEF DeleteUnit, NoRequest
<1>25. ASSUME NEW r \in Requests, DeviceCreate(r) PROVE Mapped
  BY <1>25, <1>a DEF DeviceCreate, NoRequest
<1>26. ASSUME NEW r \in Requests, DeviceUpdate(r) PROVE Mapped
  BY <1>26, <1>a DEF DeviceUpdate, NoRequest
<1>27. ASSUME NEW r \in Requests, DeviceDelete(r) PROVE Mapped
  BY <1>27, <1>a DEF DeviceDelete, NoRequest
<1>28. CASE UNCHANGED vars
  BY <1>28, <1>u DEF vars
<1>q. QED
  BY <1>1, <1>2, <1>3, <1>4, <1>5, <1>6, <1>7, <1>8, <1>9, <1>10, <1>11,
     <1>12, <1>13, <1>14, <1>15, <1>16, <1>17, <1>18, <1>19, <1>20, <1>21,
     <1>22, <1>23, <1>24, <1>25, <1>26, <1>27, <1>28 DEF Next, Ingest, Api

\* ImplementsIntake: of every event the database shows all or nothing, and an
\* event is lost only with its thread, as a duplicate or to a request.
THEOREM ImplementsIntakeHolds == Spec => ImplementsIntake
<1>1. Init => Intake!IntakeInit
  BY DEF Init, Idle, NoRequest, Intake!IntakeInit
<1>q. QED
  BY <1>1, StepIntake, IngestionInductive, OrderlyHolds, PTL
     DEF Spec, ImplementsIntake, Intake!IntakeSpec

=============================================================================

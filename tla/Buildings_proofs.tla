---------------------------- MODULE Buildings_proofs ----------------------------
(***************************************************************************)
(* Proofs about buildings and their figures, for any buildings, units,     *)
(* readings, threads and primary keys.                                     *)
(***************************************************************************)
EXTENDS Buildings, TLAPS

-----------------------------------------------------------------------------
(* The inductive invariant.                                                *)

\* The history knows every unit of the table and the tag of every reading.
LinksKnown == \A b \in Buildings, u \in Units : UnitExists(b, u) => b \in linked[u]
TagsKnown ==
    \A r \in Readings :
      readings[r].unit \in Units => readings[r].tag \in linked[readings[r].unit] \union {None}

\* A delete that has counted met no active unit, and has marked every row that it
\* met and that is still there.
Deleting(s) ==
    /\ requests[s].at \in {"delete_units", "delete"} =>
         \A u \in Units : ~requests[s].seen[u].active
    /\ requests[s].at = "delete" =>
         \A u \in Units :
           LET pk == requests[s].seen[u].pk
           IN  pk # None /\ pk = units[requests[s].building][u].pk => pk \in requests[s].marked

\* What an export counts in the row of a unit.
InRow(s, u, r) ==
    \/ readings[r].tag = requests[s].building
    \/ readings[r].tag = None /\ readings[r].unit = u

\* The rows of an export that have been queried count what is theirs, and all of it
\* that was there when the units were listed.
Exporting(s) ==
    requests[s].at \in {"rows", "written"} =>
      /\ requests[s].todo \subseteq requests[s].listed
      /\ requests[s].at = "written" => requests[s].todo = {}
      /\ \A r \in requests[s].start :
           readings[r].stored /\ \E u \in Units : InRow(s, u, r) /\
             (readings[r].tag = None => u \in requests[s].listed)
      /\ \A pair \in requests[s].counted :
           readings[pair[2]].stored /\ InRow(s, pair[1], pair[2])
      /\ \A u \in requests[s].listed \ requests[s].todo : \A r \in requests[s].start :
           InRow(s, u, r) => <<u, r>> \in requests[s].counted

IInv ==
    /\ TypeOK
    /\ LinksKnown
    /\ TagsKnown
    /\ \A s \in Slots : Deleting(s)
    /\ \A s \in Slots : Exporting(s)

-----------------------------------------------------------------------------
(* Requests and tables.                                                    *)

\* What a request holds at each place.
LEMMA RequestType ==
    ASSUME TypeOK, NEW s \in Slots
    PROVE  /\ requests[s] \in Request
           /\ requests[s] = Idle => requests[s].at = "idle"
           /\ requests[s].at = "new_building" => requests[s].building \in Buildings
           /\ requests[s].at = "new_unit" =>
                requests[s].building \in Buildings /\ requests[s].home \in Pks
           /\ requests[s].at \in {"set_active", "remove_unit"} =>
                /\ requests[s].building \in Buildings /\ requests[s].unit \in Units
                /\ requests[s].pk \in Pks
           /\ requests[s].at = "set_active" => requests[s].active \in BOOLEAN
           /\ requests[s].at = "count" =>
                requests[s].building \in Buildings /\ requests[s].home \in Pks
           /\ requests[s].at \in {"delete_units", "delete"} =>
                /\ requests[s].building \in Buildings /\ requests[s].home \in Pks
                /\ requests[s].seen \in [Units -> Row \union {NoRow}]
           /\ requests[s].at = "delete" => requests[s].marked \in SUBSET Pks
<1>1. requests[s] \in Request
  BY DEF TypeOK
<1>q. QED
  BY <1>1 DEF Request, Idle

\* What an export holds.
Exports ==
    [at : {"rows", "written"}, building : Buildings, listed : SUBSET Units,
     todo : SUBSET Units, counted : SUBSET (Units \X Readings), start : SUBSET Readings]

LEMMA ExportType ==
    ASSUME TypeOK, NEW s \in Slots, requests[s].at \in {"rows", "written"}
    PROVE  /\ requests[s].building \in Buildings
           /\ requests[s].listed \in SUBSET Units
           /\ requests[s].todo \in SUBSET Units
           /\ requests[s].counted \in SUBSET (Units \X Readings)
           /\ requests[s].start \in SUBSET Readings
           /\ requests[s] \in Exports
<1>1. requests[s] \in Request
  BY DEF TypeOK
<1>2. requests[s] \in Exports
  BY <1>1 DEF Request, Idle, Exports
<1>q. QED
  BY <1>2 DEF Exports

\* A row of building_units, and one that is active or there.
LEMMA RowType ==
    ASSUME TypeOK, NEW b \in Buildings, NEW u \in Units
    PROVE  /\ units[b][u] \in Row \union {NoRow}
           /\ units[b][u].pk \in Pks \union {None}
           /\ units[b][u].active \in BOOLEAN
           /\ units[b][u].pk # None => units[b][u] \in Row
           /\ units[b][u].active => units[b][u].pk # None
<1>1. units[b][u] \in Row \union {NoRow}
  BY DEF TypeOK
<1>2. CASE units[b][u] = NoRow
  BY <1>2 DEF NoRow
<1>3. CASE units[b][u] \in Row
  BY <1>3, BuildingAssumption DEF Row
<1>q. QED
  BY <1>1, <1>2, <1>3

\* A reading, and one that is stored.
LEMMA ReadingType ==
    ASSUME TypeOK, NEW r \in Readings
    PROVE  /\ readings[r] \in Reading \union {NoReading}
           /\ readings[r].stored => readings[r] \in Reading
           /\ readings[r] = NoReading => readings[r].unit \notin Units /\ ~readings[r].stored
BY BuildingAssumption DEF TypeOK, Reading, NoReading

LEMMA FirstIn ==
    ASSUME NEW S \in SUBSET Buildings, S # {}
    PROVE  First(S) \in S
BY BuildingAssumption DEF First

\* The tag of a reading is a building of its unit, if it has any.
LEMMA TagKnown ==
    ASSUME TypeOK, LinksKnown, NEW u \in Units
    PROVE  Tag(u) \in linked[u] \union {None} /\ Tag(u) \in Buildings \union {None}
<1>1. Links(u) \in SUBSET Buildings /\ Links(u) \subseteq linked[u]
  BY DEF Links, LinksKnown
<1>q. QED
  BY <1>1, FirstIn DEF Tag

-----------------------------------------------------------------------------
(* What a step does.                                                       *)

ThreadStep(s) == HandleBuilding(s) \/ HandleUnit(s) \/ ExportUnits(s) \/ Fail(s)

\* A step that only moves a request on.
LEMMA GoMoves ==
    ASSUME TypeOK, NEW s \in Slots, NEW request \in Request, Go(s, request)
    PROVE  /\ requests' \in [Slots -> Request]
           /\ requests'[s] = request
           /\ \A t \in Slots \ {s} : requests'[t] = requests[t]
           /\ UNCHANGED <<buildings, units, readings, linked, commits>>
BY DEF Go, TypeOK

\* The commit of a request.
LEMMA CommitEnds ==
    ASSUME TypeOK, NEW s \in Slots, EndCommitted(s)
    PROVE  /\ requests' \in [Slots -> Request]
           /\ requests'[s] = Idle
           /\ \A t \in Slots \ {s} : requests'[t] = requests[t]
           /\ commits' \in 0..MaxCommits
BY BuildingAssumption DEF EndCommitted, TypeOK, Request

\* A thread touches its own request only.
LEMMA OneThread ==
    ASSUME TypeOK, NEW s \in Slots, ThreadStep(s), NEW t \in Slots \ {s}
    PROVE  requests'[t] = requests[t]
<1>1. CASE HandleBuilding(s)
  BY <1>1 DEF HandleBuilding, CreateBuilding, InsertBuilding, DeleteBuilding, CountActive,
              DeleteUnits, CommitDelete, Go, EndCommitted, TypeOK
<1>2. CASE HandleUnit(s)
  BY <1>2 DEF HandleUnit, CreateUnit, InsertUnit, UpdateUnit, CommitUpdate, RemoveUnit,
              CommitRemove, Go, EndCommitted, TypeOK
<1>3. CASE ExportUnits(s) \/ Fail(s)
  BY <1>3 DEF ExportUnits, ListUnits, ExportRow, WriteExport, Fail, Go, TypeOK
<1>q. QED
  BY <1>1, <1>2, <1>3 DEF ThreadStep

\* The steps of a thread that write a table, and the steps of the consumer.
LEMMA TablesMove ==
    ASSUME [Next]_vars
    PROVE  \/ UNCHANGED <<buildings, units, readings, linked, commits>>
           \/ \E s \in Slots :
                \/ InsertBuilding(s) \/ CommitDelete(s) \/ CommitUpdate(s) \/ CommitRemove(s)
                \/ \E u \in Units, active \in BOOLEAN : InsertUnit(s, u, active)
           \/ \E r \in Readings : CommitReading(r) \/ \E u \in Units : Ingest(r, u)
<1>1. CASE UNCHANGED vars
  BY <1>1 DEF vars
<1>2. ASSUME NEW s \in Slots, HandleBuilding(s)
      PROVE  \/ UNCHANGED <<buildings, units, readings, linked, commits>>
             \/ InsertBuilding(s) \/ CommitDelete(s)
  BY <1>2 DEF HandleBuilding, CreateBuilding, DeleteBuilding, CountActive, DeleteUnits, Go
<1>3. ASSUME NEW s \in Slots, HandleUnit(s)
      PROVE  \/ UNCHANGED <<buildings, units, readings, linked, commits>>
             \/ CommitUpdate(s) \/ CommitRemove(s)
             \/ \E u \in Units, active \in BOOLEAN : InsertUnit(s, u, active)
  BY <1>3 DEF HandleUnit, CreateUnit, UpdateUnit, RemoveUnit, Go
<1>4. ASSUME NEW s \in Slots, ExportUnits(s) \/ Fail(s)
      PROVE  UNCHANGED <<buildings, units, readings, linked, commits>>
  BY <1>4 DEF ExportUnits, ListUnits, ExportRow, WriteExport, Fail, Go
<1>q. QED
  BY <1>1, <1>2, <1>3, <1>4 DEF Next

\* How a row of building_units can change.
LEMMA RowMoves ==
    ASSUME IInv, [Next]_vars, NEW b \in Buildings, NEW u \in Units,
           units'[b][u] # units[b][u]
    PROVE  \E s \in Slots :
             \/ /\ CommitDelete(s) /\ requests[s].building = b
                /\ units[b][u].pk \in requests[s].marked
                /\ units'[b][u] = NoRow
             \/ /\ CommitRemove(s) /\ requests[s].pk = units[b][u].pk
                /\ units'[b][u] = NoRow
             \/ /\ CommitUpdate(s) /\ ~Marked(units[b][u].pk)
                /\ units[b][u].pk # None
                /\ units'[b][u].pk = units[b][u].pk /\ units'[b][u] \in Row
             \/ /\ requests[s].at = "new_unit" /\ requests[s].building = b
                /\ requests[s].home \in Pks
                /\ \E active \in BOOLEAN : InsertUnit(s, u, active)
                /\ units'[b][u] \in Row /\ units'[b][u].pk \in FreeUnitKeys
                /\ units[b][u].pk = None
                /\ linked'[u] = linked[u] \union {b}
                /\ buildings' = buildings
<1>1. PICK s \in Slots :
        \/ CommitDelete(s) \/ CommitUpdate(s) \/ CommitRemove(s)
        \/ \E v \in Units, active \in BOOLEAN : InsertUnit(s, v, active)
  BY TablesMove DEF InsertBuilding, CommitReading, Ingest
<1>2. units \in [Buildings -> [Units -> Row \union {NoRow}]] /\ linked \in [Units -> SUBSET Buildings]
  BY DEF IInv, TypeOK
<1>3. CASE CommitDelete(s)
  BY <1>2, <1>3, RequestType DEF CommitDelete, IInv
<1>4. CASE CommitRemove(s)
  BY <1>2, <1>4, RequestType DEF CommitRemove, IInv
<1>5. CASE CommitUpdate(s)
  <2>1. /\ requests[s].at = "set_active" /\ requests[s].building \in Buildings
        /\ requests[s].unit \in Units /\ requests[s].pk \in Pks /\ requests[s].active \in BOOLEAN
    BY <1>5, RequestType DEF CommitUpdate, IInv
  <2>2. requests[s].building = b /\ requests[s].unit = u
    BY <1>2, <1>5, <2>1 DEF CommitUpdate
  <2>3. units[b][u].pk = requests[s].pk /\ units[b][u].pk # None /\ units[b][u] \in Row
    BY <1>5, <2>1, <2>2, RowType, BuildingAssumption DEF CommitUpdate, IInv
  <2>4. units'[b][u] = [units[b][u] EXCEPT !.active = requests[s].active]
    BY <1>2, <1>5, <2>2 DEF CommitUpdate
  <2>5. units'[b][u].pk = units[b][u].pk /\ units'[b][u] \in Row
    BY <2>1, <2>3, <2>4 DEF Row
  <2>6. ~Marked(units[b][u].pk)
    BY <1>5, <2>3 DEF CommitUpdate
  <2>q. QED
    BY <1>5, <2>3, <2>5, <2>6
<1>6. ASSUME NEW v \in Units, NEW active \in BOOLEAN, InsertUnit(s, v, active)
      PROVE  /\ v = u /\ requests[s].at = "new_unit" /\ requests[s].building = b
             /\ requests[s].home \in Pks
             /\ units'[b][u] \in Row /\ units'[b][u].pk \in FreeUnitKeys
             /\ units[b][u].pk = None
             /\ linked'[u] = linked[u] \union {b}
             /\ buildings' = buildings
  <2>1. /\ requests[s].at = "new_unit" /\ requests[s].building \in Buildings
        /\ requests[s].home \in Pks
    BY <1>6, RequestType DEF InsertUnit, IInv
  <2>2. PICK pk \in FreeUnitKeys :
          units' = [units EXCEPT ![requests[s].building][v] = [pk |-> pk, active |-> active]]
    BY <1>6 DEF InsertUnit
  <2>3. requests[s].building = b /\ v = u
    BY <1>2, <2>1, <2>2
  <2>4. units'[b][u] = [pk |-> pk, active |-> active] /\ pk \in Pks
    BY <1>2, <2>2, <2>3 DEF FreeUnitKeys
  <2>q. QED
    BY <1>2, <1>6, <2>1, <2>2, <2>3, <2>4 DEF InsertUnit, UnitExists, Row
<1>q. QED
  BY <1>1, <1>3, <1>4, <1>5, <1>6

\* A stored reading stays as it is, and no building is forgotten.
LEMMA ReadingsKept ==
    ASSUME IInv, [Next]_vars
    PROVE  /\ \A r \in Readings : readings[r].stored => readings'[r] = readings[r]
           /\ \A r \in Readings : readings'[r] # readings[r] =>
                \/ /\ readings[r] # NoReading /\ readings'[r].unit = readings[r].unit
                   /\ readings'[r].tag = readings[r].tag
                \/ \E u \in Units : readings'[r] = [unit |-> u, tag |-> Tag(u), stored |-> FALSE]
           /\ readings' \in [Readings -> Reading \union {NoReading}]
           /\ \A u \in Units : linked[u] \subseteq linked'[u]
           /\ linked' \in [Units -> SUBSET Buildings]
           /\ buildings' \in [Buildings -> Pks \union {None}]
<1>0. TypeOK
  BY DEF IInv
<1>1. CASE UNCHANGED <<buildings, units, readings, linked, commits>>
  BY <1>0, <1>1 DEF TypeOK
<1>2. ASSUME NEW s \in Slots,
             InsertBuilding(s) \/ CommitDelete(s) \/ CommitUpdate(s) \/ CommitRemove(s)
      PROVE  /\ UNCHANGED <<readings, linked>>
             /\ buildings' \in [Buildings -> Pks \union {None}]
  BY <1>0, <1>2, RequestType DEF InsertBuilding, CommitDelete, CommitUpdate, CommitRemove,
                                 FreeBuildingKeys, TypeOK
<1>3. ASSUME NEW s \in Slots, NEW u \in Units, NEW active \in BOOLEAN, InsertUnit(s, u, active)
      PROVE  /\ UNCHANGED <<readings, buildings>>
             /\ \A v \in Units : linked[v] \subseteq linked'[v]
             /\ linked' \in [Units -> SUBSET Buildings]
  BY <1>0, <1>3, RequestType DEF InsertUnit, TypeOK
<1>4. ASSUME NEW r \in Readings, CommitReading(r)
      PROVE  /\ \A q \in Readings : readings[q].stored => readings'[q] = readings[q]
             /\ \A q \in Readings : readings'[q] # readings[q] =>
                   /\ readings[q] # NoReading /\ readings'[q].unit = readings[q].unit
                   /\ readings'[q].tag = readings[q].tag
             /\ readings' \in [Readings -> Reading \union {NoReading}]
             /\ UNCHANGED <<buildings, linked>>
  <2>1. /\ readings[r] \in Reading
        /\ readings' = [readings EXCEPT ![r] = [readings[r] EXCEPT !.stored = TRUE]]
    BY <1>0, <1>4, ReadingType DEF CommitReading
  <2>2. /\ [readings[r] EXCEPT !.stored = TRUE] \in Reading
        /\ [readings[r] EXCEPT !.stored = TRUE].unit = readings[r].unit
        /\ [readings[r] EXCEPT !.stored = TRUE].tag = readings[r].tag
    BY <2>1 DEF Reading
  <2>q. QED
    BY <1>0, <1>4, <2>1, <2>2 DEF CommitReading, TypeOK
<1>5. ASSUME NEW r \in Readings, NEW u \in Units, Ingest(r, u)
      PROVE  /\ \A q \in Readings : readings[q].stored => readings'[q] = readings[q]
             /\ \A q \in Readings : readings'[q] # readings[q] =>
                   readings'[q] = [unit |-> u, tag |-> Tag(u), stored |-> FALSE]
             /\ readings' \in [Readings -> Reading \union {NoReading}]
             /\ UNCHANGED <<buildings, linked>>
  <2>1. [unit |-> u, tag |-> Tag(u), stored |-> FALSE] \in Reading
    BY TagKnown DEF IInv, Reading
  <2>2. ~readings[r].stored
    BY <1>5 DEF Ingest, NoReading
  <2>q. QED
    BY <1>0, <1>5, <2>1, <2>2 DEF Ingest, TypeOK
<1>q. QED
  BY <1>0, <1>1, <1>2, <1>3, <1>4, <1>5, TablesMove DEF TypeOK

-----------------------------------------------------------------------------
(* Type correctness.                                                       *)

LEMMA HandleBuildingType ==
    ASSUME TypeOK, NEW s \in Slots, HandleBuilding(s)
    PROVE  requests' \in [Slots -> Request] /\ commits' \in 0..MaxCommits
<1>1. ASSUME NEW b \in Buildings, CreateBuilding(s, b)
      PROVE  requests' \in [Slots -> Request] /\ commits' = commits
  BY <1>1, GoMoves DEF CreateBuilding, Request
<1>2. ASSUME NEW b \in Buildings, DeleteBuilding(s, b)
      PROVE  requests' \in [Slots -> Request] /\ commits' = commits
  <2>1. [at |-> "count", building |-> b, home |-> buildings[b]] \in Request
    BY <1>2 DEF DeleteBuilding, BuildingExists, Request, TypeOK
  <2>q. QED
    BY <1>2, <2>1, GoMoves DEF DeleteBuilding
<1>3. CASE InsertBuilding(s) \/ CommitDelete(s)
  BY <1>3, CommitEnds DEF InsertBuilding, CommitDelete
<1>4. CASE CountActive(s)
  <2>1. /\ requests[s].building \in Buildings /\ requests[s].home \in Pks
        /\ units[requests[s].building] \in [Units -> Row \union {NoRow}]
    BY <1>4, RequestType DEF CountActive, TypeOK
  <2>q. QED
    BY <1>4, <2>1, GoMoves DEF CountActive, Request, TypeOK
<1>5. CASE DeleteUnits(s)
  <2> DEFINE b == requests[s].building
             marked == {units[b][u].pk : u \in {u \in Units : UnitExists(b, u)}}
  <2>1. /\ b \in Buildings /\ requests[s].home \in Pks
        /\ requests[s].seen \in [Units -> Row \union {NoRow}]
    BY <1>5, RequestType DEF DeleteUnits
  <2>2. marked \in SUBSET Pks
    BY <2>1, RowType DEF UnitExists
  <2>3. [at |-> "delete", building |-> b, home |-> requests[s].home,
         seen |-> requests[s].seen, marked |-> marked] \in Request
    BY <2>1, <2>2 DEF Request
  <2>q. QED
    BY <1>5, <2>3, GoMoves DEF DeleteUnits, TypeOK
<1>q. QED
  BY <1>1, <1>2, <1>3, <1>4, <1>5 DEF HandleBuilding, TypeOK

LEMMA HandleUnitType ==
    ASSUME TypeOK, NEW s \in Slots, HandleUnit(s)
    PROVE  requests' \in [Slots -> Request] /\ commits' \in 0..MaxCommits
<1>1. ASSUME NEW b \in Buildings, CreateUnit(s, b)
      PROVE  requests' \in [Slots -> Request] /\ commits' = commits
  <2>1. [at |-> "new_unit", building |-> b, home |-> buildings[b]] \in Request
    BY <1>1 DEF CreateUnit, BuildingExists, Request, TypeOK
  <2>q. QED
    BY <1>1, <2>1, GoMoves DEF CreateUnit
<1>2. ASSUME NEW b \in Buildings, NEW u \in Units, UpdateUnit(s, b, u) \/ RemoveUnit(s, b, u)
      PROVE  requests' \in [Slots -> Request] /\ commits' = commits
  <2>1. units[b][u].pk \in Pks /\ units[b][u].active \in BOOLEAN
    BY <1>2, RowType DEF UpdateUnit, RemoveUnit, UnitExists
  <2>2. /\ [at |-> "set_active", building |-> b, unit |-> u,
            pk |-> units[b][u].pk, active |-> ~units[b][u].active] \in Request
        /\ [at |-> "remove_unit", building |-> b, unit |-> u, pk |-> units[b][u].pk] \in Request
    BY <2>1 DEF Request
  <2>q. QED
    BY <1>2, <2>2, GoMoves DEF UpdateUnit, RemoveUnit
<1>3. ASSUME NEW u \in Units, NEW active \in BOOLEAN, InsertUnit(s, u, active)
      PROVE  requests' \in [Slots -> Request] /\ commits' \in 0..MaxCommits
  BY <1>3, CommitEnds DEF InsertUnit
<1>4. CASE CommitUpdate(s) \/ CommitRemove(s)
  BY <1>4, CommitEnds DEF CommitUpdate, CommitRemove
<1>q. QED
  BY <1>1, <1>2, <1>3, <1>4 DEF HandleUnit, TypeOK

\* An export with other rows to do and other counts, and one that is written.
LEMMA ExportWith ==
    ASSUME NEW q \in Exports, NEW left \in SUBSET Units, NEW more \in SUBSET (Units \X Readings)
    PROVE  /\ LET n == [q EXCEPT !.todo = left, !.counted = more]
              IN  /\ n \in Exports /\ n.at = q.at /\ n.building = q.building
                  /\ n.listed = q.listed /\ n.todo = left /\ n.counted = more
                  /\ n.start = q.start
           /\ LET n == [q EXCEPT !.at = "written"]
              IN  /\ n \in Exports /\ n.at = "written" /\ n.building = q.building
                  /\ n.listed = q.listed /\ n.todo = q.todo /\ n.counted = q.counted
                  /\ n.start = q.start
BY DEF Exports

LEMMA ExportIsRequest == Exports \subseteq Request
BY DEF Exports, Request

LEMMA ExportStepType ==
    ASSUME TypeOK, NEW s \in Slots, ExportUnits(s) \/ Fail(s)
    PROVE  requests' \in [Slots -> Request] /\ commits' = commits
<1>1. ASSUME NEW b \in Buildings, ListUnits(s, b)
      PROVE  requests' \in [Slots -> Request] /\ commits' = commits
  <2>1. [at |-> "rows", building |-> b, listed |-> BuildingUnitIds(b), todo |-> BuildingUnitIds(b),
         counted |-> {}, start |-> Consumption(b)] \in Request
    BY DEF Request, BuildingUnitIds, Consumption, ReadingScope, Stored
  <2>q. QED
    BY <1>1, <2>1, GoMoves DEF ListUnits
<1>2. ASSUME NEW u \in Units, ExportRow(s, u)
      PROVE  requests' \in [Slots -> Request] /\ commits' = commits
  <2> DEFINE left == requests[s].todo \ {u}
             more == requests[s].counted \union ({u} \X RowScope(requests[s].building, u))
  <2>1. requests[s].at = "rows"
    BY <1>2 DEF ExportRow
  <2>2. RowScope(requests[s].building, u) \subseteq Readings
    BY DEF RowScope, ReadingScope, Stored
  <2>3. requests[s] \in Exports
    BY <2>1, ExportType
  <2>4. left \in SUBSET Units /\ more \in SUBSET (Units \X Readings)
    BY <2>1, <2>2, ExportType
  <2>5. [requests[s] EXCEPT !.todo = left, !.counted = more] \in Request
    BY <2>3, <2>4, ExportWith, ExportIsRequest
  <2>q. QED
    BY <1>2, <2>5, GoMoves DEF ExportRow
<1>3. CASE WriteExport(s)
  <2>1. requests[s].at = "rows"
    BY <1>3 DEF WriteExport
  <2>2. requests[s] \in Exports
    BY <2>1, ExportType
  <2>3. [requests[s] EXCEPT !.at = "written"] \in Request
    BY <2>2, ExportWith, ExportIsRequest
  <2>q. QED
    BY <1>3, <2>3, GoMoves DEF WriteExport
<1>4. CASE Fail(s)
  BY <1>4, GoMoves DEF Fail, Request
<1>q. QED
  BY <1>1, <1>2, <1>3, <1>4 DEF ExportUnits

LEMMA TypePreserved == IInv /\ [Next]_vars => TypeOK'
<1> SUFFICES ASSUME IInv, [Next]_vars PROVE TypeOK'
  OBVIOUS
<1>0. TypeOK
  BY DEF IInv
<1>1. requests' \in [Slots -> Request] /\ commits' \in 0..MaxCommits
  <2>1. CASE UNCHANGED vars
    BY <1>0, <2>1 DEF TypeOK, vars
  <2>2. ASSUME NEW s \in Slots, ThreadStep(s)
        PROVE  requests' \in [Slots -> Request] /\ commits' \in 0..MaxCommits
    <3>1. commits \in 0..MaxCommits
      BY <1>0 DEF TypeOK
    <3>q. QED
      BY <1>0, <2>2, <3>1, HandleBuildingType, HandleUnitType, ExportStepType DEF ThreadStep
  <2>3. ASSUME NEW r \in Readings, CommitReading(r) \/ \E u \in Units : Ingest(r, u)
        PROVE  requests' \in [Slots -> Request] /\ commits' \in 0..MaxCommits
    BY <1>0, <2>3 DEF CommitReading, Ingest, TypeOK
  <2>q. QED
    BY <2>1, <2>2, <2>3 DEF Next, ThreadStep
<1>2. units' \in [Buildings -> [Units -> Row \union {NoRow}]]
  <2> DEFINE Table == [Units -> Row \union {NoRow}]
  <2>0. units \in [Buildings -> Table]
    BY <1>0 DEF TypeOK
  <2>1. ASSUME NEW s \in Slots, CommitDelete(s) PROVE units' \in [Buildings -> Table]
    <3> DEFINE kept == [u \in Units |-> IF units[requests[s].building][u].pk \in requests[s].marked
                                        THEN NoRow ELSE units[requests[s].building][u]]
    <3>1. requests[s].building \in Buildings
      BY <1>0, <2>1, RequestType DEF CommitDelete
    <3>2. kept \in Table
      BY <2>0, <3>1
    <3>3. units' = [units EXCEPT ![requests[s].building] = kept]
      BY <2>1 DEF CommitDelete
    <3> HIDE DEF kept
    <3>q. QED
      BY <2>0, <3>1, <3>2, <3>3
  <2>2. ASSUME NEW b \in Buildings, NEW u \in Units, NEW row \in Row \union {NoRow},
               units' = [units EXCEPT ![b][u] = row]
        PROVE  units' \in [Buildings -> Table]
    BY <2>0, <2>2
  <2>3. ASSUME NEW s \in Slots, CommitUpdate(s) PROVE units' \in [Buildings -> Table]
    <3> DEFINE q == requests[s]
               row == [units[q.building][q.unit] EXCEPT !.active = q.active]
    <3>1. /\ q.building \in Buildings /\ q.unit \in Units /\ q.pk \in Pks
          /\ q.active \in BOOLEAN
      BY <1>0, <2>3, RequestType DEF CommitUpdate
    <3>2. units[q.building][q.unit] \in Row
      BY <1>0, <2>3, <3>1, RowType, BuildingAssumption DEF CommitUpdate
    <3>3. row \in Row
      BY <3>1, <3>2 DEF Row
    <3>4. units' = [units EXCEPT ![q.building][q.unit] = row]
      BY <2>3 DEF CommitUpdate
    <3>q. QED
      BY <2>2, <3>1, <3>3, <3>4
  <2>4. ASSUME NEW s \in Slots, CommitRemove(s) PROVE units' \in [Buildings -> Table]
    <3> DEFINE q == requests[s]
               row == IF units[q.building][q.unit].pk = q.pk THEN NoRow
                      ELSE units[q.building][q.unit]
    <3>1. q.building \in Buildings /\ q.unit \in Units
      BY <1>0, <2>4, RequestType DEF CommitRemove
    <3>2. row \in Row \union {NoRow}
      BY <2>0, <3>1
    <3>3. units' = [units EXCEPT ![q.building][q.unit] = row]
      BY <2>4 DEF CommitRemove
    <3>q. QED
      BY <2>2, <3>1, <3>2, <3>3
  <2>5. ASSUME NEW s \in Slots, NEW u \in Units, NEW active \in BOOLEAN, InsertUnit(s, u, active)
        PROVE  units' \in [Buildings -> Table]
    <3>1. requests[s].building \in Buildings
      BY <1>0, <2>5, RequestType DEF InsertUnit
    <3>2. PICK pk \in FreeUnitKeys :
            units' = [units EXCEPT ![requests[s].building][u] = [pk |-> pk, active |-> active]]
      BY <2>5 DEF InsertUnit
    <3>3. [pk |-> pk, active |-> active] \in Row
      BY DEF FreeUnitKeys, Row
    <3>q. QED
      BY <2>2, <3>1, <3>2, <3>3
  <2>6. CASE UNCHANGED units
    BY <2>0, <2>6
  <2>q. QED
    BY <2>1, <2>3, <2>4, <2>5, <2>6, TablesMove DEF InsertBuilding, CommitReading, Ingest
<1>q. QED
  BY <1>1, <1>2, ReadingsKept DEF TypeOK

-----------------------------------------------------------------------------
(* The rest of the invariant.                                              *)

LEMMA LinksPreserved == IInv /\ [Next]_vars => LinksKnown'
<1> SUFFICES ASSUME IInv, [Next]_vars, NEW b \in Buildings, NEW u \in Units, UnitExists(b, u)'
             PROVE  b \in linked'[u]
  BY DEF LinksKnown
<1>1. CASE units'[b][u] = units[b][u]
  BY <1>1, ReadingsKept DEF UnitExists, IInv, LinksKnown
<1>2. CASE units'[b][u] # units[b][u]
  <2>1. units[b][u].pk # None => b \in linked[u]
    BY DEF IInv, LinksKnown, UnitExists
  <2>2. units'[b][u] # NoRow
    BY DEF UnitExists, NoRow
  <2>q. QED
    BY <1>2, <2>1, <2>2, RowMoves, ReadingsKept
<1>q. QED
  BY <1>1, <1>2

LEMMA TagsPreserved == IInv /\ [Next]_vars => TagsKnown'
<1> SUFFICES ASSUME IInv, [Next]_vars, NEW r \in Readings, readings'[r].unit \in Units
             PROVE  readings'[r].tag \in linked'[readings'[r].unit] \union {None}
  BY DEF TagsKnown
<1>1. CASE readings'[r].unit = readings[r].unit /\ readings'[r].tag = readings[r].tag
  BY <1>1, ReadingsKept DEF IInv, TagsKnown
<1>2. ASSUME NEW u \in Units, readings'[r] = [unit |-> u, tag |-> Tag(u), stored |-> FALSE]
      PROVE  readings'[r].tag \in linked'[readings'[r].unit] \union {None}
  <2>1. readings'[r].unit = u /\ readings'[r].tag = Tag(u)
    BY <1>2
  <2>2. Tag(u) \in linked[u] \union {None}
    BY TagKnown DEF IInv
  <2>q. QED
    BY <2>1, <2>2, ReadingsKept
<1>q. QED
  BY <1>1, <1>2, ReadingsKept

\* How the request of a thread can change.
LEMMA RequestMoves ==
    ASSUME IInv, [Next]_vars, NEW t \in Slots, requests'[t] # requests[t]
    PROVE  \/ requests'[t].at \notin {"delete_units", "delete", "rows", "written"}
           \/ CountActive(t) \/ DeleteUnits(t)
           \/ \E b \in Buildings : ListUnits(t, b)
           \/ \E u \in Units : ExportRow(t, u)
           \/ WriteExport(t)
<1>0. TypeOK
  BY DEF IInv
<1>1. PICK s \in Slots : ThreadStep(s)
  BY DEF Next, ThreadStep, vars, CommitReading, Ingest
<1>2. s = t
  BY <1>0, <1>1, OneThread
<1>3. ASSUME NEW b \in Buildings, CreateBuilding(t, b) \/ DeleteBuilding(t, b) \/ CreateUnit(t, b)
      PROVE  requests'[t].at \notin {"delete_units", "delete", "rows", "written"}
  BY <1>0, <1>3 DEF CreateBuilding, DeleteBuilding, CreateUnit, Go, TypeOK
<1>4. ASSUME NEW b \in Buildings, NEW u \in Units, UpdateUnit(t, b, u) \/ RemoveUnit(t, b, u)
      PROVE  requests'[t].at \notin {"delete_units", "delete", "rows", "written"}
  BY <1>0, <1>4 DEF UpdateUnit, RemoveUnit, Go, TypeOK
<1>5. ASSUME EndCommitted(t) \/ Fail(t)
      PROVE  requests'[t].at \notin {"delete_units", "delete", "rows", "written"}
  BY <1>0, <1>5 DEF EndCommitted, Fail, Go, Idle, TypeOK
<1>6. ASSUME InsertBuilding(t) \/ CommitDelete(t) \/ CommitUpdate(t) \/ CommitRemove(t)
               \/ \E u \in Units, active \in BOOLEAN : InsertUnit(t, u, active)
      PROVE  EndCommitted(t)
  BY <1>6 DEF InsertBuilding, CommitDelete, CommitUpdate, CommitRemove, InsertUnit
<1>q. QED
  BY <1>1, <1>2, <1>3, <1>4, <1>5, <1>6 DEF ThreadStep, HandleBuilding, HandleUnit, ExportUnits

LEMMA DeletingPreserved ==
    ASSUME IInv, [Next]_vars, NEW t \in Slots
    PROVE  Deleting(t)'
<1>0. TypeOK /\ Deleting(t)
  BY DEF IInv
<1>1. CASE requests'[t] = requests[t]
  <2>1. ASSUME requests[t].at = "delete", NEW u \in Units,
               requests[t].seen[u].pk # None,
               requests[t].seen[u].pk = units'[requests[t].building][u].pk
        PROVE  requests[t].seen[u].pk \in requests[t].marked
    <3> DEFINE b == requests[t].building
               p == requests[t].seen[u].pk
    <3>1. b \in Buildings /\ "seen" \in DOMAIN requests[t]
      BY <1>0, <2>1, RequestType DEF Request, Idle
    <3>2. CASE units'[b][u] = units[b][u] \/ units'[b][u].pk = units[b][u].pk
      BY <1>0, <2>1, <3>2 DEF Deleting
    <3>3. CASE units'[b][u] = NoRow
      BY <2>1, <3>3 DEF NoRow
    <3>4. ASSUME p \in FreeUnitKeys PROVE FALSE
      BY <3>1, <3>4 DEF FreeUnitKeys
    <3>q. QED
      BY <2>1, <3>1, <3>2, <3>3, <3>4, RowMoves
  <2>q. QED
    BY <1>0, <1>1, <2>1 DEF Deleting
<1>2. CASE requests'[t].at \notin {"delete_units", "delete"}
  BY <1>2 DEF Deleting
<1>3. CASE CountActive(t)
  <2>1. requests[t].building \in Buildings
    BY <1>0, <1>3, RequestType DEF CountActive
  <2>2. requests'[t].at = "delete_units" /\ requests'[t].seen = units[requests[t].building]
    BY <1>0, <1>3 DEF CountActive, Go, TypeOK
  <2>3. \A u \in Units : ~units[requests[t].building][u].active
    BY <1>0, <1>3, <2>1, RowType DEF CountActive, BuildingUnitIds, IsActive, UnitExists
  <2>q. QED
    BY <2>2, <2>3 DEF Deleting
<1>4. CASE DeleteUnits(t)
  <2> DEFINE b == requests[t].building
  <2>1. b \in Buildings /\ requests[t].at = "delete_units"
    BY <1>0, <1>4, RequestType DEF DeleteUnits
  <2>2. /\ requests'[t].at = "delete" /\ requests'[t].building = b
        /\ requests'[t].seen = requests[t].seen
        /\ requests'[t].marked = {units[b][u].pk : u \in {u \in Units : UnitExists(b, u)}}
        /\ units' = units
    BY <1>0, <1>4 DEF DeleteUnits, Go, TypeOK
  <2>3. ASSUME NEW u \in Units, units[b][u].pk # None
        PROVE  units[b][u].pk \in requests'[t].marked
    BY <2>2, <2>3 DEF UnitExists
  <2>q. QED
    BY <1>0, <2>1, <2>2, <2>3 DEF Deleting
<1>5. ASSUME (\E b \in Buildings : ListUnits(t, b)) \/ (\E u \in Units : ExportRow(t, u)) \/ WriteExport(t)
      PROVE  requests'[t].at \in {"rows", "written"}
  <2>1. ASSUME NEW b \in Buildings, ListUnits(t, b) PROVE requests'[t].at = "rows"
    BY <1>0, <2>1 DEF ListUnits, Go, TypeOK
  <2>2. ASSUME requests[t].at = "rows" PROVE requests[t] \in Exports
    BY <1>0, <2>2, ExportType
  <2>3. ASSUME NEW u \in Units, ExportRow(t, u) PROVE requests'[t].at = "rows"
    BY <1>0, <2>2, <2>3 DEF ExportRow, Go, TypeOK, Exports
  <2>4. CASE WriteExport(t)
    BY <1>0, <2>2, <2>4 DEF WriteExport, Go, TypeOK, Exports
  <2>q. QED
    BY <1>5, <2>1, <2>3, <2>4
<1>q. QED
  BY <1>1, <1>2, <1>3, <1>4, <1>5, RequestMoves

\* What an export has counted, and may still count, is not changed by what comes in.
LEMMA ExportKept ==
    ASSUME IInv, [Next]_vars, NEW t \in Slots, requests'[t] = requests[t]
    PROVE  Exporting(t)'
<1>1. SUFFICES ASSUME requests[t].at \in {"rows", "written"} PROVE Exporting(t)'
  BY DEF Exporting
<1>2. /\ requests[t].counted \in SUBSET (Units \X Readings)
      /\ requests[t].start \in SUBSET Readings
  BY <1>1, ExportType DEF IInv
<1>3. \A r \in Readings : readings[r].stored => readings'[r] = readings[r]
  BY ReadingsKept
<1>4. Exporting(t)
  BY DEF IInv
<1>5. \A r \in requests[t].start : readings'[r] = readings[r]
  BY <1>1, <1>2, <1>3, <1>4 DEF Exporting
<1>6. \A pair \in requests[t].counted : readings'[pair[2]] = readings[pair[2]]
  BY <1>1, <1>2, <1>3, <1>4 DEF Exporting
<1>q. QED
  BY <1>1, <1>2, <1>4, <1>5, <1>6 DEF Exporting, InRow

LEMMA ExportingPreserved ==
    ASSUME IInv, [Next]_vars, NEW t \in Slots
    PROVE  Exporting(t)'
<1>0. TypeOK /\ Exporting(t)
  BY DEF IInv
<1>1. CASE requests'[t] = requests[t]
  BY <1>1, ExportKept
<1>2. CASE requests'[t].at \notin {"rows", "written"}
  BY <1>2 DEF Exporting
<1>3. ASSUME NEW b \in Buildings, ListUnits(t, b) PROVE Exporting(t)'
  <2>1. /\ requests'[t] = [at |-> "rows", building |-> b, listed |-> BuildingUnitIds(b),
                           todo |-> BuildingUnitIds(b), counted |-> {}, start |-> Consumption(b)]
        /\ readings' = readings
    BY <1>0, <1>3 DEF ListUnits, Go, TypeOK
  <2>2. ASSUME NEW r \in Consumption(b)
        PROVE  /\ r \in Readings /\ readings[r].stored /\ readings[r].unit \in Units
               /\ \/ readings[r].tag = b
                  \/ readings[r].tag = None /\ readings[r].unit \in BuildingUnitIds(b)
    BY <1>0, ReadingType DEF Consumption, ReadingScope, Stored, Reading
  <2>3. /\ requests'[t].at = "rows" /\ requests'[t].building = b
        /\ requests'[t].listed = BuildingUnitIds(b) /\ requests'[t].todo = BuildingUnitIds(b)
        /\ requests'[t].counted = {} /\ requests'[t].start = Consumption(b)
    BY <2>1
  <2>4. ASSUME NEW r \in Consumption(b)
        PROVE  /\ InRow(t, readings[r].unit, r)'
               /\ readings[r].tag = None => readings[r].unit \in BuildingUnitIds(b)
    BY <2>1, <2>2, <2>3, BuildingAssumption DEF InRow
  <2>5. \A r \in Consumption(b) : readings'[r].stored /\ \E u \in Units : InRow(t, u, r)' /\
          (readings'[r].tag = None => u \in BuildingUnitIds(b))
    BY <2>1, <2>2, <2>4
  <2>q. QED
    BY <2>3, <2>5 DEF Exporting
<1>4. ASSUME NEW u \in Units, ExportRow(t, u) PROVE Exporting(t)'
  <2> DEFINE q == requests[t]
             left == q.todo \ {u}
             more == q.counted \union ({u} \X RowScope(q.building, u))
  <2>1. q.at = "rows" /\ u \in q.todo /\ readings' = readings
    BY <1>4 DEF ExportRow, Go
  <2>2. q \in Exports /\ q.start \in SUBSET Readings /\ left \in SUBSET Units
        /\ q.counted \in SUBSET (Units \X Readings)
    BY <1>0, <2>1, ExportType
  <2>3. more \in SUBSET (Units \X Readings)
    BY <2>2 DEF RowScope, ReadingScope, Stored
  <2>4. requests'[t] = [q EXCEPT !.todo = left, !.counted = more]
    BY <1>0, <1>4 DEF ExportRow, Go, TypeOK
  <2>5. /\ requests'[t].at = "rows" /\ requests'[t].building = q.building
        /\ requests'[t].listed = q.listed /\ requests'[t].todo = left
        /\ requests'[t].counted = more /\ requests'[t].start = q.start
    <3> DEFINE n == [q EXCEPT !.todo = left, !.counted = more]
    <3>1. /\ n.at = q.at /\ n.building = q.building /\ n.listed = q.listed
          /\ n.todo = left /\ n.counted = more /\ n.start = q.start
      <4>1. q \in Exports /\ left \in SUBSET Units /\ more \in SUBSET (Units \X Readings)
        BY <2>2, <2>3
      <4> HIDE DEF left, more, q
      <4>q. QED
        BY <4>1 DEF Exports
    <3>2. requests'[t] = n
      BY <2>4
    <3> HIDE DEF n
    <3>q. QED
      BY <2>1, <3>1, <3>2
  <2>6. \A r \in Readings : r \in RowScope(q.building, u) <=> readings[r].stored /\ InRow(t, u, r)
    BY DEF RowScope, ReadingScope, Stored, InRow
  <2>7. ASSUME NEW pair \in more
        PROVE  readings[pair[2]].stored /\ InRow(t, pair[1], pair[2])
    <3>1. CASE pair \in q.counted
      BY <1>0, <2>1, <3>1 DEF Exporting
    <3>2. CASE pair \in {u} \X RowScope(q.building, u)
      BY <2>6, <3>2 DEF RowScope, ReadingScope, Stored
    <3>q. QED
      BY <3>1, <3>2
  <2>8. ASSUME NEW v \in q.listed \ left, NEW r \in q.start, InRow(t, v, r)
        PROVE  <<v, r>> \in more
    <3>1. CASE v = u
      BY <1>0, <2>1, <2>2, <2>6, <2>8, <3>1 DEF Exporting
    <3>2. CASE v # u
      BY <1>0, <2>1, <2>8, <3>2 DEF Exporting
    <3>q. QED
      BY <3>1, <3>2
  <2>9. \A v, r : InRow(t, v, r)' <=> InRow(t, v, r)
    BY <2>1, <2>5 DEF InRow
  <2> HIDE DEF left, more
  <2>10. left \subseteq q.listed
    BY <1>0, <2>1 DEF Exporting, left
  <2>q. QED
    BY <1>0, <2>1, <2>5, <2>7, <2>8, <2>9, <2>10 DEF Exporting
<1>5. CASE WriteExport(t)
  <2> DEFINE q == requests[t]
  <2>1. q.at = "rows" /\ q.todo = {} /\ readings' = readings
    BY <1>5 DEF WriteExport, Go
  <2>2. q \in Exports
    BY <1>0, <2>1, ExportType
  <2>3. requests'[t] = [q EXCEPT !.at = "written"]
    BY <1>0, <1>5 DEF WriteExport, Go, TypeOK
  <2>4. /\ requests'[t].at = "written" /\ requests'[t].building = q.building
        /\ requests'[t].listed = q.listed /\ requests'[t].todo = q.todo
        /\ requests'[t].counted = q.counted /\ requests'[t].start = q.start
    <3> DEFINE n == [q EXCEPT !.at = "written"]
    <3>1. /\ n.at = "written" /\ n.building = q.building /\ n.listed = q.listed
          /\ n.todo = q.todo /\ n.counted = q.counted /\ n.start = q.start
      <4> HIDE DEF q
      <4>1. {} \in SUBSET Units /\ {} \in SUBSET (Units \X Readings)
        OBVIOUS
      <4>q. QED
        BY <2>2, <4>1, ExportWith
    <3>2. requests'[t] = n
      BY <2>3
    <3> HIDE DEF n
    <3>q. QED
      BY <3>1, <3>2
  <2>q. QED
    BY <1>0, <2>1, <2>4 DEF Exporting, InRow
<1>6. CASE CountActive(t) \/ DeleteUnits(t)
  BY <1>0, <1>6 DEF CountActive, DeleteUnits, Go, TypeOK, Exporting
<1>q. QED
  BY <1>1, <1>2, <1>3, <1>4, <1>5, <1>6, RequestMoves

\* The invariant holds in every reachable state.
THEOREM BuildingsInductive == Spec => []IInv
<1>1. Init => IInv
  <2> SUFFICES ASSUME Init PROVE IInv
    OBVIOUS
  <2>1. TypeOK
    BY BuildingAssumption DEF Init, TypeOK, Request
  <2>2. LinksKnown /\ TagsKnown
    BY BuildingAssumption DEF Init, LinksKnown, TagsKnown, UnitExists, NoRow, NoReading
  <2>3. \A s \in Slots : Deleting(s) /\ Exporting(s)
    BY DEF Init, Idle, Deleting, Exporting
  <2>q. QED
    BY <2>1, <2>2, <2>3 DEF IInv
<1>2. IInv /\ [Next]_vars => IInv'
  BY TypePreserved, LinksPreserved, TagsPreserved, DeletingPreserved, ExportingPreserved DEF IInv
<1>q. QED
  BY <1>1, <1>2, PTL DEF Spec

-----------------------------------------------------------------------------
(* The properties.                                                         *)

\* The tables and requests keep their types.
THEOREM BuildingsTypeCorrect == Spec => []TypeOK
<1>1. IInv => TypeOK
  BY DEF IInv
<1>q. QED
  BY <1>1, BuildingsInductive, PTL

\* The summary and the consumption of a building agree unless its units moved.
THEOREM FiguresAgreeUnlessMovedHolds == Spec => []FiguresAgreeUnlessMoved
<1>1. IInv => FiguresAgreeUnlessMoved
  <2> SUFFICES ASSUME IInv, NEW b \in Buildings,
                      \A u \in Units : b \in linked[u] => linked[u] = {b} /\ IsActive(b, u),
                      NEW r \in Stored
               PROVE  r \in Summary(b) <=> r \in Consumption(b)
    BY DEF FiguresAgreeUnlessMoved, Summary, Consumption, ReadingScope
  <2>1. readings[r] \in Reading
    BY ReadingType DEF Stored, IInv
  <2>2. readings[r].unit \in Units /\ readings[r].tag \in Buildings \union {None}
    BY <2>1 DEF Reading
  <2>3. readings[r].tag \in linked[readings[r].unit] \union {None}
    BY <2>2 DEF IInv, TagsKnown, Stored
  <2>4. ASSUME readings[r].unit \in BuildingUnitIds(b) PROVE readings[r].tag \in {b, None}
    BY <2>2, <2>3, <2>4 DEF BuildingUnitIds, IsActive, IInv, LinksKnown
  <2>5. ASSUME readings[r].tag = b PROVE readings[r].unit \in BuildingUnitIds(b)
    BY <2>2, <2>3, <2>5, BuildingAssumption DEF BuildingUnitIds
  <2>q. QED
    BY <2>4, <2>5 DEF Summary, Consumption, ReadingScope
<1>q. QED
  BY <1>1, BuildingsInductive, PTL

\* An export has everything of its building and repeats only what is tagged.
THEOREM ExportRepeatsOnlyTaggedHolds == Spec => []ExportRepeatsOnlyTagged
<1>1. IInv => ExportRepeatsOnlyTagged
  <2> SUFFICES ASSUME IInv, NEW s \in Slots, requests[s].at = "written"
               PROVE  /\ requests[s].listed # {} =>
                           \A r \in requests[s].start : \E u \in requests[s].listed :
                             <<u, r>> \in requests[s].counted
                      /\ \A pair \in requests[s].counted :
                           readings[pair[2]].tag \in {requests[s].building, None}
                      /\ \A p, q \in requests[s].counted :
                           p[2] = q[2] /\ p # q => readings[p[2]].tag = requests[s].building
    BY DEF ExportRepeatsOnlyTagged
  <2>1. /\ requests[s].todo = {}
        /\ \A r \in requests[s].start : \E u \in Units : InRow(s, u, r) /\
             (readings[r].tag = None => u \in requests[s].listed)
        /\ \A pair \in requests[s].counted : InRow(s, pair[1], pair[2])
        /\ \A u \in requests[s].listed : \A r \in requests[s].start :
             InRow(s, u, r) => <<u, r>> \in requests[s].counted
    BY DEF IInv, Exporting
  <2>2. requests[s].counted \in SUBSET (Units \X Readings)
    BY ExportType DEF IInv
  <2>3. ASSUME NEW r \in requests[s].start, NEW v \in requests[s].listed
        PROVE  \E u \in requests[s].listed : <<u, r>> \in requests[s].counted
    <3>1. CASE readings[r].tag = requests[s].building
      BY <2>1, <2>3, <3>1 DEF InRow
    <3>2. CASE readings[r].tag # requests[s].building
      BY <2>1, <2>3, <3>2 DEF InRow
    <3>q. QED
      BY <3>1, <3>2
  <2>4. \A p, q \in requests[s].counted :
          p[2] = q[2] /\ p # q => readings[p[2]].tag = requests[s].building
    BY <2>1, <2>2 DEF InRow
  <2>5. \A pair \in requests[s].counted : readings[pair[2]].tag \in {requests[s].building, None}
    BY <2>1 DEF InRow
  <2>q. QED
    BY <2>3, <2>4, <2>5
<1>q. QED
  BY <1>1, BuildingsInductive, PTL

\* A building goes with its units, unless a check was overtaken.
THEOREM BuildingGoesWithUnitsUnlessRacedHolds == Spec => BuildingGoesWithUnitsUnlessRaced
<1> DEFINE Taken(b, u) ==
             (IsActive(b, u) /\ ~UnitExists(b, u)') =>
                \/ CountedOtherwise(b, u)
                \/ \E s \in Slots : /\ requests[s].at = "remove_unit"
                                    /\ requests[s].pk = units[b][u].pk
           Left(b, u) ==
             (Orphan(b, u)' /\ ~Orphan(b, u)) =>
                \/ CountedOtherwise(b, u)
                \/ \E s \in Slots : /\ requests[s].at = "new_unit" /\ requests[s].building = b
                                    /\ requests[s].home # buildings[b]
<1>1. ASSUME IInv, [Next]_vars, NEW b \in Buildings, NEW u \in Units PROVE Taken(b, u)
  <2> SUFFICES ASSUME IsActive(b, u), ~UnitExists(b, u)'
               PROVE  \/ CountedOtherwise(b, u)
                      \/ \E s \in Slots : /\ requests[s].at = "remove_unit"
                                          /\ requests[s].pk = units[b][u].pk
    OBVIOUS
  <2>1. units'[b][u] # units[b][u] /\ units[b][u].pk # None /\ units[b][u].active
    BY DEF IsActive, UnitExists
  <2>2. ASSUME NEW s \in Slots, CommitDelete(s), requests[s].building = b
        PROVE  CountedOtherwise(b, u)
    BY <1>1, <2>1, <2>2 DEF CommitDelete, CountedOtherwise, IInv, Deleting
  <2>3. units'[b][u] \notin Row
    BY BuildingAssumption DEF Row, UnitExists
  <2>4. ASSUME NEW s \in Slots, CommitRemove(s) PROVE requests[s].at = "remove_unit"
    BY <2>4 DEF CommitRemove
  <2>5. \E s \in Slots :
          \/ CommitDelete(s) /\ requests[s].building = b
          \/ CommitRemove(s) /\ requests[s].pk = units[b][u].pk
    BY <1>1, <2>1, <2>3, RowMoves
  <2>q. QED
    BY <2>2, <2>4, <2>5
<1>2. ASSUME IInv, [Next]_vars, NEW b \in Buildings, NEW u \in Units PROVE Left(b, u)
  <2> SUFFICES ASSUME Orphan(b, u)', ~Orphan(b, u)
               PROVE  \/ CountedOtherwise(b, u)
                      \/ \E s \in Slots : /\ requests[s].at = "new_unit" /\ requests[s].building = b
                                          /\ requests[s].home # buildings[b]
    OBVIOUS
  <2>1. units'[b][u].pk # None /\ buildings'[b] = None
    BY DEF Orphan, UnitExists, BuildingExists
  <2>2. CASE units[b][u].pk = None
    <3>1. PICK s \in Slots : /\ requests[s].at = "new_unit" /\ requests[s].building = b
                             /\ requests[s].home \in Pks /\ buildings' = buildings
      BY <1>2, <2>1, <2>2, RowMoves DEF NoRow
    <3>q. QED
      BY <2>1, <3>1, BuildingAssumption
  <2>3. CASE units[b][u].pk # None
    <3>1. buildings[b] # None
      BY <2>3 DEF Orphan, UnitExists, BuildingExists
    <3>2. PICK s \in Slots : CommitDelete(s) /\ requests[s].building = b
      <4>1. \E s \in Slots : InsertBuilding(s) \/ CommitDelete(s)
        BY <1>2, <2>1, <3>1, TablesMove DEF CommitUpdate, CommitRemove, InsertUnit, CommitReading, Ingest
      <4>2. ASSUME NEW s \in Slots, InsertBuilding(s) PROVE FALSE
        <5>1. PICK pk \in FreeBuildingKeys :
                buildings' = [buildings EXCEPT ![requests[s].building] = pk]
          BY <4>2 DEF InsertBuilding
        <5>2. pk # None /\ buildings \in [Buildings -> Pks \union {None}]
          BY <1>2, BuildingAssumption DEF FreeBuildingKeys, IInv, TypeOK
        <5>q. QED
          BY <2>1, <3>1, <5>1, <5>2
      <4>3. ASSUME NEW s \in Slots, CommitDelete(s) PROVE requests[s].building = b
        BY <1>2, <2>1, <3>1, <4>3 DEF CommitDelete, IInv, TypeOK
      <4>q. QED
        BY <4>1, <4>2, <4>3
    <3>3. units'[b][u] = IF units[b][u].pk \in requests[s].marked THEN NoRow ELSE units[b][u]
      BY <1>2, <3>2 DEF CommitDelete, IInv, TypeOK
    <3>4. units[b][u].pk \notin requests[s].marked
      BY <2>1, <3>3 DEF NoRow
    <3>5. requests[s].at = "delete"
      BY <3>2 DEF CommitDelete
    <3>6. requests[s].seen[u].pk # units[b][u].pk
      BY <1>2, <2>3, <3>2, <3>4, <3>5 DEF IInv, Deleting
    <3>q. QED
      BY <3>2, <3>5, <3>6 DEF CountedOtherwise
  <2>q. QED
    BY <2>2, <2>3
<1>3. IInv /\ [Next]_vars =>
        [\A b \in Buildings, u \in Units :
           /\ (IsActive(b, u) /\ ~UnitExists(b, u)') =>
                \/ CountedOtherwise(b, u)
                \/ \E s \in Slots : /\ requests[s].at = "remove_unit"
                                    /\ requests[s].pk = units[b][u].pk
           /\ (Orphan(b, u)' /\ ~Orphan(b, u)) =>
                \/ CountedOtherwise(b, u)
                \/ \E s \in Slots : /\ requests[s].at = "new_unit" /\ requests[s].building = b
                                    /\ requests[s].home # buildings[b]]_vars
  BY <1>1, <1>2
<1>q. QED
  BY <1>3, BuildingsInductive, PTL DEF Spec, BuildingGoesWithUnitsUnlessRaced
=============================================================================

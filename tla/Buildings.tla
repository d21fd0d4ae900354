------------------------------- MODULE Buildings -------------------------------
(***************************************************************************)
(* Buildings and the units in them, and the energy shown for a building:   *)
(* the /buildings routes of app/api/routes.py, the summary of /me/dashboard *)
(* and the tag that app/services/ingestion.py gives a reading.             *)
(*                                                                         *)
(* A handler loads what it needs, tests it and writes later, on a thread   *)
(* of a pool, at READ COMMITTED.  building_units has no foreign key to     *)
(* buildings, only a unique key on (building_id, unit_id), and the same    *)
(* unit_id may be in several buildings.  Who may call a handler, names and *)
(* floors are left out, and so are the windows of reports (Dashboards has  *)
(* their like): a figure is the set of readings it counts.                 *)
(***************************************************************************)
EXTENDS Integers, FiniteSets

CONSTANTS
    Buildings,      \* ids, in the order of the database's collation
    Units,          \* ids
    None,
    Readings,       \* bound: the readings there will ever be
    Slots,          \* threads of the pool
    Pks,            \* bound: primary keys; those of deleted rows are used again
    MaxCommits      \* bound: requests that commit

ASSUME BuildingAssumption ==
    /\ Buildings \subseteq Int
    /\ \A S \in SUBSET Buildings : S # {} => \E b \in S : \A c \in S : b <= c
    /\ None \notin Buildings \union Units \union Pks
    /\ MaxCommits \in Nat

VARIABLES
    buildings,      \* the table buildings: the primary key of each, or None
    units,          \* the table building_units
    readings,       \* energy_readings, and the row that is not committed yet
    requests,       \* what each thread of the pool is doing
    linked,         \* history: the buildings each unit has been in
    commits

vars == <<buildings, units, readings, requests, linked, commits>>

Row == [pk : Pks, active : BOOLEAN]
NoRow == [pk |-> None, active |-> FALSE]
Reading == [unit : Units, tag : Buildings \union {None}, stored : BOOLEAN]
NoReading == [unit |-> None, tag |-> None, stored |-> FALSE]

Idle == [at |-> "idle"]

\* A request between its checks and its commit, with the rows it has loaded: the
\* building's, the unit's, or all units' as the count of active units met them, and
\* the rows its DELETE has marked.  Or an export, with the units it lists, those
\* still to be queried, the readings each row has counted, and what consumption
\* counted when the units were listed.
Request ==
    {Idle}
      \union [at : {"new_building"}, building : Buildings]
      \union [at : {"new_unit"}, building : Buildings, home : Pks]
      \union [at : {"set_active"}, building : Buildings, unit : Units, pk : Pks, active : BOOLEAN]
      \union [at : {"remove_unit"}, building : Buildings, unit : Units, pk : Pks]
      \union [at : {"count"}, building : Buildings, home : Pks]
      \union [at : {"delete_units"}, building : Buildings, home : Pks,
              seen : [Units -> Row \union {NoRow}]]
      \union [at : {"delete"}, building : Buildings, home : Pks,
              seen : [Units -> Row \union {NoRow}], marked : SUBSET Pks]
      \union [at : {"rows", "written"}, building : Buildings, listed : SUBSET Units,
              todo : SUBSET Units, counted : SUBSET (Units \X Readings),
              start : SUBSET Readings]

TypeOK ==
    /\ buildings \in [Buildings -> Pks \union {None}]
    /\ units \in [Buildings -> [Units -> Row \union {NoRow}]]
    /\ readings \in [Readings -> Reading \union {NoReading}]
    /\ requests \in [Slots -> Request]
    /\ linked \in [Units -> SUBSET Buildings]
    /\ commits \in 0..MaxCommits

Init ==
    /\ buildings = [b \in Buildings |-> None]
    /\ units = [b \in Buildings |-> [u \in Units |-> NoRow]]
    /\ readings = [r \in Readings |-> NoReading]
    /\ requests = [s \in Slots |-> Idle]
    /\ linked = [u \in Units |-> {}]
    /\ commits = 0

-----------------------------------------------------------------------------
(* Queries.                                                                *)

BuildingExists(b) == buildings[b] # None
UnitExists(b, u) == units[b][u].pk # None
IsActive(b, u) == UnitExists(b, u) /\ units[b][u].active

\* _building_unit_ids.
BuildingUnitIds(b) == {u \in Units : IsActive(b, u)}

Stored == {r \in Readings : readings[r].stored}

\* _building_reading_scope with the units listed: the readings tagged with the
\* building, and those without a tag of the units.
ReadingScope(b, ids) ==
    {r \in Stored : readings[r].tag = b \/ (readings[r].tag = None /\ readings[r].unit \in ids)}

\* building_consumption, its window open.
Consumption(b) == ReadingScope(b, BuildingUnitIds(b))

\* The building summary of me_dashboard, its window open: by unit, whatever the tag.
Summary(b) == {r \in Stored : readings[r].unit \in BuildingUnitIds(b)}

\* The rows the DELETE of a request waits to commit; other writers wait for it.
Marked(pk) == \E s \in Slots : requests[s].at = "delete" /\ pk \in requests[s].marked

\* The keys of a table that no row has and no request remembers.
FreeBuildingKeys ==
    Pks \ ({buildings[b] : b \in Buildings}
              \union {requests[s].home : s \in {s \in Slots : "home" \in DOMAIN requests[s]}})
FreeUnitKeys ==
    Pks \ ({units[b][u].pk : b \in Buildings, u \in Units}
              \union {requests[s].pk : s \in {s \in Slots : "pk" \in DOMAIN requests[s]}}
              \union UNION {{requests[s].seen[u].pk : u \in Units} :
                               s \in {s \in Slots : "seen" \in DOMAIN requests[s]}})

Go(s, request) ==
    /\ requests' = [requests EXCEPT ![s] = request]
    /\ UNCHANGED <<buildings, units, readings, linked, commits>>

EndCommitted(s) ==
    /\ commits < MaxCommits
    /\ commits' = commits + 1
    /\ requests' = [requests EXCEPT ![s] = Idle]

-----------------------------------------------------------------------------
(* Buildings.                                                              *)

\* create_building: the id is not in use.
CreateBuilding(s, b) ==
    /\ requests[s] = Idle
    /\ ~BuildingExists(b)
    /\ Go(s, [at |-> "new_building", building |-> b])

\* Its insert; the unique key refuses the second of two.
InsertBuilding(s) ==
    /\ requests[s].at = "new_building"
    /\ ~BuildingExists(requests[s].building)
    /\ \E pk \in FreeBuildingKeys : buildings' = [buildings EXCEPT ![requests[s].building] = pk]
    /\ EndCommitted(s)
    /\ UNCHANGED <<units, readings, linked>>

\* delete_building: the row.
DeleteBuilding(s, b) ==
    /\ requests[s] = Idle
    /\ BuildingExists(b)
    /\ Go(s, [at |-> "count", building |-> b, home |-> buildings[b]])

\* Mutant of CountActive: the count is not tested.
CountActiveUntested(s) ==
    /\ requests[s].at = "count"
    /\ Go(s, [at |-> "delete_units", building |-> requests[s].building,
              home |-> requests[s].home, seen |-> units[requests[s].building]])

\* Its count of the active units, which must be 0.
CountActive(s) ==
    /\ requests[s].at = "count"
    /\ BuildingUnitIds(requests[s].building) = {}
    /\ Go(s, [at |-> "delete_units", building |-> requests[s].building,
              home |-> requests[s].home, seen |-> units[requests[s].building]])

\* Its DELETE of the units there are, active or not.
DeleteUnits(s) ==
    /\ requests[s].at = "delete_units"
    /\ LET b == requests[s].building
       IN  Go(s, [at |-> "delete", building |-> b, home |-> requests[s].home,
                  seen |-> requests[s].seen,
                  marked |-> {units[b][u].pk : u \in {u \in Units : UnitExists(b, u)}}])

\* The DELETE of the row it has loaded, and the commit of both; a row that is gone
\* is only worth a warning.
CommitDelete(s) ==
    /\ requests[s].at = "delete"
    /\ LET b == requests[s].building
       IN  /\ buildings' = [buildings EXCEPT ![b] = IF @ = requests[s].home THEN None ELSE @]
           /\ units' = [units EXCEPT ![b] =
                [u \in Units |-> IF @[u].pk \in requests[s].marked THEN NoRow ELSE @[u]]]
    /\ EndCommitted(s)
    /\ UNCHANGED <<readings, linked>>

-----------------------------------------------------------------------------
(* Units of a building.                                                    *)

\* create_building_unit: the building exists.
CreateUnit(s, b) ==
    /\ requests[s] = Idle
    /\ BuildingExists(b)
    /\ Go(s, [at |-> "new_unit", building |-> b, home |-> buildings[b]])

\* The unit is not there, and its insert; the unique key refuses the second of two.
InsertUnit(s, u, active) ==
    /\ requests[s].at = "new_unit"
    /\ LET b == requests[s].building
       IN  /\ ~UnitExists(b, u)
           /\ \E pk \in FreeUnitKeys :
                units' = [units EXCEPT ![b][u] = [pk |-> pk, active |-> active]]
           /\ linked' = [linked EXCEPT ![u] = @ \union {b}]
    /\ EndCommitted(s)
    /\ UNCHANGED <<buildings, readings>>

\* update_building_unit: the row, and an is_active that differs from its own; one
\* that does not differ is not written.
UpdateUnit(s, b, u) ==
    /\ requests[s] = Idle
    /\ UnitExists(b, u)
    /\ Go(s, [at |-> "set_active", building |-> b, unit |-> u,
              pk |-> units[b][u].pk, active |-> ~units[b][u].active])

\* Mutant of CommitUpdate: it does not look whether the row is still there.
CommitUpdateBlind(s) ==
    /\ requests[s].at = "set_active"
    /\ ~Marked(requests[s].pk)
    /\ LET q == requests[s]
       IN  units' = [units EXCEPT ![q.building][q.unit].active = q.active]
    /\ EndCommitted(s)
    /\ UNCHANGED <<buildings, readings, linked>>

\* The UPDATE of the row it has loaded; a row that is gone fails the request.
CommitUpdate(s) ==
    /\ requests[s].at = "set_active"
    /\ ~Marked(requests[s].pk)
    /\ LET q == requests[s]
       IN  /\ units[q.building][q.unit].pk = q.pk
           /\ units' = [units EXCEPT ![q.building][q.unit].active = q.active]
    /\ EndCommitted(s)
    /\ UNCHANGED <<buildings, readings, linked>>

\* delete_building_unit: the row.
RemoveUnit(s, b, u) ==
    /\ requests[s] = Idle
    /\ UnitExists(b, u)
    /\ Go(s, [at |-> "remove_unit", building |-> b, unit |-> u, pk |-> units[b][u].pk])

\* The DELETE of the row it has loaded; a row that is gone is only worth a warning.
CommitRemove(s) ==
    /\ requests[s].at = "remove_unit"
    /\ ~Marked(requests[s].pk)
    /\ LET q == requests[s]
       IN  units' = [units EXCEPT ![q.building][q.unit] = IF @.pk = q.pk THEN NoRow ELSE @]
    /\ EndCommitted(s)
    /\ UNCHANGED <<buildings, readings, linked>>

\* A request that ends without a change: refused, failed, or cut off by a restart.
Fail(s) ==
    /\ requests[s] # Idle
    /\ Go(s, Idle)

-----------------------------------------------------------------------------
(* Readings.                                                               *)

\* The buildings that have the unit, active or not.
Links(u) == {b \in Buildings : UnitExists(b, u)}
First(S) == CHOOSE b \in S : \A c \in S : b <= c

\* Mutant of Tag: any building will do.
TagAny(u) == IF Buildings = {} THEN None ELSE First(Buildings)

\* ingest_event looks for the first building of the unit.
Tag(u) == IF Links(u) = {} THEN None ELSE First(Links(u))

\* ingest_event, on the one thread of the consumer, takes the tag for its reading;
\* Ingestion has the rest of it.
Ingest(r, u) ==
    /\ \A q \in Readings : readings[q] = NoReading \/ readings[q].stored
    /\ readings[r] = NoReading
    /\ readings' = [readings EXCEPT ![r] = [unit |-> u, tag |-> Tag(u), stored |-> FALSE]]
    /\ UNCHANGED <<buildings, units, requests, linked, commits>>

\* Its commit.
CommitReading(r) ==
    /\ readings[r] # NoReading
    /\ ~readings[r].stored
    /\ readings' = [readings EXCEPT ![r].stored = TRUE]
    /\ UNCHANGED <<buildings, units, requests, linked, commits>>

-----------------------------------------------------------------------------
(* building_reports_export.                                                *)

\* The units, in no particular order.
ListUnits(s, b) ==
    /\ requests[s] = Idle
    /\ Go(s, [at |-> "rows", building |-> b, listed |-> BuildingUnitIds(b),
              todo |-> BuildingUnitIds(b), counted |-> {}, start |-> Consumption(b)])

\* Mutant of RowScope: the unit's readings, whatever their tag.
RowScopeByUnit(b, u) ==
    {r \in Stored : readings[r].tag = b \/ readings[r].unit = u}

\* What the row of a unit counts: all that is tagged with the building, and what the
\* unit has without a tag.
RowScope(b, u) == ReadingScope(b, {u})

\* The query of one row.
ExportRow(s, u) ==
    /\ requests[s].at = "rows"
    /\ u \in requests[s].todo
    /\ Go(s, [requests[s] EXCEPT
              !.todo = @ \ {u},
              !.counted = @ \union ({u} \X RowScope(requests[s].building, u))])

\* The file is written, with a total of the rows.
WriteExport(s) ==
    /\ requests[s].at = "rows"
    /\ requests[s].todo = {}
    /\ Go(s, [requests[s] EXCEPT !.at = "written"])

-----------------------------------------------------------------------------

HandleBuilding(s) ==
    \/ \E b \in Buildings : CreateBuilding(s, b) \/ DeleteBuilding(s, b)
    \/ InsertBuilding(s) \/ CountActive(s) \/ DeleteUnits(s) \/ CommitDelete(s)

HandleUnit(s) ==
    \/ \E b \in Buildings : CreateUnit(s, b)
    \/ \E b \in Buildings, u \in Units : UpdateUnit(s, b, u) \/ RemoveUnit(s, b, u)
    \/ \E u \in Units, active \in BOOLEAN : InsertUnit(s, u, active)
    \/ CommitUpdate(s) \/ CommitRemove(s)

ExportUnits(s) ==
    \/ \E b \in Buildings : ListUnits(s, b)
    \/ \E u \in Units : ExportRow(s, u)
    \/ WriteExport(s)

Next ==
    \/ \E s \in Slots : HandleBuilding(s) \/ HandleUnit(s) \/ ExportUnits(s) \/ Fail(s)
    \/ \E r \in Readings : CommitReading(r) \/ \E u \in Units : Ingest(r, u)

Spec == Init /\ [][Next]_vars

-----------------------------------------------------------------------------
(* Properties.                                                             *)

\* A unit whose building is not there.
Orphan(b, u) == UnitExists(b, u) /\ ~BuildingExists(b)

\* A delete of building b is about to commit that counted unit u as it no longer is.
CountedOtherwise(b, u) ==
    \E s \in Slots : /\ requests[s].at = "delete" /\ requests[s].building = b
                     /\ requests[s].seen[u] # units[b][u]

\* Nobody deletes an active unit together with its building, or leaves a unit without
\* one, unless the unit changed after delete_building had counted, or the building
\* was deleted after create_building_unit had looked for it: the count and the two
\* DELETEs of one request leave nothing behind.
BuildingGoesWithUnitsUnlessRaced ==
    [][\A b \in Buildings, u \in Units :
         /\ (IsActive(b, u) /\ ~UnitExists(b, u)') =>
              \/ CountedOtherwise(b, u)
              \/ \E s \in Slots : /\ requests[s].at = "remove_unit"
                                  /\ requests[s].pk = units[b][u].pk
         /\ (Orphan(b, u)' /\ ~Orphan(b, u)) =>
              \/ CountedOtherwise(b, u)
              \/ \E s \in Slots : /\ requests[s].at = "new_unit" /\ requests[s].building = b
                                  /\ requests[s].home # buildings[b]]_vars

\* The manager's summary goes by unit and the building's consumption by tag.  They show
\* the same readings of a building that is the only one its units have ever been in,
\* as long as they are all active.
FiguresAgreeUnlessMoved ==
    \A b \in Buildings :
      (\A u \in Units : b \in linked[u] => linked[u] = {b} /\ IsActive(b, u)) =>
        Summary(b) = Consumption(b)

\* A finished export has whatever consumption counted when it began, if it lists a
\* unit at all, nothing that belongs to another building, and only readings tagged
\* with the building in more than one row: these its total counts once for each unit.
ExportRepeatsOnlyTagged ==
    \A s \in Slots : requests[s].at = "written" =>
      /\ requests[s].listed # {} =>
           \A r \in requests[s].start : \E u \in requests[s].listed : <<u, r>> \in requests[s].counted
      /\ \A pair \in requests[s].counted : readings[pair[2]].tag \in {requests[s].building, None}
      /\ \A p, q \in requests[s].counted :
           p[2] = q[2] /\ p # q => readings[p[2]].tag = requests[s].building
=============================================================================

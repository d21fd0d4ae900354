------------------------------ MODULE Dashboards ------------------------------
(***************************************************************************)
(* What the dashboards and reports count: app/services/dashboard.py,       *)
(* app/services/unit_reports.py and the report routes.                     *)
(*                                                                         *)
(* A dashboard is built by a sequence of queries at READ COMMITTED; the    *)
(* MQTT thread commits readings, administrators add and delete units, and  *)
(* the clock, which is read more than once, goes on between any two.  A    *)
(* figure is abstracted to the set of readings it counts, and the energy   *)
(* of a reading to one unit, above zero or below: nothing refuses a        *)
(* negative kwh.  Readings are those the simulation filter lets through,   *)
(* the same in every query of a dashboard.                                 *)
(***************************************************************************)
EXTENDS Integers, FiniteSets

CONSTANTS
    Units,          \* units of the community
    Community,      \* the scope of the community's dashboard
    WeekStarts,     \* Mondays, 00:00
    MonthStarts,    \* first days of months, 00:00
    DayLength,
    HourLength,
    CurveSpan,      \* how far back a load curve goes: seven days
    MaxTime,        \* bound: the clock
    Sent,           \* bound: the readings that devices may send
    MaxReadings     \* bound: readings ingested

Times == 0..MaxTime

ASSUME TimeAssumption ==
    /\ WeekStarts \subseteq Nat /\ 0 \in WeekStarts
    /\ MonthStarts \subseteq Nat /\ 0 \in MonthStarts
    /\ DayLength \in Nat \ {0} /\ HourLength \in Nat \ {0}
    /\ CurveSpan \in Nat
    /\ \A t \in WeekStarts \union MonthStarts : t % DayLength = 0
    /\ MaxTime \in Nat /\ MaxReadings \in Nat

ASSUME ScopeAssumption == Community \notin Units /\ IsFiniteSet(Units)

\* A week is as long as a load curve.
ASSUME WeekAssumption ==
    \A t \in Times : \E s \in WeekStarts : s <= t /\ t < s + CurveSpan

VARIABLES
    now,        \* utc_now()
    readings,   \* energy_readings
    units,      \* the units that have a row
    snap        \* the dashboard being built

vars == <<now, readings, units, snap>>

Reading == [unit : Units, time : Times, negative : BOOLEAN]

ASSUME SentAssumption == Sent \subseteq Reading

Periods == {"all", "week", "month"}
Steps == {"list", "units", "unit_previous", "peak", "previous", "done"}

\* Its scope and period, the units listed, those left and the one at hand, and the
\* readings its figures count: the totals, the previous period of the units and
\* of the community, the load curve, and the peak.
Snapshot == [at : Steps, scope : Units \union {Community}, period : Periods,
             start : Times, end : Times,
             listed : SUBSET Units, todo : SUBSET Units, unit : SUBSET Units,
             totals : SUBSET Reading, unitPrevious : SUBSET Reading,
             curve : SUBSET Reading, peak : Int, previous : SUBSET Reading]
Idle == [at |-> "idle"]

TypeOK ==
    /\ now \in Times
    /\ readings \in SUBSET Reading
    /\ units \in SUBSET Units
    /\ snap \in Snapshot \union {Idle}

Init ==
    /\ now \in Times
    /\ readings = {}
    /\ units \in SUBSET Units
    /\ snap = Idle

-----------------------------------------------------------------------------
(* Around the dashboards.                                                  *)

\* ingest_event: a reading of any time and any kwh, and a row for its unit.
Ingest(r) ==
    /\ Cardinality(readings) < MaxReadings
    /\ readings' = readings \union {r}
    /\ units' = units \union {r.unit}
    /\ UNCHANGED <<now, snap>>

\* delete_unit and bulk_delete_units leave the readings.
DeleteUnits(S) ==
    /\ units' = units \ S
    /\ UNCHANGED <<now, readings, snap>>

Tick ==
    /\ now < MaxTime
    /\ now' = now + 1
    /\ UNCHANGED <<readings, units, snap>>

-----------------------------------------------------------------------------
(* The windows.                                                            *)

Latest(S, t) == CHOOSE s \in S : s <= t /\ \A q \in S : q <= t => q <= s

\* Mutant of PeriodStart: the last seven days, not the week since Monday.
PeriodStartRolling(period, t) ==
    CASE period = "week" -> t - CurveSpan
      [] period = "month" -> Latest(MonthStarts, t)
      [] OTHER -> 0

\* resolve_period.
PeriodStart(period, t) ==
    CASE period = "week" -> Latest(WeekStarts, t)
      [] period = "month" -> Latest(MonthStarts, t)
      [] OTHER -> 0

InPeriod(r) == snap.period = "all" \/ (snap.start <= r.time /\ r.time <= snap.end)

\* Mutant of InPrevious: both ends of both windows count.
InPreviousClosed(r) ==
    snap.start - (snap.end - snap.start) <= r.time /\ r.time <= snap.start

\* _previous_window: as long as the period so far, and without its first moment.
InPrevious(r) ==
    snap.start - (snap.end - snap.start) <= r.time /\ r.time < snap.start

InScope(r) == snap.scope = Community \/ r.unit = snap.scope

Larger(a, b) == IF a >= b THEN a ELSE b
Smaller(a, b) == IF a <= b THEN a ELSE b

\* Mutant of CurveStart: a day short.
CurveStartLate ==
    IF snap.period = "all" THEN now - (CurveSpan - DayLength)
    ELSE Larger(snap.start, now - (CurveSpan - DayLength))

\* resolve_load_curve_start and resolve_load_curve_end: the clock is read anew.
CurveStart ==
    IF snap.period = "all" THEN now - CurveSpan ELSE Larger(snap.start, now - CurveSpan)
CurveEnd == IF snap.period = "all" THEN now ELSE Smaller(snap.end, now)

Hour(r) == r.time \div HourLength
Bucket(S, h) == {r \in S : Hour(r) = h}

\* sum(kwh).
Energy(S) == Cardinality({r \in S : ~r.negative}) - Cardinality({r \in S : r.negative})

\* Mutant of Peaks: grouped by unit and hour, as in community_units_peak_risk.
PeaksPerUnit(S) ==
    LET energy(r) == Energy({q \in Bucket(S, Hour(r)) : q.unit = r.unit})
    IN  {energy(r) : r \in {q \in S : \A p \in S : energy(p) <= energy(q)}}

\* The energy of the hours that have the most.
Peaks(S) ==
    LET energy(r) == Energy(Bucket(S, Hour(r)))
    IN  {energy(r) : r \in {q \in S : \A p \in S : energy(p) <= energy(q)}}

-----------------------------------------------------------------------------
(* Building a dashboard: build_dashboard_snapshot and                      *)
(* build_unit_dashboard_snapshot.                                          *)

Start(scope, period) ==
    /\ snap = Idle
    /\ snap' = [at |-> "list", scope |-> scope, period |-> period,
                start |-> PeriodStart(period, now), end |-> now,
                listed |-> {}, todo |-> {}, unit |-> {}, totals |-> {},
                unitPrevious |-> {}, curve |-> {}, peak |-> 0, previous |-> {}]
    /\ UNCHANGED <<now, readings, units>>

Go(s) ==
    /\ snap' = s
    /\ UNCHANGED <<now, readings, units>>

\* The rows to sum up; a unit that has none is not found.
ListUnits ==
    /\ snap.at = "list"
    /\ LET listed == {u \in units : snap.scope \in {Community, u}}
       IN  IF snap.scope \in Units /\ listed = {}
           THEN Go(Idle)
           ELSE Go([snap EXCEPT !.at = "units", !.listed = listed, !.todo = listed])

\* The totals of the next unit (whichever: the order does not show).
UnitTotals(u) ==
    /\ snap.at = "units"
    /\ u \in snap.todo
    /\ LET compared == snap.period # "all"
       IN  Go([snap EXCEPT
                !.at = IF compared THEN "unit_previous" ELSE "units",
                !.todo = @ \ {u},
                !.unit = IF compared THEN {u} ELSE {},
                !.totals = @ \union {r \in readings : r.unit = u /\ InPeriod(r)}])

\* The previous period of the same unit.
UnitPrevious ==
    /\ snap.at = "unit_previous"
    /\ Go([snap EXCEPT !.at = "units", !.unit = {},
            !.unitPrevious = @ \union {r \in readings : r.unit \in snap.unit /\ InPrevious(r)}])

LoadCurve ==
    /\ snap.at = "units"
    /\ snap.todo = {}
    /\ Go([snap EXCEPT !.at = "peak",
            !.curve = {r \in readings : InScope(r) /\ CurveStart <= r.time
                                                   /\ r.time <= CurveEnd}])

\* The hour with the most energy; no hour and 0.0 without readings.
PeakRisk ==
    LET counted == {r \in readings : InScope(r) /\ InPeriod(r)}
        next == IF snap.scope = Community /\ snap.period # "all" THEN "previous" ELSE "done"
    IN  /\ snap.at = "peak"
        /\ IF counted = {}
           THEN Go([snap EXCEPT !.at = next])
           ELSE \E n \in Peaks(counted) : Go([snap EXCEPT !.at = next, !.peak = n])

\* Mutant of CommunityPrevious: of the units that have a row, as the totals.
CommunityPreviousOfUnits ==
    /\ snap.at = "previous"
    /\ Go([snap EXCEPT !.at = "done",
            !.previous = {r \in readings : r.unit \in units /\ InPrevious(r)}])

\* The previous period of the community: every reading, whatever its unit.
CommunityPrevious ==
    /\ snap.at = "previous"
    /\ Go([snap EXCEPT !.at = "done", !.previous = {r \in readings : InPrevious(r)}])

Return ==
    /\ snap.at = "done"
    /\ Go(Idle)

Build ==
    \/ ListUnits
    \/ \E u \in Units : UnitTotals(u)
    \/ UnitPrevious
    \/ LoadCurve
    \/ PeakRisk
    \/ CommunityPrevious
    \/ Return

-----------------------------------------------------------------------------

Next ==
    \/ \E r \in Sent : Ingest(r)
    \/ \E S \in SUBSET units \ {{}} : DeleteUnits(S)
    \/ Tick
    \/ \E scope \in Units \union {Community}, period \in Periods : Start(scope, period)
    \/ Build

Spec == Init /\ [][Next]_vars

-----------------------------------------------------------------------------
(* Reports: each is one query, so a function of the state.                 *)

\* list_unit_report_history and community_reports_history group by month.
HistoryRow(month, S) == {r \in S : Latest(MonthStarts, r.time) = month}

\* The first moment of the month after the one t is in, as far as it is known.
FollowingMonths(month) == {m \in MonthStarts : m > month}

\* Mutant of PeriodEnd: the last day of the month, 00:00.
PeriodEndShort(month) ==
    IF FollowingMonths(month) = {} THEN MaxTime
    ELSE (CHOOSE m \in FollowingMonths(month) :
            \A q \in FollowingMonths(month) : m <= q) - DayLength

\* parse_period_yyyy_mm: the last moment before the next month.
PeriodEnd(month) ==
    IF FollowingMonths(month) = {} THEN MaxTime
    ELSE (CHOOSE m \in FollowingMonths(month) :
            \A q \in FollowingMonths(month) : m <= q) - 1

\* compute_unit_period_report.
MonthReport(month, S) == {r \in S : month <= r.time /\ r.time <= PeriodEnd(month)}

OfUnit(u) == {r \in readings : r.unit = u}

\* What unit_summary counts of the readings of a unit when it is asked for the week.
WeekTotal(S) == {r \in S : Latest(WeekStarts, now) <= r.time /\ r.time <= now}

\* The totals of a community's week: unit by unit, of those that have a row.
CommunityWeek == UNION {WeekTotal(OfUnit(u)) : u \in units}

\* Mutant of DaysStart: from this time of the day on, not from midnight.
DaysStartRolling(days) == now - (days - 1) * DayLength

\* Midnight of the first of the days.
DaysStart(days) == LET t == now - (days - 1) * DayLength IN t - (t % DayLength)

\* unit_daily_emissions, of the readings of a unit, when it is asked for the week.
DailySeries(days, S) ==
    {r \in S : Larger(DaysStart(days), Latest(WeekStarts, now)) <= r.time /\ r.time <= now}

\* community_consumption_daily: every reading, whether its unit has a row or not.
CommunitySeries(days) == DailySeries(days, readings)

-----------------------------------------------------------------------------
(* Properties.                                                             *)

Done == snap # Idle /\ snap.at = "done"

\* A dashboard compares a period with the one before: no reading counts in both,
\* however the clock and the readings move on between the queries, and whether
\* the previous period is the community's or a unit's.
CountedOnce ==
    Done => snap.totals \intersect (snap.previous \union snap.unitPrevious) = {}

\* No hour of the load curve is above the peak next to it, although the two are
\* queries of their own with readings coming in between and different windows; only
\* a negative reading of that hour that the curve did not count can take the peak
\* below it (sent after the curve was read, or older than the curve's first moment).
PeakUnlessNegative ==
    Done => \A r \in snap.curve :
        \/ Energy(Bucket(snap.curve, Hour(r))) <= snap.peak
        \/ \E q \in readings \ snap.curve :
                q.negative /\ Hour(q) = Hour(r) /\ InScope(q) /\ InPeriod(q)

\* The load curve of a week shows every reading its totals count, unless the
\* week is over: the clock is read again for the curve, and the curve then
\* begins after the Monday the totals begin on (resolve_load_curve_start).
WeekInCurveUnlessLate ==
    Done /\ snap.period = "week" /\ now <= snap.start + CurveSpan =>
        snap.totals \subseteq snap.curve

\* The units' previous periods are part of the community's, although units are
\* deleted and readings ingested between the queries.
UnitsWithinCommunity ==
    Done /\ snap.scope = Community => snap.unitPrevious \subseteq snap.previous

\* The monthly history and the report of one month, which find their readings
\* by a formatted month and by two bounds, count the same.
MonthsAgree ==
    \A month \in MonthStarts :
        HistoryRow(month, readings) = MonthReport(month, readings)

\* A daily series of at least a week, asked for the week, counts what the week's
\* totals count: midnight is not later than Monday.  A community's series may only
\* have more, readings of units that are deleted, which its totals leave out.
DailyAgrees ==
    \A days \in 1..CurveSpan : days * DayLength >= CurveSpan =>
        /\ \A u \in units : DailySeries(days, OfUnit(u)) = WeekTotal(OfUnit(u))
        /\ CommunityWeek \subseteq CommunitySeries(days)
        /\ \A r \in CommunitySeries(days) \ CommunityWeek : r.unit \notin units
=============================================================================

-------------------------- MODULE Dashboards_proofs --------------------------
(***************************************************************************)
(* Proofs about dashboards and reports, for every set of units, every      *)
(* calendar and any number of readings.                                    *)
(***************************************************************************)
EXTENDS Dashboards, TLAPS, WellFoundedInduction, FiniteSetTheorems

-----------------------------------------------------------------------------
(* The inductive invariant.                                                *)

\* The readings of the dashboard's scope and period, and of the period before.
Counted == {r \in readings : InScope(r) /\ InPeriod(r)}
Before == {r \in readings : snap.period # "all" /\ InPrevious(r)}

\* What each figure may count.
Figures ==
    snap # Idle =>
        /\ snap.end <= now
        /\ \A u \in snap.todo : snap.scope \in {Community, u}
        /\ snap.at \in {"unit_previous", "previous"} => snap.period # "all"
        /\ snap.totals \subseteq Counted
        /\ snap.curve \subseteq Counted
        /\ snap.unitPrevious \subseteq Before
        /\ snap.previous \subseteq Before

\* A negative reading of the hour of r that is in S and not in the curve.
Unseen(S, r) == \E q \in S \ snap.curve : q.negative /\ Hour(q) = Hour(r)

\* PeakUnlessNegative as soon as the peak is known.
PeakKnown ==
    snap # Idle /\ snap.at \in {"previous", "done"} =>
        \A r \in snap.curve :
            Energy(Bucket(snap.curve, Hour(r))) <= snap.peak \/ Unseen(Counted, r)

\* WeekInCurveUnlessLate as soon as the curve is known.
CurveKnown ==
    /\ snap # Idle /\ snap.at \in {"peak", "previous", "done"}
    /\ snap.period = "week" /\ now <= snap.start + CurveSpan
    => snap.totals \subseteq snap.curve

IInv ==
    /\ TypeOK /\ IsFiniteSet(readings)
    /\ Figures /\ PeakKnown /\ CurveKnown /\ UnitsWithinCommunity

-----------------------------------------------------------------------------
(* The calendar.                                                           *)

LEMMA SomeLeast ==
    ASSUME NEW S \in SUBSET Nat, S # {}
    PROVE  \E x \in S : \A y \in S : x <= y
<1> DEFINE R == {p \in Nat \X Nat : p[1] < p[2]}
<1>1. IsWellFoundedOn(R, Nat)
  BY NatLessThanWellFounded DEF OpToRel
<1>2. PICK x \in S : \A y \in S : ~(<<y, x>> \in R)
  BY <1>1, WFMin, Zenon
<1>3. ASSUME NEW y \in S PROVE x <= y
  <2>1. x \in Nat /\ y \in Nat
    OBVIOUS
  <2>2. ~(y < x)
    BY <1>2, <2>1
  <2>q. QED
    BY <2>1, <2>2
<1>q. QED
  BY <1>3

\* Every moment has a latest start of a week or a month before it.
LEMMA LatestIn ==
    ASSUME NEW S \in SUBSET Nat, 0 \in S, NEW t \in Nat
    PROVE  /\ Latest(S, t) \in S /\ Latest(S, t) <= t
           /\ \A q \in S : q <= t => q <= Latest(S, t)
<1> DEFINE D == {t - s : s \in {q \in S : q <= t}}
<1>1. D \in SUBSET Nat /\ D # {}
  <2>1. ASSUME NEW s \in S, s <= t PROVE t - s \in Nat
    BY <2>1
  <2>2. t - 0 \in D
    <3>1. 0 \in {q \in S : q <= t}
      OBVIOUS
    <3>q. QED
      BY <3>1, Zenon
  <2>q. QED
    BY <2>1, <2>2
<1>2. PICK d \in D : \A e \in D : d <= e
  BY <1>1, SomeLeast, Zenon
<1>3. PICK s \in S : s <= t /\ d = t - s
  BY <1>2
<1>4. ASSUME NEW q \in S, q <= t PROVE q <= s
  <2>1. t - q \in D
    BY <1>4
  <2>2. t - s <= t - q
    BY <1>2, <1>3, <2>1
  <2>3. q \in Nat /\ s \in Nat
    OBVIOUS
  <2>q. QED
    BY <2>2, <2>3
<1>q. QED
  BY <1>3, <1>4 DEF Latest

LEMMA PeriodStartType ==
    ASSUME NEW period \in Periods, NEW t \in Times
    PROVE  PeriodStart(period, t) \in Times /\ PeriodStart(period, t) <= t
<1>1. t \in Nat /\ t <= MaxTime
  BY TimeAssumption DEF Times
<1>2. ASSUME NEW S \in SUBSET Nat, 0 \in S
      PROVE  Latest(S, t) \in Times /\ Latest(S, t) <= t
  <2>1. Latest(S, t) \in S /\ Latest(S, t) <= t
    BY <1>1, <1>2, LatestIn, Zenon
  <2>2. \A l \in S : l <= t => l \in Times
    BY <1>1, TimeAssumption DEF Times
  <2>q. QED
    BY <2>1, <2>2, Zenon
<1>q. QED
  BY <1>1, <1>2, TimeAssumption DEF PeriodStart, Periods, Times

-----------------------------------------------------------------------------
(* Facts about the dashboard at hand.                                      *)

LEMMA SnapType ==
    ASSUME TypeOK, snap # Idle
    PROVE  /\ snap \in Snapshot
           /\ snap.start \in Nat /\ snap.end \in Nat /\ now \in Nat
           /\ readings \subseteq Reading
BY TimeAssumption DEF TypeOK, Snapshot, Times

LEMMA ReadingTime ==
    ASSUME NEW r \in Reading
    PROVE  r.time \in Nat /\ r.unit \in Units
BY TimeAssumption DEF Reading, Times

\* The load curve lies inside the period, and is all of the week while it lasts.
LEMMA CurveWindow ==
    ASSUME TypeOK, snap # Idle, snap.period # "all", snap.end <= now
    PROVE  /\ snap.start <= CurveStart /\ CurveEnd = snap.end
           /\ now <= snap.start + CurveSpan => CurveStart = snap.start
BY SnapType, TimeAssumption DEF CurveStart, CurveEnd, Larger, Smaller

\* The energy of finitely many readings is a number, and with the same negative
\* readings fewer readings have no more of it.
LEMMA EnergyOfPart ==
    ASSUME NEW S, IsFiniteSet(S), NEW T \in SUBSET S,
           \A q \in S \ T : ~q.negative
    PROVE  Energy(T) \in Int /\ Energy(S) \in Int /\ Energy(T) <= Energy(S)
<1> DEFINE above(A) == {r \in A : ~r.negative}
           below(A) == {r \in A : r.negative}
<1>1. below(T) = below(S) /\ above(T) \in SUBSET above(S)
  OBVIOUS
<1>2. IsFiniteSet(above(S)) /\ IsFiniteSet(below(S))
  BY FS_Subset
<1>3. /\ Cardinality(above(S)) \in Nat /\ Cardinality(below(S)) \in Nat
      /\ Cardinality(above(T)) \in Nat /\ Cardinality(above(T)) <= Cardinality(above(S))
  <2> HIDE DEF above, below
  <2>q. QED
    BY <1>1, <1>2, FS_Subset, FS_CardinalityType
<1>4. /\ Energy(S) = Cardinality(above(S)) - Cardinality(below(S))
      /\ Energy(T) = Cardinality(above(T)) - Cardinality(below(S))
  BY <1>1 DEF Energy
<1> HIDE DEF above, below
<1>q. QED
  BY <1>3, <1>4

\* No hour of a part of the readings has more than the peak of all of them, but for
\* one from which a negative reading is left out.
LEMMA PeakIn ==
    ASSUME NEW S, IsFiniteSet(S), NEW T \in SUBSET S, NEW n \in Peaks(S)
    PROVE  /\ n \in Int
           /\ \A r \in T : \/ Energy(Bucket(T, Hour(r))) <= n
                         \/ \E q \in S \ T : q.negative /\ Hour(q) = Hour(r)
<1> DEFINE energy(r) == Energy(Bucket(S, Hour(r)))
<1>1. PICK q \in S : n = energy(q) /\ \A p \in S : energy(p) <= energy(q)
  BY DEF Peaks
<1>2. ASSUME NEW r \in S PROVE IsFiniteSet(Bucket(S, Hour(r)))
  BY FS_Subset DEF Bucket
<1>3. n \in Int
  BY <1>1, <1>2, EnergyOfPart
<1>4. ASSUME NEW r \in T, ~ \E p \in S \ T : p.negative /\ Hour(p) = Hour(r)
      PROVE  Energy(Bucket(T, Hour(r))) <= n
  <2>1. Bucket(T, Hour(r)) \in SUBSET Bucket(S, Hour(r))
    BY DEF Bucket
  <2>2. \A p \in Bucket(S, Hour(r)) \ Bucket(T, Hour(r)) : ~p.negative
    BY <1>4 DEF Bucket
  <2>3. IsFiniteSet(Bucket(S, Hour(r)))
    BY <1>2
  <2>4. /\ Energy(Bucket(T, Hour(r))) \in Int /\ energy(r) \in Int
        /\ Energy(Bucket(T, Hour(r))) <= energy(r)
    BY <2>1, <2>2, <2>3, EnergyOfPart
  <2>5. energy(r) <= n
    BY <1>1
  <2> HIDE DEF energy
  <2>q. QED
    BY <1>3, <2>4, <2>5
<1>q. QED
  BY <1>3, <1>4

-----------------------------------------------------------------------------
(* The steps.                                                              *)

LEMMA InitInv == Init => IInv
BY FS_EmptySet DEF Init, IInv, TypeOK, Figures, PeakKnown, CurveKnown,
    UnitsWithinCommunity, Done, Idle

\* Around a dashboard readings come and the clock goes on; its figures stay.
LEMMA AroundInv ==
    ASSUME IInv, UNCHANGED snap, TypeOK', IsFiniteSet(readings'),
           readings \subseteq readings', now <= now'
    PROVE  IInv'
<1>1. now \in Nat /\ now' \in Nat /\ (snap # Idle => snap.end \in Nat /\ snap.start \in Nat)
  BY SnapType, TimeAssumption DEF IInv, TypeOK, Times
<1>2. Counted \subseteq Counted' /\ Before \subseteq Before'
  BY DEF Counted, Before, InScope, InPeriod, InPrevious
<1>3. Figures'
  BY <1>1, <1>2 DEF IInv, Figures
<1>4. PeakKnown'
  BY <1>2 DEF IInv, PeakKnown, Unseen, Bucket, Hour
<1>5. CurveKnown'
  <2>1. SUFFICES ASSUME snap # Idle, snap.at \in {"peak", "previous", "done"},
                        snap.period = "week", now' <= snap.start + CurveSpan
                 PROVE  snap.totals \subseteq snap.curve
    BY DEF CurveKnown
  <2>2. now <= snap.start + CurveSpan
    BY <1>1, <2>1, TimeAssumption
  <2>q. QED
    BY <2>1, <2>2 DEF IInv, CurveKnown
<1>6. UnitsWithinCommunity'
  BY DEF IInv, UnitsWithinCommunity, Done
<1>q. QED
  BY <1>3, <1>4, <1>5, <1>6 DEF IInv

LEMMA IngestInv == ASSUME IInv, NEW r \in Sent, Ingest(r) PROVE IInv'
<1>1. TypeOK'
  <2>1. r \in Reading
    BY SentAssumption
  <2>q. QED
    BY <2>1 DEF IInv, TypeOK, Ingest, Reading
<1>2. IsFiniteSet(readings')
  BY FS_AddElement DEF IInv, Ingest
<1>q. QED
  BY <1>1, <1>2, AroundInv, TimeAssumption DEF Ingest, IInv, TypeOK, Times

LEMMA DeleteUnitsInv == ASSUME IInv, NEW S \in SUBSET units, DeleteUnits(S) PROVE IInv'
<1>1. TypeOK'
  BY DEF IInv, TypeOK, DeleteUnits
<1>q. QED
  BY <1>1, AroundInv, TimeAssumption DEF DeleteUnits, IInv, TypeOK, Times

LEMMA TickInv == ASSUME IInv, Tick PROVE IInv'
<1>1. TypeOK'
  BY TimeAssumption DEF IInv, TypeOK, Tick, Times
<1>q. QED
  BY <1>1, AroundInv, TimeAssumption DEF Tick, IInv, TypeOK, Times

LEMMA StutterInv == ASSUME IInv, UNCHANGED vars PROVE IInv'
<1>1. TypeOK'
  BY DEF IInv, TypeOK, vars
<1>q. QED
  BY <1>1, AroundInv, TimeAssumption DEF vars, IInv, TypeOK, Times

\* A request that ends leaves nothing.
LEMMA EndsInv == ASSUME IInv, Go(Idle) PROVE IInv'
BY DEF IInv, TypeOK, Go, Idle, Figures, PeakKnown, CurveKnown, UnitsWithinCommunity, Done

LEMMA StartInv ==
    ASSUME IInv, NEW scope \in Units \union {Community}, NEW period \in Periods,
           Start(scope, period)
    PROVE  IInv'
<1>1. now \in Times /\ now' = now /\ now \in Nat
  BY TimeAssumption DEF IInv, TypeOK, Start, Times
<1>2. PeriodStart(period, now) \in Times
  BY <1>1, PeriodStartType
<1> DEFINE s == PeriodStart(period, now)
<1>3. s \in Times
  BY <1>2
<1> HIDE DEF s
<1>4. snap' = [at |-> "list", scope |-> scope, period |-> period,
                start |-> s, end |-> now,
                listed |-> {}, todo |-> {}, unit |-> {}, totals |-> {},
                unitPrevious |-> {}, curve |-> {}, peak |-> 0, previous |-> {}]
  BY DEF Start, s
<1>5. snap' \in Snapshot
  BY <1>1, <1>3, <1>4 DEF Snapshot, Steps
<1>6. TypeOK'
  BY <1>5 DEF IInv, TypeOK, Start
<1>7. Figures'
  BY <1>1, <1>4 DEF Figures
<1>8. PeakKnown' /\ CurveKnown' /\ UnitsWithinCommunity'
  BY <1>4 DEF PeakKnown, CurveKnown, UnitsWithinCommunity, Done
<1>q. QED
  BY <1>6, <1>7, <1>8 DEF IInv, Start

\* A query changes no window.
SameWindow ==
    /\ snap'.scope = snap.scope /\ snap'.period = snap.period
    /\ snap'.start = snap.start /\ snap'.end = snap.end
    /\ UNCHANGED <<now, readings, units>>

LEMMA SameFigures ==
    ASSUME SameWindow
    PROVE  Counted' = Counted /\ Before' = Before
BY DEF SameWindow, Counted, Before, InScope, InPeriod, InPrevious

LEMMA ListUnitsInv == ASSUME IInv, ListUnits PROVE IInv'
<1> DEFINE listed == {u \in units : snap.scope \in {Community, u}}
<1>1. CASE Go(Idle)
  BY <1>1, EndsInv
<1>2. CASE Go([snap EXCEPT !.at = "units", !.listed = listed, !.todo = listed])
  <2>1. snap # Idle /\ snap \in Snapshot
    BY SnapType DEF IInv, ListUnits, Idle
  <2>2. snap' = [snap EXCEPT !.at = "units", !.listed = listed, !.todo = listed]
    BY <1>2 DEF Go
  <2>3. snap' \in Snapshot
    BY <2>1, <2>2 DEF Snapshot, Steps, IInv, TypeOK
  <2>4. Figures'
    <3>1. /\ snap'.at = "units" /\ snap'.todo = listed
          /\ snap'.totals = snap.totals /\ snap'.curve = snap.curve
          /\ snap'.unitPrevious = snap.unitPrevious /\ snap'.previous = snap.previous
      BY <2>1, <2>2 DEF Snapshot
    <3>2. SameWindow
      BY <1>2, <2>1, <2>2 DEF Snapshot, Go, SameWindow
    <3>q. QED
      BY <2>1, <3>1, <3>2, SameFigures DEF IInv, Figures, SameWindow
  <2>5. PeakKnown' /\ CurveKnown' /\ UnitsWithinCommunity'
    BY <2>1, <2>2 DEF Snapshot, PeakKnown, CurveKnown, UnitsWithinCommunity, Done
  <2>q. QED
    BY <1>2, <2>3, <2>4, <2>5 DEF IInv, TypeOK, Go
<1>q. QED
  BY <1>1, <1>2 DEF ListUnits

LEMMA UnitTotalsInv == ASSUME IInv, NEW u \in Units, UnitTotals(u) PROVE IInv'
<1> DEFINE compared == snap.period # "all"
           counts == {r \in readings : r.unit = u /\ InPeriod(r)}
<1>1. snap # Idle /\ snap \in Snapshot /\ snap.at = "units" /\ u \in snap.todo
  BY SnapType DEF IInv, UnitTotals, Idle
<1>2. /\ snap' = [snap EXCEPT !.at = IF compared THEN "unit_previous" ELSE "units",
                              !.todo = @ \ {u},
                              !.unit = IF compared THEN {u} ELSE {},
                              !.totals = @ \union counts]
      /\ UNCHANGED <<now, readings, units>>
  BY DEF UnitTotals, Go
<1>3. counts \subseteq Counted
  BY <1>1 DEF IInv, Figures, Counted, InScope
<1>4. SameWindow
  BY <1>1, <1>2 DEF Snapshot, SameWindow
<1>5. TypeOK'
  <2>1. counts \in SUBSET Reading
    BY DEF IInv, TypeOK
  <2> HIDE DEF counts
  <2>q. QED
    BY <1>1, <1>2, <2>1 DEF IInv, TypeOK, Snapshot, Steps
<1> HIDE DEF counts
<1>6. /\ snap'.at = IF compared THEN "unit_previous" ELSE "units"
      /\ snap'.todo \subseteq snap.todo
      /\ snap'.totals = snap.totals \union counts /\ snap'.curve = snap.curve
      /\ snap'.unitPrevious = snap.unitPrevious /\ snap'.previous = snap.previous
  BY <1>1, <1>2 DEF Snapshot
<1>7. Figures'
  BY <1>1, <1>3, <1>4, <1>6, SameFigures DEF IInv, Figures, SameWindow
<1>8. PeakKnown' /\ CurveKnown' /\ UnitsWithinCommunity'
  BY <1>6 DEF PeakKnown, CurveKnown, UnitsWithinCommunity, Done
<1>q. QED
  BY <1>2, <1>5, <1>7, <1>8 DEF IInv

LEMMA UnitPreviousInv == ASSUME IInv, UnitPrevious PROVE IInv'
<1> DEFINE counts == {r \in readings : r.unit \in snap.unit /\ InPrevious(r)}
<1>1. snap # Idle /\ snap \in Snapshot /\ snap.at = "unit_previous"
  BY SnapType DEF IInv, UnitPrevious, Idle
<1>2. /\ snap' = [snap EXCEPT !.at = "units", !.unit = {},
                              !.unitPrevious = @ \union counts]
      /\ UNCHANGED <<now, readings, units>>
  BY DEF UnitPrevious, Go
<1>3. counts \subseteq Before
  BY <1>1 DEF IInv, Figures, Before
<1>4. SameWindow
  BY <1>1, <1>2 DEF Snapshot, SameWindow
<1>5. TypeOK'
  <2>1. counts \in SUBSET Reading
    BY DEF IInv, TypeOK
  <2> HIDE DEF counts
  <2>q. QED
    BY <1>1, <1>2, <2>1 DEF IInv, TypeOK, Snapshot, Steps
<1> HIDE DEF counts
<1>6. /\ snap'.at = "units" /\ snap'.todo = snap.todo
      /\ snap'.totals = snap.totals /\ snap'.curve = snap.curve
      /\ snap'.unitPrevious = snap.unitPrevious \union counts
      /\ snap'.previous = snap.previous
  BY <1>1, <1>2 DEF Snapshot
<1>7. Figures'
  BY <1>1, <1>3, <1>4, <1>6, SameFigures DEF IInv, Figures, SameWindow
<1>8. PeakKnown' /\ CurveKnown' /\ UnitsWithinCommunity'
  BY <1>6 DEF PeakKnown, CurveKnown, UnitsWithinCommunity, Done
<1>q. QED
  BY <1>2, <1>5, <1>7, <1>8 DEF IInv

\* The curve lies inside the period, and holds the week's totals while it lasts.
LEMMA LoadCurveInv == ASSUME IInv, LoadCurve PROVE IInv'
<1> DEFINE curve == {r \in readings : InScope(r) /\ CurveStart <= r.time /\ r.time <= CurveEnd}
<1>1. snap # Idle /\ snap \in Snapshot /\ snap.at = "units"
  BY SnapType DEF IInv, LoadCurve, Idle
<1>2. /\ snap' = [snap EXCEPT !.at = "peak", !.curve = curve]
      /\ UNCHANGED <<now, readings, units>>
  BY DEF LoadCurve, Go
<1>3. curve \subseteq Counted
  <2>1. CASE snap.period = "all"
    BY <2>1 DEF Counted, InPeriod
  <2>2. CASE snap.period # "all"
    <3>1. snap.start <= CurveStart /\ CurveEnd = snap.end /\ CurveStart \in Int
      BY <1>1, <2>2, CurveWindow, SnapType, TimeAssumption
         DEF IInv, Figures, CurveStart, Larger
    <3>2. ASSUME NEW r \in curve PROVE InPeriod(r)
      <4>1. r.time \in Nat /\ CurveStart <= r.time /\ r.time <= CurveEnd
        BY <1>1, SnapType, ReadingTime DEF IInv
      <4>q. QED
        BY <1>1, <3>1, <4>1, SnapType DEF IInv, InPeriod
    <3>q. QED
      BY <3>2 DEF Counted
  <2>q. QED
    BY <2>1, <2>2
<1>4. ASSUME snap.period = "week", now <= snap.start + CurveSpan
      PROVE  snap.totals \subseteq curve
  <2>1. CurveStart = snap.start /\ CurveEnd = snap.end
    BY <1>1, <1>4, CurveWindow DEF IInv, Figures
  <2>2. Counted \subseteq curve
    BY <1>4, <2>1 DEF Counted, InPeriod
  <2>q. QED
    BY <1>1, <2>2 DEF IInv, Figures
<1>5. SameWindow
  BY <1>1, <1>2 DEF Snapshot, SameWindow
<1>6. TypeOK'
  <2>1. curve \in SUBSET Reading
    BY DEF IInv, TypeOK
  <2> HIDE DEF curve
  <2>q. QED
    BY <1>1, <1>2, <2>1 DEF IInv, TypeOK, Snapshot, Steps
<1> HIDE DEF curve
<1>7. /\ snap'.at = "peak" /\ snap'.todo = snap.todo
      /\ snap'.totals = snap.totals /\ snap'.curve = curve
      /\ snap'.unitPrevious = snap.unitPrevious /\ snap'.previous = snap.previous
  BY <1>1, <1>2 DEF Snapshot
<1>8. Figures'
  BY <1>1, <1>3, <1>5, <1>7, SameFigures DEF IInv, Figures, SameWindow
<1>9. CurveKnown'
  BY <1>4, <1>5, <1>7 DEF CurveKnown, SameWindow
<1>10. PeakKnown' /\ UnitsWithinCommunity'
  BY <1>7 DEF PeakKnown, UnitsWithinCommunity, Done
<1>q. QED
  BY <1>2, <1>6, <1>8, <1>9, <1>10 DEF IInv

\* The readings of the peak's query include those of the curve.
LEMMA PeakRiskInv == ASSUME IInv, PeakRisk PROVE IInv'
<1> DEFINE next == IF snap.scope = Community /\ snap.period # "all" THEN "previous" ELSE "done"
<1>1. snap # Idle /\ snap \in Snapshot /\ snap.at = "peak"
  <2>1. snap.at = "peak"
    BY DEF PeakRisk
  <2>q. QED
    BY <2>1, SnapType DEF IInv, Idle
<1>2. snap.curve \subseteq Counted /\ IsFiniteSet(Counted)
  BY <1>1, FS_Subset DEF IInv, Figures, Counted
<1> DEFINE Dominates(n) ==
             \A r \in snap.curve :
                Energy(Bucket(snap.curve, Hour(r))) <= n \/ Unseen(Counted, r)
<1>3. PICK n \in Int :
        /\ snap' = [snap EXCEPT !.at = next, !.peak = n]
        /\ UNCHANGED <<now, readings, units>>
        /\ Dominates(n)
  <2>1. CASE Counted = {} /\ Go([snap EXCEPT !.at = next])
    <3>1. [snap EXCEPT !.at = next] = [snap EXCEPT !.at = next, !.peak = snap.peak]
      BY <1>1 DEF Snapshot
    <3>2. snap.peak \in Int
      BY <1>1 DEF Snapshot
    <3>q. QED
      BY <1>2, <2>1, <3>1, <3>2 DEF Go
  <2>2. ASSUME NEW n \in Peaks(Counted), Go([snap EXCEPT !.at = next, !.peak = n])
        PROVE  /\ n \in Int
               /\ snap' = [snap EXCEPT !.at = next, !.peak = n]
               /\ UNCHANGED <<now, readings, units>>
               /\ Dominates(n)
    <3>1. n \in Int /\ Dominates(n)
      BY <1>2, <2>2, PeakIn DEF Unseen
    <3>q. QED
      BY <2>2, <3>1 DEF Go
  <2>3. \/ Counted = {} /\ Go([snap EXCEPT !.at = next])
        \/ \E n \in Peaks(Counted) : Go([snap EXCEPT !.at = next, !.peak = n])
    BY DEF PeakRisk, Counted
  <2>q. QED
    BY <2>1, <2>2, <2>3
<1>4. next \in Steps /\ next \in {"previous", "done"}
  BY DEF Steps
<1>5. TypeOK'
  <2> HIDE DEF next
  <2>q. QED
    BY <1>1, <1>3, <1>4 DEF IInv, TypeOK, Snapshot
<1>6. SameWindow
  BY <1>1, <1>3 DEF Snapshot, SameWindow
<1>7. /\ snap'.at = next /\ snap'.todo = snap.todo /\ snap'.peak = n
      /\ snap'.totals = snap.totals /\ snap'.curve = snap.curve
      /\ snap'.unitPrevious = snap.unitPrevious /\ snap'.previous = snap.previous
  BY <1>1, <1>3 DEF Snapshot
<1>8. Figures'
  BY <1>1, <1>6, <1>7, SameFigures DEF IInv, Figures, SameWindow
<1>9. PeakKnown'
  BY <1>3, <1>6, <1>7, SameFigures DEF PeakKnown, Unseen, Bucket, Hour
<1>10. CurveKnown'
  BY <1>1, <1>6, <1>7 DEF IInv, CurveKnown, SameWindow
<1>11. UnitsWithinCommunity'
  \* Done with a community only when it compares with no previous period.
  <2>1. snap'.at = "done" /\ snap'.scope = Community => snap.period = "all"
    BY <1>6, <1>7 DEF SameWindow
  <2>2. snap.period = "all" => snap.unitPrevious = {}
    BY <1>1 DEF IInv, Figures, Before
  <2>q. QED
    BY <1>7, <2>1, <2>2 DEF UnitsWithinCommunity, Done
<1>q. QED
  BY <1>3, <1>5, <1>8, <1>9, <1>10, <1>11 DEF IInv

\* Nothing the units' previous periods counted is gone.
LEMMA CommunityPreviousInv == ASSUME IInv, CommunityPrevious PROVE IInv'
<1> DEFINE counts == {r \in readings : InPrevious(r)}
<1>1. snap # Idle /\ snap \in Snapshot /\ snap.at = "previous"
  BY SnapType DEF IInv, CommunityPrevious, Idle
<1>2. /\ snap' = [snap EXCEPT !.at = "done", !.previous = counts]
      /\ UNCHANGED <<now, readings, units>>
  BY DEF CommunityPrevious, Go
<1>3. counts = Before
  BY <1>1 DEF IInv, Figures, Before
<1>4. SameWindow
  BY <1>1, <1>2 DEF Snapshot, SameWindow
<1>5. TypeOK'
  <2>1. counts \in SUBSET Reading
    BY DEF IInv, TypeOK
  <2> HIDE DEF counts
  <2>q. QED
    BY <1>1, <1>2, <2>1 DEF IInv, TypeOK, Snapshot, Steps
<1> HIDE DEF counts
<1>6. /\ snap'.at = "done" /\ snap'.todo = snap.todo /\ snap'.peak = snap.peak
      /\ snap'.totals = snap.totals /\ snap'.curve = snap.curve
      /\ snap'.unitPrevious = snap.unitPrevious /\ snap'.previous = counts
  BY <1>1, <1>2 DEF Snapshot
<1>7. Figures'
  BY <1>1, <1>3, <1>4, <1>6, SameFigures DEF IInv, Figures, SameWindow
<1>8. PeakKnown' /\ CurveKnown'
  BY <1>1, <1>4, <1>6, SameFigures
     DEF IInv, PeakKnown, Unseen, CurveKnown, SameWindow, Bucket, Hour
<1>9. UnitsWithinCommunity'
  BY <1>1, <1>3, <1>6 DEF IInv, Figures, UnitsWithinCommunity, Done
<1>q. QED
  BY <1>2, <1>5, <1>7, <1>8, <1>9 DEF IInv

-----------------------------------------------------------------------------
(* The theorems.                                                           *)

\* The inductive invariant holds in every reachable state.
THEOREM DashboardsInductive == Spec => []IInv
<1>1. ASSUME IInv, [Next]_vars PROVE IInv'
  <2>1. CASE \E r \in Sent : Ingest(r)
    BY <1>1, <2>1, IngestInv
  <2>2. CASE \E S \in SUBSET units \ {{}} : DeleteUnits(S)
    BY <1>1, <2>2, DeleteUnitsInv
  <2>3. CASE Tick
    BY <1>1, <2>3, TickInv
  <2>4. CASE \E scope \in Units \union {Community}, period \in Periods : Start(scope, period)
    BY <1>1, <2>4, StartInv
  <2>5. CASE ListUnits
    BY <1>1, <2>5, ListUnitsInv
  <2>6. CASE \E u \in Units : UnitTotals(u)
    BY <1>1, <2>6, UnitTotalsInv
  <2>7. CASE UnitPrevious
    BY <1>1, <2>7, UnitPreviousInv
  <2>8. CASE LoadCurve
    BY <1>1, <2>8, LoadCurveInv
  <2>9. CASE PeakRisk
    BY <1>1, <2>9, PeakRiskInv
  <2>10. CASE CommunityPrevious
    BY <1>1, <2>10, CommunityPreviousInv
  <2>11. CASE Return
    BY <1>1, <2>11, EndsInv DEF Return
  <2>12. CASE UNCHANGED vars
    BY <1>1, <2>12, StutterInv
  <2>q. QED
    BY <1>1, <2>1, <2>2, <2>3, <2>4, <2>5, <2>6, <2>7, <2>8, <2>9, <2>10, <2>11, <2>12
       DEF Next, Build
<1>q. QED
  BY InitInv, <1>1, PTL DEF Spec

\* Type correctness: the windows of every dashboard are moments of the calendar.
THEOREM DashboardsTypeCorrect == Spec => []TypeOK
<1>1. IInv => TypeOK
  BY DEF IInv
<1>q. QED
  BY <1>1, DashboardsInductive, PTL

\* No reading counts in a period and in the one it is compared with.
THEOREM CountedOnceHolds == Spec => []CountedOnce
<1>1. ASSUME IInv PROVE CountedOnce
  <2>1. SUFFICES ASSUME Done, NEW r \in Counted, r \in Before PROVE FALSE
    BY <1>1 DEF CountedOnce, IInv, Figures, Done
  <2>2. r.time \in Nat /\ snap.start \in Nat
    BY <1>1, <2>1, SnapType, ReadingTime DEF IInv, Done, Counted
  <2>q. QED
    BY <2>1, <2>2 DEF Counted, Before, InPeriod, InPrevious
<1>q. QED
  BY <1>1, DashboardsInductive, PTL

\* No hour of a load curve is above its dashboard's peak, but for one of which the
\* curve did not count a negative reading.
THEOREM PeakUnlessNegativeHolds == Spec => []PeakUnlessNegative
<1>1. IInv => PeakUnlessNegative
  BY DEF IInv, PeakKnown, Unseen, Counted, PeakUnlessNegative, Done
<1>q. QED
  BY <1>1, DashboardsInductive, PTL

\* While a week lasts, its load curve shows all its totals count.
THEOREM WeekInCurveUnlessLateHolds == Spec => []WeekInCurveUnlessLate
<1>1. IInv => WeekInCurveUnlessLate
  BY DEF IInv, CurveKnown, WeekInCurveUnlessLate, Done
<1>q. QED
  BY <1>1, DashboardsInductive, PTL

\* The previous periods of the units are part of the community's.
THEOREM UnitsWithinCommunityHolds == Spec => []UnitsWithinCommunity
<1>1. IInv => UnitsWithinCommunity
  BY DEF IInv
<1>q. QED
  BY <1>1, DashboardsInductive, PTL

-----------------------------------------------------------------------------
(* Reports.                                                                *)

\* A moment is in the month whose report reaches it.
LEMMA InMonth ==
    ASSUME NEW month \in MonthStarts, NEW t \in Times
    PROVE  Latest(MonthStarts, t) = month <=> month <= t /\ t <= PeriodEnd(month)
<1> DEFINE l == Latest(MonthStarts, t)
           F == FollowingMonths(month)
<1>1. /\ t \in Nat /\ t <= MaxTime /\ MaxTime \in Nat
      /\ MonthStarts \in SUBSET Nat /\ 0 \in MonthStarts /\ month \in Nat
  BY TimeAssumption DEF Times
<1>2. l \in MonthStarts /\ l <= t /\ \A q \in MonthStarts : q <= t => q <= l
  BY <1>1, LatestIn, Zenon
<1> HIDE DEF l
<1>3. CASE F = {}
  <2>1. PeriodEnd(month) = MaxTime
    BY <1>3 DEF PeriodEnd
  <2>2. l <= month
    BY <1>1, <1>2, <1>3 DEF FollowingMonths
  <2>3. l = month <=> month <= t
    BY <1>1, <1>2, <2>2
  <2>q. QED
    BY <1>1, <2>1, <2>3 DEF l
<1>4. CASE F # {}
  <2> DEFINE next == CHOOSE m \in F : \A q \in F : m <= q
  <2>1. F \in SUBSET Nat
    BY <1>1 DEF FollowingMonths
  <2>2. next \in F /\ \A q \in F : next <= q
    BY <1>4, <2>1, SomeLeast, Zenon
  <2>3. PeriodEnd(month) = next - 1
    BY <1>4 DEF PeriodEnd
  <2> HIDE DEF next
  <2>4. next \in MonthStarts /\ next \in Nat /\ month < next
    BY <1>1, <2>2 DEF FollowingMonths
  <2>5. \A q \in MonthStarts : q > month => next <= q
    BY <2>2 DEF FollowingMonths
  <2>6. l = month => month <= t /\ t < next
    BY <1>1, <1>2, <2>4
  <2>7. month <= t /\ t < next => l = month
    BY <1>1, <1>2, <2>4, <2>5
  <2>8. t < next <=> t <= PeriodEnd(month)
    BY <1>1, <2>3, <2>4
  <2>q. QED
    BY <2>6, <2>7, <2>8 DEF l
<1>q. QED
  BY <1>3, <1>4

\* The history of months and the report of a month count the same readings.
THEOREM MonthsAgreeHolds == Spec => []MonthsAgree
<1>1. ASSUME TypeOK PROVE MonthsAgree
  <2>1. SUFFICES ASSUME NEW month \in MonthStarts, NEW r \in readings
                 PROVE  Latest(MonthStarts, r.time) = month
                           <=> month <= r.time /\ r.time <= PeriodEnd(month)
    BY DEF MonthsAgree, HistoryRow, MonthReport
  <2>2. r.time \in Times
    BY <1>1 DEF TypeOK, Reading
  <2>q. QED
    BY <2>1, <2>2, InMonth
<1>q. QED
  BY <1>1, DashboardsTypeCorrect, PTL

\* Midnight of the first day of a series that is a week long, asked in the week
\* that begins on Monday, is not after Monday's.
LEMMA MidnightBefore ==
    ASSUME now \in Nat, NEW monday \in Nat, NEW days \in Nat \ {0},
           now < monday + days * DayLength, monday % DayLength = 0
    PROVE  DaysStart(days) <= monday /\ DaysStart(days) \in Int
<1> DEFINE D == DayLength
           first == now - (days - 1) * D
<1>1. D \in Nat \ {0}
  BY TimeAssumption
<1>2. days * D \in Nat /\ (days - 1) * D = days * D - D
  BY <1>1
<1>3. first \in Int /\ first < monday + D
  BY <1>1, <1>2
<1>4. /\ first = D * (first \div D) + (first % D)
      /\ first % D \in 0..(D - 1) /\ first \div D \in Int
  <2> HIDE DEF first, D
  <2>q. QED
    BY <1>1, <1>3
<1>5. monday = D * (monday \div D) /\ monday \div D \in Int
  BY <1>1
<1> DEFINE f == first \div D
           m == monday \div D
<1>6. f <= m
  <2>1. D * f <= first
    BY <1>3, <1>4, <1>1
  <2>2. D * f < D * m + D
    BY <2>1, <1>1, <1>3, <1>5, <1>4
  <2> HIDE DEF f, m, D
  <2>q. QED
    BY <2>2, <1>1, <1>4, <1>5 DEF f, m
<1>7. D * f <= D * m
  <2> HIDE DEF f, m, D
  <2>q. QED
    BY <1>1, <1>4, <1>5, <1>6 DEF f, m
<1>8. DaysStart(days) = first - (first % D)
  BY DEF DaysStart
<1> HIDE DEF first, D
<1>q. QED
  BY <1>1, <1>3, <1>4, <1>5, <1>7, <1>8

\* A daily series that is a week long begins no later than the week, so a unit's counts
\* what its week's totals count, and a community's that and readings of deleted units.
THEOREM DailyAgreesHolds == Spec => []DailyAgrees
<1>1. ASSUME TypeOK PROVE DailyAgrees
  <2> DEFINE monday == Latest(WeekStarts, now)
  <2>1. now \in Times /\ now \in Nat /\ readings \subseteq Reading
    BY <1>1, TimeAssumption DEF TypeOK, Times
  <2>2. /\ monday \in WeekStarts /\ monday \in Nat /\ monday % DayLength = 0
        /\ \A q \in WeekStarts : q <= now => q <= monday
    <3>1. WeekStarts \in SUBSET Nat /\ 0 \in WeekStarts
      BY TimeAssumption
    <3>2. monday \in WeekStarts /\ \A q \in WeekStarts : q <= now => q <= monday
      BY <2>1, <3>1, LatestIn, Zenon
    <3> HIDE DEF monday
    <3>q. QED
      BY <3>1, <3>2, TimeAssumption
  <2>3. PICK s \in WeekStarts : s <= now /\ now < s + CurveSpan
    BY <2>1, WeekAssumption
  <2>4. now < monday + CurveSpan
    <3> HIDE DEF monday
    <3>q. QED
      BY <2>1, <2>2, <2>3, TimeAssumption
  <2>5. ASSUME NEW days \in 1..CurveSpan, days * DayLength >= CurveSpan
        PROVE  \A S \in SUBSET readings : DailySeries(days, S) = WeekTotal(S)
    <3>1. days \in Nat \ {0} /\ days * DayLength \in Nat
      BY TimeAssumption
    <3>2. now < monday + days * DayLength
      <4> HIDE DEF monday
      <4>q. QED
        BY <2>1, <2>2, <2>4, <2>5, <3>1, TimeAssumption
    <3>3. DaysStart(days) <= monday /\ DaysStart(days) \in Int
      <4> HIDE DEF monday
      <4>q. QED
        BY <2>1, <2>2, <3>1, <3>2, MidnightBefore
    <3>4. Larger(DaysStart(days), monday) = monday
      <4> HIDE DEF monday
      <4>q. QED
        BY <2>2, <3>3 DEF Larger
    <3>q. QED
      BY <3>4 DEF DailySeries, WeekTotal
  <2>6. ASSUME NEW days \in 1..CurveSpan, days * DayLength >= CurveSpan
        PROVE  /\ \A u \in units : DailySeries(days, OfUnit(u)) = WeekTotal(OfUnit(u))
               /\ CommunityWeek \subseteq CommunitySeries(days)
               /\ \A r \in CommunitySeries(days) \ CommunityWeek : r.unit \notin units
    <3>1. \A u : OfUnit(u) \in SUBSET readings
      BY DEF OfUnit
    <3>2. CommunitySeries(days) = WeekTotal(readings)
      BY <2>5, <2>6 DEF CommunitySeries
    <3>3. \A r : r \in CommunityWeek <=> r \in WeekTotal(readings) /\ r.unit \in units
      BY DEF CommunityWeek, WeekTotal, OfUnit
    <3>q. QED
      BY <2>5, <2>6, <3>1, <3>2, <3>3
  <2>q. QED
    BY <2>6 DEF DailyAgrees
<1>q. QED
  BY <1>1, DashboardsTypeCorrect, PTL

=============================================================================

---------------------------- MODULE AIRuns_proofs ----------------------------
(***************************************************************************)
(* Proofs about the runs of the AI analysis, for every set of communities, *)
(* readings and request threads, every number of runs and of retries.      *)
(***************************************************************************)
EXTENDS AIRuns, TLAPS, WellFoundedInduction, FiniteSetTheorems

-----------------------------------------------------------------------------
(* The inductive invariant.                                                *)

\* Some hour is the last that has readings.
Bounded == \A c \in Communities : \E n \in Nat : hours[c] \subseteq 1..n

\* No two threads work on the same run, and every row is of a run begun.
Numbered ==
    /\ \A w \in Workers : worker[w] # Idle => worker[w].run <= begun
    /\ \A v, w \in Workers :
          v # w /\ worker[v] # Idle /\ worker[w] # Idle
              => worker[v].run # worker[w].run
    /\ \A c \in Communities : \A i \in 1..Len(rows[c]) : rows[c][i].run <= begun

\* The communities a run has not stored a row of.
ToCome(work) ==
    IF work.at = "list" THEN Communities
    ELSE IF work.at = "snapshot" THEN work.rest \union {work.community}
    ELSE work.rest

Untouched ==
    \A w \in Workers : worker[w] # Idle =>
        \A c \in ToCome(worker[w]) : RowsOf(c, worker[w].run) = {}

LastAnswer(c, run) ==
    IF SuccessesOf(c, run) = {} THEN NoAnswer
    ELSE rows[c][Greatest(SuccessesOf(c, run))].result

\* What is done of the community at hand, and what is left to do.
Halfway(c, work) ==
    /\ work.todo \subseteq work.payloads
    /\ {rows[c][i].hour : i \in RowsOf(c, work.run)} = work.payloads \ work.todo
    /\ \A i \in RowsOf(c, work.run), h \in work.todo : rows[c][i].hour < h
    /\ work.last = LastAnswer(c, work.run)

InPlace(work) ==
    /\ work.at \in {"list", "snapshot"} => work.last = NoAnswer
    /\ work.at \in {"snapshot", "analyze", "answer"} =>
          work.community \in Communities \ work.rest
    /\ work.at \in {"analyze", "answer"} => Halfway(work.community, work)
    /\ work.at = "analyze" => work.todo # {}
    /\ work.at = "answer" => work.todo = {}

AtHand == \A w \in Workers : worker[w] # Idle => InPlace(worker[w])

\* A request inside get_status has read a row that is there.
HasRead ==
    reader # NotReading => reader.last <= Len(rows[reader.community])

IInv == /\ TypeOK /\ Bounded /\ Numbered /\ Untouched /\ AtHand
        /\ OldestFirst /\ FallbackWithinRun /\ HasRead

-----------------------------------------------------------------------------
(* The least and the greatest of a set of numbers.                         *)

LEMMA LeastIn ==
    ASSUME NEW S \in SUBSET Nat, S # {}
    PROVE  Least(S) \in S /\ \A y \in S : Least(S) <= y
<1> DEFINE R == {p \in Nat \X Nat : p[1] < p[2]}
<1>1. IsWellFoundedOn(R, Nat)
  BY NatLessThanWellFounded DEF OpToRel
<1>2. PICK x \in S : \A y \in S : ~(<<y, x>> \in R)
  BY <1>1, WFMin, Zenon
<1>3. ASSUME NEW y \in S PROVE x <= y
  <2>1. x \in Nat /\ y \in Nat
    OBVIOUS
  <2>2. ~(y < x)
    BY <1>2, <2>1
  <2>q. QED
    BY <2>1, <2>2
<1>q. QED
  BY <1>3 DEF Least

LEMMA GreatestIn ==
    ASSUME NEW n \in Nat, NEW S \in SUBSET (1..n), S # {}
    PROVE  Greatest(S) \in S /\ \A y \in S : y <= Greatest(S)
<1> DEFINE D == {n - x : x \in S}
<1>1. D \in SUBSET Nat /\ D # {}
  <2>1. ASSUME NEW x \in S PROVE n - x \in Nat
    OBVIOUS
  <2>q. QED
    BY <2>1
<1>2. Least(D) \in D /\ \A y \in D : Least(D) <= y
  BY <1>1, LeastIn, Zenon
<1>3. PICK x \in S : Least(D) = n - x
  BY <1>2
<1>4. ASSUME NEW y \in S PROVE y <= x
  <2>1. n - x <= n - y
    BY <1>2, <1>3
  <2>q. QED
    BY <2>1
<1>q. QED
  BY <1>3, <1>4 DEF Greatest

\* Nothing is greater than the end of an interval it belongs to.
LEMMA GreatestEnd ==
    ASSUME NEW n \in Nat, NEW S \in SUBSET (1..n), n \in S
    PROVE  Greatest(S) = n
<1> DEFINE g == Greatest(S)
<1>1. g \in S /\ n <= g
  BY GreatestIn, Zenon
<1> HIDE DEF g
<1>2. g = n
  BY <1>1
<1>q. QED
  BY <1>2 DEF g

\* A community that has readings has a newest hour.
LEMMA NewestNotEmpty ==
    ASSUME TypeOK, Bounded, NEW c \in Communities, hours[c] # {},
           NEW n \in Nat \ {0}
    PROVE  Newest(c, n) # {} /\ Newest(c, n) \subseteq hours[c]
<1>1. PICK m \in Nat : hours[c] \subseteq 1..m
  BY DEF Bounded
<1> DEFINE top == Greatest(hours[c])
<1>2. top \in hours[c] /\ \A g \in hours[c] : g <= top
  BY <1>1, GreatestIn, Zenon
<1>3. {g \in hours[c] : g > top} = {}
  BY <1>1, <1>2
<1>4. Cardinality({g \in hours[c] : g > top}) = 0
  BY <1>3, FS_EmptySet, Zenon
<1>5. top \in Newest(c, n)
  BY <1>2, <1>4 DEF Newest
<1>q. QED
  BY <1>5 DEF Newest

-----------------------------------------------------------------------------
(* Facts about threads and rows.                                           *)

LEMMA WorkerType ==
    ASSUME TypeOK, NEW w \in Workers
    PROVE  /\ worker[w] # Idle => worker[w] \in Busy
           /\ worker[w].at \in Steps => worker[w] # Idle
<1>1. worker[w] \in Busy \union {Idle}
  BY DEF TypeOK
<1>2. Idle.at \notin Steps
  BY DEF Idle, Steps
<1>q. QED
  BY <1>1, <1>2

\* The next of the communities left is one of them, and leaves the others.
LEMMA RunFirstType ==
    ASSUME NEW work \in Busy, NEW left \in SUBSET Communities, left # {}
    PROVE  LET next == RunFirst(work, left)
           IN  /\ next \in Busy
               /\ next.at = "snapshot"
               /\ next.run = work.run
               /\ next.last = work.last
               /\ next.community \in left \ next.rest
               /\ next.rest \subseteq left
<1> DEFINE first == Least(left)
<1>1. first \in left
  BY LeastIn, RunsAssumption, Zenon
<1> HIDE DEF first
<1>2. RunFirst(work, left) =
        [work EXCEPT !.at = "snapshot", !.community = first, !.rest = left \ {first}]
  BY Zenon DEF RunFirst, first
<1>3. [work EXCEPT !.at = "snapshot", !.community = first, !.rest = left \ {first}]
        \in Busy
  BY <1>1 DEF Busy, Steps
<1>q. QED
  BY <1>1, <1>2, <1>3 DEF Busy

LEMMA Appended ==
    ASSUME TypeOK, NEW c \in Communities, NEW row \in Rows,
           rows' = [rows EXCEPT ![c] = Append(@, row)]
    PROVE  /\ rows' \in [Communities -> Seq(Rows)]
           /\ Len(rows[c]) \in Nat
           /\ Len(rows'[c]) = Len(rows[c]) + 1
           /\ rows'[c][Len(rows[c]) + 1] = row
           /\ \A i \in 1..Len(rows[c]) : rows'[c][i] = rows[c][i]
           /\ \A d \in Communities \ {c} : rows'[d] = rows[d]
<1>1. rows \in [Communities -> Seq(Rows)] /\ rows[c] \in Seq(Rows)
  BY DEF TypeOK
<1>2. rows'[c] = Append(rows[c], row)
  BY <1>1
<1>q. QED
  BY <1>1, <1>2

\* A row appended is in no other run, and in no other community.
LEMMA AppendedElsewhere ==
    ASSUME TypeOK, NEW c \in Communities, NEW row \in Rows,
           rows' = [rows EXCEPT ![c] = Append(@, row)],
           NEW d \in Communities, NEW run \in Runs, d # c \/ run # row.run
    PROVE  /\ RowsOf(d, run)' = RowsOf(d, run)
           /\ SuccessesOf(d, run)' = SuccessesOf(d, run)
<1>1. CASE d # c
  <2>1. rows'[d] = rows[d]
    BY <1>1, Appended
  <2>q. QED
    BY <2>1 DEF RowsOf, SuccessesOf, Successes
<1>2. CASE d = c /\ run # row.run
  <2>1. RowsOf(c, run)' = RowsOf(c, run)
    BY <1>2, Appended DEF RowsOf
  <2>2. ASSUME NEW i \in RowsOf(c, run)
        PROVE  i \in Successes(c)' <=> i \in Successes(c)
    BY <2>2, Appended DEF RowsOf, Successes
  <2>q. QED
    BY <1>2, <2>1, <2>2 DEF SuccessesOf
<1>q. QED
  BY <1>1, <1>2

LEMMA AppendedHere ==
    ASSUME TypeOK, NEW c \in Communities, NEW row \in Rows,
           rows' = [rows EXCEPT ![c] = Append(@, row)]
    PROVE  LET end == Len(rows[c]) + 1
           IN  /\ RowsOf(c, row.run)' = RowsOf(c, row.run) \union {end}
               /\ SuccessesOf(c, row.run)' =
                      IF row.status = "success"
                      THEN SuccessesOf(c, row.run) \union {end}
                      ELSE SuccessesOf(c, row.run)
<1> DEFINE end == Len(rows[c]) + 1
<1>0. /\ 1..Len(rows'[c]) = 1..Len(rows[c]) \union {end}
      /\ end \notin 1..Len(rows[c])
      /\ rows'[c][end] = row
      /\ \A i \in 1..Len(rows[c]) : rows'[c][i] = rows[c][i]
  <2>1. Len(rows[c]) \in Nat /\ Len(rows'[c]) = end
    BY Appended
  <2>2. /\ 1..end = 1..Len(rows[c]) \union {end}
        /\ end \notin 1..Len(rows[c])
    BY <2>1
  <2>3. /\ rows'[c][end] = row
        /\ \A i \in 1..Len(rows[c]) : rows'[c][i] = rows[c][i]
    BY Appended, Zenon
  <2>q. QED
    BY <2>1, <2>2, <2>3
<1> HIDE DEF end
<1>1. RowsOf(c, row.run)' = RowsOf(c, row.run) \union {end}
  BY <1>0 DEF RowsOf
<1>2. Successes(c)' = IF row.status = "success" THEN Successes(c) \union {end}
                      ELSE Successes(c)
  BY <1>0 DEF Successes
<1>3. end \notin RowsOf(c, row.run) /\ end \notin Successes(c)
  BY <1>0 DEF RowsOf, Successes
<1> USE DEF end
<1>q. QED
  BY <1>1, <1>2, <1>3, Zenon DEF SuccessesOf

\* The last answer of a run is that of its last success.
LEMMA AppendedAnswer ==
    ASSUME TypeOK, NEW c \in Communities, NEW row \in Rows,
           rows' = [rows EXCEPT ![c] = Append(@, row)],
           NEW d \in Communities, NEW run \in Runs
    PROVE  LastAnswer(d, run)' =
               IF d = c /\ run = row.run /\ row.status = "success" THEN row.result
               ELSE LastAnswer(d, run)
<1> DEFINE S == SuccessesOf(d, run)
           end == Len(rows[c]) + 1
<1>1. S \in SUBSET (1..Len(rows[d])) /\ Len(rows[d]) \in Nat
  BY DEF SuccessesOf, RowsOf, TypeOK
<1>2. \A i \in 1..Len(rows[d]) : rows'[d][i] = rows[d][i]
  BY Appended
<1>0. LastAnswer(d, run)' =
        IF SuccessesOf(d, run)' = {} THEN NoAnswer
        ELSE rows'[d][Greatest(SuccessesOf(d, run)')].result
  BY DEF LastAnswer
<1>3. CASE d = c /\ run = row.run /\ row.status = "success"
  <2>1. SuccessesOf(d, run)' = S \union {end}
    BY <1>3, AppendedHere
  <2>2. end \in Nat /\ S \union {end} \in SUBSET (1..end)
    BY <1>1, <1>3
  <2>3. Greatest(S \union {end}) = end
    BY <2>2, GreatestEnd, Zenon
  <2>4. rows'[c][end] = row
    BY Appended, Zenon
  <2>q. QED
    BY <1>0, <1>3, <2>1, <2>3, <2>4
<1>4. CASE ~(d = c /\ run = row.run /\ row.status = "success")
  <2>1. SuccessesOf(d, run)' = S
    BY <1>4, AppendedHere, AppendedElsewhere
  <2>2. S # {} => Greatest(S) \in 1..Len(rows[d])
    BY <1>1, GreatestIn
  <2>q. QED
    BY <1>0, <1>2, <1>4, <2>1, <2>2 DEF LastAnswer
<1>q. QED
  BY <1>3, <1>4

\* What BuildSnapshots takes: at least one hour.
LEMMA SnapshotsTaken ==
    ASSUME IInv, NEW w \in Workers, BuildSnapshots(w)
    PROVE  LET taken == Buckets(w, worker[w].community)
           IN  /\ taken # {}
               /\ taken \in SUBSET Hours
               /\ worker[w] \in Busy
               /\ worker[w] # Idle
               /\ worker[w].community \in Communities \ worker[w].rest
<1> USE DEF IInv
<1>1. worker[w] \in Busy /\ worker[w] # Idle
  BY WorkerType DEF BuildSnapshots, Steps
<1>2. worker[w].community \in Communities \ worker[w].rest
  BY <1>1 DEF AtHand, InPlace, BuildSnapshots
<1> DEFINE c == worker[w].community
           n == IF w = Scheduler THEN 1 ELSE ManualHours
<1>3. n \in Nat \ {0}
  BY RunsAssumption
<1>4. hours[c] # {} /\ hours[c] \in SUBSET Hours
  BY <1>2 DEF BuildSnapshots, HasSnapshots, TypeOK
<1>5. Newest(c, n) # {} /\ Newest(c, n) \subseteq hours[c]
  BY <1>2, <1>3, <1>4, NewestNotEmpty, Zenon
<1>q. QED
  BY <1>1, <1>2, <1>4, <1>5 DEF Buckets

-----------------------------------------------------------------------------
(* Type correctness, step by step.                                         *)

\* A thread goes on with work of its type.
LEMMA GoType ==
    ASSUME TypeOK, NEW w \in Workers, NEW work \in Busy \union {Idle},
           Go(w, work), rows' \in [Communities -> Seq(Rows)]
    PROVE  TypeOK'
  BY DEF TypeOK, Go

LEMMA StartType ==
    ASSUME TypeOK, NEW w \in Workers, NEW step \in Steps,
           NEW c \in Communities \union {None}, Start(w, step, c)
    PROVE  TypeOK'
<1>1. begun + 1 \in Runs /\ begun' \in 0..MaxRuns
  BY RunsAssumption DEF TypeOK, Start, Runs
<1>2. [at |-> step, run |-> begun + 1, rest |-> {}, community |-> c,
       payloads |-> {}, todo |-> {}, tries |-> 0, last |-> NoAnswer] \in Busy
  BY <1>1, RunsAssumption DEF Busy
<1>q. QED
  BY <1>1, <1>2 DEF TypeOK, Start

LEMMA RoundType ==
    ASSUME TypeOK, NEW w \in Workers, ListCommunities(w) \/ Answer(w)
    PROVE  TypeOK'
<1>1. worker[w] \in Busy
  BY WorkerType DEF ListCommunities, Answer, Steps
<1>2. worker[w].rest \in SUBSET Communities /\ Returned(worker[w]) \in Busy
  BY <1>1 DEF Busy, Returned
<1>3. rows' \in [Communities -> Seq(Rows)]
  BY DEF TypeOK, ListCommunities, Answer
<1>4. CASE ListCommunities(w)
  <2> DEFINE left == {c \in Communities : HasSnapshots(c)}
  <2>1. RunFirst(worker[w], left) \in Busy \union {Idle}
    <3>1. CASE left = {}
      BY <3>1, Zenon DEF RunFirst
    <3>2. CASE left # {}
      BY <1>1, <3>2, RunFirstType, Zenon
    <3>q. QED
      BY <3>1, <3>2
  <2>q. QED
    BY <1>3, <1>4, <2>1, GoType, Zenon DEF ListCommunities
<1>5. CASE Answer(w)
  <2> DEFINE left == worker[w].rest
  <2>1. RunFirst(Returned(worker[w]), left) \in Busy \union {Idle}
    <3>1. CASE left = {}
      BY <3>1, Zenon DEF RunFirst
    <3>2. CASE left # {}
      BY <1>2, <3>2, RunFirstType, Zenon
    <3>q. QED
      BY <3>1, <3>2
  <2>q. QED
    BY <1>3, <1>5, <2>1, GoType, Zenon DEF Answer
<1>q. QED
  BY <1>4, <1>5

LEMMA SnapshotType ==
    ASSUME IInv, NEW w \in Workers,
           NoSnapshots(w) \/ BuildSnapshots(w) \/ AttemptFails(w) \/ RunRaises(w)
    PROVE  TypeOK'
<1> USE DEF IInv
<1>1. rows' \in [Communities -> Seq(Rows)]
  BY DEF TypeOK, NoSnapshots, BuildSnapshots, AttemptFails, RunRaises
<1>2. CASE NoSnapshots(w) \/ RunRaises(w)
  BY <1>1, <1>2, GoType DEF NoSnapshots, RunRaises
<1>3. CASE BuildSnapshots(w)
  <2> DEFINE taken == Buckets(w, worker[w].community)
             work == [worker[w] EXCEPT !.at = "analyze", !.payloads = taken, !.todo = taken]
  <2>1. worker[w] \in Busy /\ taken \in SUBSET Hours
    BY <1>3, SnapshotsTaken
  <2> HIDE DEF taken
  <2>2. work \in Busy
    BY <2>1 DEF Busy, Steps
  <2> HIDE DEF work
  <2>3. Go(w, work)
    BY <1>3 DEF BuildSnapshots, work, taken
  <2>q. QED
    BY <1>1, <2>2, <2>3, GoType
<1>4. CASE AttemptFails(w)
  <2> DEFINE work == [worker[w] EXCEPT !.tries = @ + 1]
  <2>1. worker[w] \in Busy /\ worker[w].tries + 1 \in 0..RetryCount
    BY <1>4, WorkerType, RunsAssumption DEF AttemptFails, Steps, Busy
  <2>2. work \in Busy
    BY <2>1 DEF Busy
  <2> HIDE DEF work
  <2>3. Go(w, work)
    BY <1>4 DEF AttemptFails, work
  <2>q. QED
    BY <1>1, <2>2, <2>3, GoType
<1>q. QED
  BY <1>2, <1>3, <1>4

\* The snapshot at hand is the oldest of those not yet stored.
LEMMA HourAtHand ==
    ASSUME IInv, NEW w \in Workers, worker[w].at = "analyze"
    PROVE  /\ worker[w] \in Busy
           /\ worker[w] # Idle
           /\ worker[w].community \in Communities \ worker[w].rest
           /\ Halfway(worker[w].community, worker[w])
           /\ worker[w].todo \in SUBSET Nat
           /\ Hour(w) \in worker[w].todo
           /\ Hour(w) \in Hours
           /\ \A h \in worker[w].todo : Hour(w) <= h
<1> USE DEF IInv
<1>1. worker[w] \in Busy /\ worker[w] # Idle
  BY WorkerType DEF Steps
<1>2. InPlace(worker[w])
  BY <1>1 DEF AtHand
<1>3. worker[w].todo \in SUBSET Hours /\ worker[w].todo # {}
  BY <1>1, <1>2 DEF Busy, InPlace
<1>4. Hours \subseteq Nat
  BY RunsAssumption DEF Hours
<1>5. Hour(w) \in worker[w].todo /\ \A h \in worker[w].todo : Hour(w) <= h
  BY <1>3, <1>4, LeastIn DEF Hour
<1>q. QED
  BY <1>1, <1>2, <1>3, <1>4, <1>5 DEF InPlace

\* What RecordSuccess and RecordFailure store.
StoredRow(w, row) ==
    /\ worker[w].at = "analyze"
    /\ row \in Rows
    /\ row.run = worker[w].run
    /\ row.hour = Hour(w)
    /\ row.status = "failed" => row.result = worker[w].last
    /\ row.status = "success" =>
          row.result = [community |-> worker[w].community, run |-> worker[w].run,
                        hour |-> Hour(w)]
    /\ Stored(w, row)

LEMMA Records ==
    ASSUME IInv, NEW w \in Workers, RecordSuccess(w) \/ RecordFailure(w)
    PROVE  \E row : StoredRow(w, row)
<1>1. /\ worker[w].at = "analyze"
      /\ worker[w].run \in Runs
      /\ worker[w].last \in Answers \union {NoAnswer}
      /\ worker[w].community \in Communities
      /\ Hour(w) \in Hours
  BY HourAtHand DEF RecordSuccess, RecordFailure, Busy
<1>2. CASE RecordSuccess(w)
  <2> DEFINE answer == [community |-> worker[w].community, run |-> worker[w].run,
                        hour |-> Hour(w)]
             row == [status |-> "success", run |-> worker[w].run, hour |-> Hour(w),
                     result |-> answer]
  <2>1. answer \in Answers
    BY <1>1 DEF Answers
  <2> HIDE DEF answer
  <2>2. /\ row \in Rows
        /\ row.run = worker[w].run
        /\ row.hour = Hour(w)
        /\ row.status # "failed"
        /\ row.result = answer
    BY <1>1, <2>1 DEF Rows
  <2>3. Stored(w, row)
    BY <1>2 DEF RecordSuccess, answer
  <2> HIDE DEF row
  <2>q. QED
    BY <1>1, <2>2, <2>3, Zenon DEF StoredRow, answer
<1>3. CASE RecordFailure(w)
  <2> DEFINE row == FailedRow(w)
  <2>1. /\ row \in Rows
        /\ row.run = worker[w].run
        /\ row.hour = Hour(w)
        /\ row.status # "success"
        /\ row.result = worker[w].last
    BY <1>1 DEF FailedRow, Rows
  <2>2. Stored(w, row)
    BY <1>3 DEF RecordFailure
  <2> HIDE DEF row
  <2>q. QED
    BY <1>1, <2>1, <2>2, Zenon DEF StoredRow
<1>q. QED
  BY <1>2, <1>3

\* What storing a row makes of the thread.
LEMMA StoredWork ==
    ASSUME IInv, NEW w \in Workers, NEW row, StoredRow(w, row)
    PROVE  LET work == worker'[w]
           IN  /\ work \in Busy
               /\ work # Idle
               /\ work.at = IF work.todo = {} THEN "answer" ELSE "analyze"
               /\ work.run = row.run
               /\ work.rest = worker[w].rest
               /\ work.community = worker[w].community
               /\ work.payloads = worker[w].payloads
               /\ work.todo = worker[w].todo \ {row.hour}
               /\ work.last = IF row.status = "success" THEN row.result ELSE worker[w].last
               /\ \A v \in Workers \ {w} : worker'[v] = worker[v]
<1>1. worker[w] \in Busy /\ row \in Rows
  BY HourAtHand DEF StoredRow
<1> DEFINE left == worker[w].todo \ {row.hour}
           last == IF row.status = "success" THEN row.result ELSE worker[w].last
           at == IF left = {} THEN "answer" ELSE "analyze"
           work == [worker[w] EXCEPT !.at = at, !.todo = left, !.tries = 0, !.last = last]
<1>2. /\ at \in Steps
      /\ left \in SUBSET Hours
      /\ last \in Answers \union {NoAnswer}
      /\ 0 \in 0..RetryCount
  BY <1>1, RunsAssumption DEF Busy, Rows, Steps
<1>3. worker' = [worker EXCEPT ![w] = work]
  BY DEF StoredRow, Stored, Go
<1>4. worker'[w] = work /\ \A v \in Workers \ {w} : worker'[v] = worker[v]
  BY <1>3 DEF IInv, TypeOK
<1>5. /\ work.at = at
      /\ work.run = worker[w].run
      /\ work.rest = worker[w].rest
      /\ work.community = worker[w].community
      /\ work.payloads = worker[w].payloads
      /\ work.todo = left
      /\ work.last = last
  <2> HIDE DEF at, left, last
  <2>q. QED
    BY <1>1 DEF Busy
<1>6. work \in Busy
  <2> HIDE DEF at, left, last
  <2>q. QED
    BY <1>1, <1>2 DEF Busy
<1>7. work # Idle
  BY <1>5 DEF Idle
<1> HIDE DEF work
<1>q. QED
  BY <1>4, <1>5, <1>6, <1>7 DEF StoredRow

LEMMA StoredType ==
    ASSUME IInv, NEW w \in Workers, NEW row, StoredRow(w, row)
    PROVE  TypeOK'
<1>1. rows' \in [Communities -> Seq(Rows)]
  BY Appended, HourAtHand DEF IInv, StoredRow, Stored
<1>2. worker' \in [Workers -> Busy \union {Idle}]
  <2>1. worker'[w] \in Busy
    BY StoredWork, Zenon
  <2>q. QED
    BY <2>1 DEF IInv, TypeOK, StoredRow, Stored, Go
<1>q. QED
  BY <1>1, <1>2 DEF IInv, TypeOK, StoredRow, Stored, Go

-----------------------------------------------------------------------------
(* Storing a row keeps the invariant.                                      *)

\* The row is appended to its community.
LEMMA StoredAppends ==
    ASSUME IInv, NEW w \in Workers, NEW row, StoredRow(w, row)
    PROVE  /\ worker[w].community \in Communities
           /\ row \in Rows
           /\ TypeOK
           /\ rows' = [rows EXCEPT ![worker[w].community] = Append(@, row)]
           /\ UNCHANGED <<hours, units, begun, reader>>
  BY HourAtHand DEF IInv, StoredRow, Stored, Go

LEMMA StoredNumbered ==
    ASSUME IInv, NEW w \in Workers, NEW row, StoredRow(w, row)
    PROVE  Numbered'
<1>0. PICK c \in Communities : c = worker[w].community
  BY StoredAppends
<1>1. worker[w] # Idle /\ row.run = worker[w].run /\ row.run <= begun
  BY HourAtHand DEF IInv, Numbered, StoredRow
<1>2. \A v \in Workers : /\ worker'[v] # Idle <=> worker[v] # Idle
                         /\ worker[v] # Idle => worker'[v].run = worker[v].run
  BY <1>1, StoredWork
<1>3. ASSUME NEW d \in Communities, NEW i \in 1..Len(rows'[d])
      PROVE  rows'[d][i].run <= begun
  <2>1. CASE d # c
    <3>1. rows'[d] = rows[d]
      BY <1>0, <2>1, StoredAppends, Appended
    <3>q. QED
      BY <1>3, <3>1 DEF IInv, Numbered
  <2>2. CASE d = c
    <3>1. /\ Len(rows[c]) \in Nat
          /\ Len(rows'[c]) = Len(rows[c]) + 1
          /\ rows'[c][Len(rows[c]) + 1] = row
          /\ \A j \in 1..Len(rows[c]) : rows'[c][j] = rows[c][j]
      BY <1>0, StoredAppends, Appended
    <3>2. i \in 1..Len(rows[c]) \/ i = Len(rows[c]) + 1
      BY <2>2, <3>1
    <3>3. \A j \in 1..Len(rows[c]) : rows[c][j].run <= begun
      BY DEF IInv, Numbered
    <3>q. QED
      BY <1>1, <2>2, <3>1, <3>2, <3>3
  <2>q. QED
    BY <2>1, <2>2
<1>q. QED
  BY <1>2, <1>3, StoredAppends DEF IInv, Numbered

\* No other thread works on the same run, and the round has not come to the
\* communities it still has before it.
LEMMA StoredUntouched ==
    ASSUME IInv, NEW w \in Workers, NEW row, StoredRow(w, row)
    PROVE  Untouched'
<1>0. ASSUME NEW v \in Workers, worker'[v] # Idle,
             NEW run \in Runs, run = worker'[v].run,
             NEW d \in Communities, d \in ToCome(worker'[v])
      PROVE  RowsOf(d, run)' = {}
  <2>1. row.run = worker[w].run /\ worker[w] # Idle
    BY HourAtHand DEF StoredRow
  <2>2. /\ RowsOf(d, run) = {}
        /\ d # worker[w].community \/ run # row.run
    <3>1. CASE v # w
      <4>1. worker'[v] = worker[v]
        BY <3>1, StoredWork
      <4>q. QED
        BY <1>0, <2>1, <3>1, <4>1 DEF IInv, Numbered, Untouched
    <3>2. CASE v = w
      <4>1. d \in worker[w].rest /\ run = worker[w].run
        BY <1>0, <2>1, <3>2, StoredWork DEF ToCome
      <4>2. d # worker[w].community /\ d \in ToCome(worker[w])
        BY <4>1, HourAtHand DEF StoredRow, ToCome
      <4>q. QED
        BY <2>1, <4>1, <4>2 DEF IInv, Untouched
    <3>q. QED
      BY <3>1, <3>2
  <2>3. RowsOf(d, run)' = RowsOf(d, run)
    BY <2>2, AppendedElsewhere, StoredAppends
  <2>q. QED
    BY <2>2, <2>3
<1>1. ASSUME NEW v \in Workers, worker'[v] # Idle
      PROVE  worker'[v].run \in Runs /\ ToCome(worker'[v]) \subseteq Communities
  <2>1. CASE v # w
    <3>1. worker'[v] = worker[v]
      BY <2>1, StoredWork
    <3>q. QED
      BY <1>1, <3>1, WorkerType DEF IInv, AtHand, InPlace, ToCome, Busy
  <2>2. CASE v = w
    <3>1. worker'[w] \in Busy /\ worker'[w].at \notin {"list", "snapshot"}
      BY StoredWork
    <3>q. QED
      BY <2>2, <3>1 DEF ToCome, Busy
  <2>q. QED
    BY <2>1, <2>2
<1>q. QED
  BY <1>0, <1>1 DEF Untouched, ToCome

\* What another thread has done of its community is not touched.
LEMMA StoredElsewhere ==
    ASSUME IInv, NEW w \in Workers, NEW row, StoredRow(w, row),
           NEW v \in Workers, v # w, worker[v].at \in {"analyze", "answer"}
    PROVE  Halfway(worker[v].community, worker[v])'
<1>1. worker'[v] = worker[v]
  BY StoredWork
<1>2. worker[v] \in Busy /\ worker[v] # Idle
  BY WorkerType DEF IInv, Steps
<1>3. PICK d \in Communities, run \in Runs :
          d = worker[v].community /\ run = worker[v].run
  BY <1>2 DEF IInv, AtHand, InPlace, Busy
<1>4. run # row.run
  BY <1>2, <1>3, HourAtHand DEF IInv, Numbered, StoredRow
<1>5. RowsOf(d, run)' = RowsOf(d, run)
  BY <1>4, AppendedElsewhere, StoredAppends
<1>6. \A i \in RowsOf(d, run) : rows'[d][i] = rows[d][i]
  BY Appended, StoredAppends DEF RowsOf
<1>7. LastAnswer(d, run)' = LastAnswer(d, run)
  BY <1>4, AppendedAnswer, StoredAppends
<1>8. Halfway(d, worker[v])
  BY <1>2, <1>3 DEF IInv, AtHand, InPlace
<1>q. QED
  BY <1>1, <1>3, <1>5, <1>6, <1>7, <1>8 DEF Halfway

LEMMA StoredHere ==
    ASSUME IInv, NEW w \in Workers, NEW row, StoredRow(w, row)
    PROVE  Halfway(worker[w].community, worker[w])'
<1> DEFINE todo == worker[w].todo
           payloads == worker[w].payloads
<1>1. PICK c \in Communities, run \in Runs :
          c = worker[w].community /\ run = worker[w].run
  BY HourAtHand DEF StoredRow, Busy
<1>2. /\ row.run = run
      /\ row.hour \in todo
      /\ todo \in SUBSET Nat
      /\ \A h \in todo : row.hour <= h
      /\ Halfway(c, worker[w])
  BY <1>1, HourAtHand DEF StoredRow
<1>3. /\ worker'[w].community = c
      /\ worker'[w].run = run
      /\ worker'[w].payloads = payloads
      /\ worker'[w].todo = todo \ {row.hour}
      /\ worker'[w].last =
             IF row.status = "success" THEN row.result ELSE worker[w].last
  BY <1>1, <1>2, StoredWork
<1> DEFINE end == Len(rows[c]) + 1
           mine == RowsOf(c, run)
<1>4. RowsOf(c, run)' = mine \union {end}
  BY <1>1, <1>2, AppendedHere, StoredAppends
<1>5. rows'[c][end] = row /\ \A i \in mine : rows'[c][i] = rows[c][i]
  BY <1>1, Appended, StoredAppends DEF RowsOf
<1>6. LastAnswer(c, run)' = IF row.status = "success" THEN row.result
                            ELSE LastAnswer(c, run)
  BY <1>1, <1>2, AppendedAnswer, StoredAppends
<1>7. todo \subseteq payloads /\ {rows[c][i].hour : i \in mine} = payloads \ todo
  BY <1>1, <1>2 DEF Halfway
<1>8. \A i \in mine, h \in todo : rows[c][i].hour < h
  BY <1>1, <1>2 DEF Halfway
<1>9. worker'[w].last = LastAnswer(c, run)'
  BY <1>1, <1>2, <1>3, <1>6 DEF Halfway
<1> HIDE DEF end, mine, todo, payloads
<1>10. {rows'[c][i].hour : i \in mine \union {end}}
          = {rows[c][i].hour : i \in mine} \union {row.hour}
  BY <1>5
<1>11. {rows'[c][i].hour : i \in mine \union {end}} = payloads \ (todo \ {row.hour})
  BY <1>2, <1>7, <1>10
<1>12. \A i \in mine \union {end}, h \in todo \ {row.hour} : rows'[c][i].hour < h
  <2>1. ASSUME NEW h \in todo \ {row.hour} PROVE row.hour < h
    <3>1. PICK g \in Nat : g = row.hour
      BY <1>2
    <3>2. h \in Nat /\ h # g /\ g <= h
      BY <1>2, <3>1
    <3>q. QED
      BY <3>1, <3>2
  <2>2. ASSUME NEW i \in mine, NEW h \in todo PROVE rows'[c][i].hour < h
    BY <1>5, <1>8
  <2>q. QED
    BY <1>5, <2>1, <2>2
<1>q. QED
  BY <1>3, <1>4, <1>7, <1>9, <1>11, <1>12 DEF Halfway

LEMMA StoredAtHand ==
    ASSUME IInv, NEW w \in Workers, NEW row, StoredRow(w, row)
    PROVE  AtHand'
<1> SUFFICES ASSUME NEW v \in Workers, worker'[v] # Idle
             PROVE  InPlace(worker[v])'
  BY DEF AtHand
<1>1. CASE v # w
  <2>1. worker'[v] = worker[v] /\ InPlace(worker[v])
    BY <1>1, StoredWork DEF IInv, AtHand
  <2>2. worker[v].at \in {"analyze", "answer"} => Halfway(worker[v].community, worker[v])'
    BY <1>1, StoredElsewhere
  <2>q. QED
    BY <2>1, <2>2 DEF InPlace
<1>2. CASE v = w
  <2>1. /\ worker'[w].at = IF worker'[w].todo = {} THEN "answer" ELSE "analyze"
        /\ worker'[w].community \in Communities \ worker'[w].rest
    BY StoredWork, HourAtHand DEF StoredRow
  <2>2. Halfway(worker[w].community, worker[w])'
    BY StoredHere
  <2>q. QED
    BY <1>2, <2>1, <2>2 DEF InPlace
<1>q. QED
  BY <1>1, <1>2

\* The rows of the run are of earlier hours than the one at hand.
LEMMA StoredOldest ==
    ASSUME IInv, NEW w \in Workers, NEW row, StoredRow(w, row)
    PROVE  OldestFirst'
<1>0. PICK c \in Communities : c = worker[w].community
  BY StoredAppends
<1>1. /\ Len(rows[c]) \in Nat
      /\ Len(rows'[c]) = Len(rows[c]) + 1
      /\ rows'[c][Len(rows[c]) + 1] = row
      /\ \A i \in 1..Len(rows[c]) : rows'[c][i] = rows[c][i]
      /\ \A d \in Communities \ {c} : rows'[d] = rows[d]
  BY <1>0, Appended, StoredAppends
<1>2. \A i \in RowsOf(c, row.run) : rows[c][i].hour < row.hour
  BY <1>0, HourAtHand DEF Halfway, StoredRow
<1>3. ASSUME NEW i \in 1..Len(rows'[c]), NEW j \in 1..Len(rows'[c]),
             i < j, rows'[c][i].run = rows'[c][j].run
      PROVE  rows'[c][i].hour < rows'[c][j].hour
  <2>1. i \in 1..Len(rows[c]) /\ rows'[c][i] = rows[c][i]
    BY <1>1, <1>3
  <2>2. CASE j = Len(rows[c]) + 1
    <3>1. i \in RowsOf(c, row.run)
      BY <1>1, <1>3, <2>1, <2>2 DEF RowsOf
    <3>q. QED
      BY <1>1, <1>2, <2>1, <2>2, <3>1
  <2>3. CASE j \in 1..Len(rows[c])
    BY <1>1, <1>3, <2>1, <2>3 DEF IInv, OldestFirst
  <2>q. QED
    BY <1>1, <2>2, <2>3
<1>4. ASSUME NEW d \in Communities \ {c},
             NEW i \in 1..Len(rows'[d]), NEW j \in 1..Len(rows'[d]),
             i < j, rows'[d][i].run = rows'[d][j].run
      PROVE  rows'[d][i].hour < rows'[d][j].hour
  BY <1>1, <1>4 DEF IInv, OldestFirst
<1>q. QED
  BY <1>3, <1>4 DEF OldestFirst

\* The answers before row i of community c, among those of run.
Before(c, run, i) == {j \in SuccessesOf(c, run) : j < i}

FallbackAt(c, i) ==
    LET before == Before(c, rows[c][i].run, i)
    IN  rows[c][i].status = "failed" =>
            rows[c][i].result = IF before = {} THEN NoAnswer
                                ELSE rows[c][Greatest(before)].result

LEMMA FallbackIsAt ==
    FallbackWithinRun <=> \A c \in Communities : \A i \in 1..Len(rows[c]) : FallbackAt(c, i)
  BY DEF FallbackWithinRun, FallbackAt, Before

\* A row that stays where it is keeps what is before it.
LEMMA FallbackStays ==
    ASSUME TypeOK, NEW c \in Communities, NEW d \in Communities, NEW row \in Rows,
           rows' = [rows EXCEPT ![c] = Append(@, row)],
           NEW i \in 1..Len(rows[d]), FallbackAt(d, i)
    PROVE  FallbackAt(d, i)'
<1>1. /\ Len(rows[d]) \in Nat
      /\ Len(rows'[d]) \in {Len(rows[d]), Len(rows[d]) + 1}
      /\ \A j \in 1..Len(rows[d]) : rows'[d][j] = rows[d][j]
  BY Appended DEF TypeOK
<1>2. PICK run : run = rows[d][i].run
  OBVIOUS
<1>3. Before(d, run, i)' = Before(d, run, i)
  BY <1>1 DEF Before, SuccessesOf, RowsOf, Successes
<1>4. Before(d, run, i) \in SUBSET (1..Len(rows[d]))
  BY DEF Before, SuccessesOf, RowsOf
<1>5. Before(d, run, i) # {} => Greatest(Before(d, run, i)) \in 1..Len(rows[d])
  BY <1>1, <1>4, GreatestIn
<1>6. rows'[d][i] = rows[d][i]
  BY <1>1
<1>q. QED
  BY <1>1, <1>2, <1>3, <1>5, <1>6 DEF FallbackAt

\* A failed row takes the last answer of its own run.
LEMMA StoredFallback ==
    ASSUME IInv, NEW w \in Workers, NEW row, StoredRow(w, row)
    PROVE  FallbackWithinRun'
<1>0. PICK c \in Communities : c = worker[w].community
  BY StoredAppends
<1> DEFINE end == Len(rows[c]) + 1
<1>1. /\ Len(rows[c]) \in Nat
      /\ Len(rows'[c]) = end
      /\ rows'[c][end] = row
      /\ \A i \in 1..Len(rows[c]) : rows'[c][i] = rows[c][i]
      /\ \A d \in Communities \ {c} : rows'[d] = rows[d]
  BY <1>0, Appended, StoredAppends
<1>2. ASSUME NEW d \in Communities, NEW i \in 1..Len(rows[d])
      PROVE  FallbackAt(d, i)'
  <2>1. FallbackAt(d, i)
    BY FallbackIsAt DEF IInv
  <2>q. QED
    BY <1>0, <2>1, FallbackStays, StoredAppends
<1>3. PICK n \in Nat : n = end
  BY <1>1
<1>4. FallbackAt(c, n)'
  <2>1. SUFFICES ASSUME row.status = "failed"
                 PROVE  rows'[c][n].result =
                            IF Before(c, row.run, n)' = {} THEN NoAnswer
                            ELSE rows'[c][Greatest(Before(c, row.run, n)')].result
    BY <1>1, <1>3 DEF FallbackAt, Before
  <2>2. SuccessesOf(c, row.run)' = SuccessesOf(c, row.run)
    BY <1>0, <2>1, AppendedHere, StoredAppends
  <2>3. SuccessesOf(c, row.run) \in SUBSET (1..Len(rows[c]))
    BY DEF SuccessesOf, RowsOf
  <2>4. Before(c, row.run, n)' = SuccessesOf(c, row.run)
    BY <1>1, <1>3, <2>2, <2>3 DEF Before
  <2>5. SuccessesOf(c, row.run) # {} =>
            Greatest(SuccessesOf(c, row.run)) \in 1..Len(rows[c])
    BY <1>1, <2>3, GreatestIn
  <2>6. row.result = LastAnswer(c, row.run)
    BY <1>0, <2>1, HourAtHand DEF StoredRow, Halfway
  <2>q. QED
    BY <1>1, <1>3, <2>4, <2>5, <2>6 DEF LastAnswer
<1>5. \A d \in Communities : \A i \in 1..Len(rows'[d]) :
          i \in 1..Len(rows[d]) \/ (d = c /\ i = n)
  BY <1>1, <1>3
<1>6. \A d \in Communities : \A i \in 1..Len(rows'[d]) : FallbackAt(d, i)'
  BY <1>2, <1>3, <1>4, <1>5
<1>q. QED
  BY <1>6 DEF FallbackWithinRun, FallbackAt, Before

LEMMA StoredHasRead ==
    ASSUME IInv, NEW w \in Workers, NEW row, StoredRow(w, row)
    PROVE  HasRead'
<1> SUFFICES ASSUME reader # NotReading
             PROVE  reader.last <= Len(rows'[reader.community])
  BY StoredAppends DEF HasRead
<1>1. reader \in Reading
  BY DEF IInv, TypeOK
<1>2. PICK d \in Communities, last \in Nat : d = reader.community /\ last = reader.last
  BY <1>1 DEF Reading
<1>3. last <= Len(rows[d]) /\ Len(rows[d]) \in Nat
  BY <1>2 DEF IInv, TypeOK, HasRead
<1>4. Len(rows'[d]) \in {Len(rows[d]), Len(rows[d]) + 1}
  BY Appended, StoredAppends
<1>q. QED
  BY <1>2, <1>3, <1>4

LEMMA StoredKeeps ==
    ASSUME IInv, NEW w \in Workers, RecordSuccess(w) \/ RecordFailure(w)
    PROVE  IInv'
<1>1. PICK row : StoredRow(w, row)
  BY Records
<1>2. Bounded'
  BY <1>1, StoredAppends DEF IInv, Bounded
<1>q. QED
  BY <1>1, <1>2, StoredType, StoredNumbered, StoredUntouched, StoredAtHand,
     StoredOldest, StoredFallback, StoredHasRead DEF IInv

-----------------------------------------------------------------------------
(* The steps that store no row.                                            *)

\* What is said of the rows goes on to hold while they stay.
LEMMA RowsStay ==
    ASSUME rows' = rows
    PROVE  /\ \A c, run : RowsOf(c, run)' = RowsOf(c, run)
           /\ \A c, run : LastAnswer(c, run)' = LastAnswer(c, run)
           /\ OldestFirst => OldestFirst'
           /\ FallbackWithinRun => FallbackWithinRun'
<1>1. \A c, run : RowsOf(c, run)' = RowsOf(c, run)
  BY DEF RowsOf
<1>2. \A c, run : SuccessesOf(c, run)' = SuccessesOf(c, run)
  BY DEF SuccessesOf, RowsOf, Successes
<1>3. \A c, run : LastAnswer(c, run)' = LastAnswer(c, run)
  BY <1>2 DEF LastAnswer
<1>4. OldestFirst => OldestFirst'
  BY DEF OldestFirst
<1>5. FallbackWithinRun => FallbackWithinRun'
  BY <1>2 DEF FallbackWithinRun
<1>q. QED
  BY <1>1, <1>3, <1>4, <1>5

\* A thread goes on within its run, or is done.
LEMMA MoveKeeps ==
    ASSUME IInv, NEW w \in Workers, worker[w] # Idle, NEW work,
           Go(w, work), UNCHANGED rows, TypeOK',
           \/ work = Idle
           \/ /\ work.run = worker[w].run
              /\ ToCome(work) \subseteq ToCome(worker[w])
              /\ InPlace(work)
    PROVE  IInv'
<1>1. /\ worker'[w] = work
      /\ \A v \in Workers \ {w} : worker'[v] = worker[v]
      /\ UNCHANGED <<hours, begun, reader, rows>>
  BY DEF IInv, TypeOK, Go
<1>2. Numbered'
  BY <1>1 DEF IInv, Numbered
<1>3. Untouched'
  BY <1>1 DEF IInv, Untouched, RowsOf, ToCome
<1>4. AtHand'
  <2>1. ASSUME NEW v \in Workers, worker'[v] # Idle
        PROVE  InPlace(worker'[v])
    BY <1>1, <2>1 DEF IInv, AtHand
  <2>2. ASSUME NEW x, InPlace(x) PROVE InPlace(x)'
    BY <1>1, <2>2, RowsStay DEF InPlace, Halfway
  <2>q. QED
    BY <2>1, <2>2 DEF AtHand, InPlace, Halfway
<1>5. OldestFirst' /\ FallbackWithinRun' /\ Bounded' /\ HasRead'
  BY <1>1, RowsStay DEF IInv, Bounded, HasRead
<1>q. QED
  BY <1>2, <1>3, <1>4, <1>5 DEF IInv

LEMMA EndKeeps ==
    ASSUME IInv, NEW w \in Workers, worker[w] # Idle,
           Go(w, Idle), UNCHANGED rows, TypeOK'
    PROVE  IInv'
<1>1. PICK work : work = Idle
  OBVIOUS
<1>2. Go(w, work)
  BY <1>1
<1>q. QED
  BY <1>1, <1>2, MoveKeeps

\* A step that neither stores a row nor moves a thread.
LEMMA AroundKeeps ==
    ASSUME IInv, UNCHANGED <<rows, worker, begun>>, TypeOK', Bounded', HasRead'
    PROVE  IInv'
<1>1. Numbered'
  BY DEF IInv, Numbered
<1>2. Untouched'
  BY DEF IInv, Untouched, RowsOf, ToCome
<1>3. AtHand'
  <2>1. ASSUME NEW x, InPlace(x) PROVE InPlace(x)'
    BY <2>1, RowsStay DEF InPlace, Halfway
  <2>2. ASSUME NEW v \in Workers, worker'[v] # Idle PROVE InPlace(worker'[v])
    BY <2>2 DEF IInv, AtHand
  <2>q. QED
    BY <2>1, <2>2 DEF AtHand, InPlace, Halfway
<1>4. OldestFirst' /\ FallbackWithinRun'
  BY RowsStay DEF IInv
<1>q. QED
  BY <1>1, <1>2, <1>3, <1>4 DEF IInv

LEMMA RestartKeeps == ASSUME IInv, Restart PROVE IInv'
<1>1. \A w \in Workers : worker'[w] = Idle
  BY DEF Restart
<1>2. TypeOK'
  BY DEF IInv, TypeOK, Restart
<1>3. OldestFirst' /\ FallbackWithinRun'
  BY RowsStay DEF IInv, Restart
<1>q. QED
  BY <1>1, <1>2, <1>3 DEF IInv, Restart, Bounded, Numbered, Untouched, AtHand, HasRead

\* No row is of a run that has not begun.
LEMMA NewRun ==
    ASSUME TypeOK, Numbered, NEW d \in Communities
    PROVE  RowsOf(d, begun + 1) = {}
<1>1. begun \in Nat
  BY RunsAssumption DEF TypeOK
<1>q. QED
  BY <1>1 DEF Numbered, RowsOf

LEMMA StartKeeps ==
    ASSUME IInv, NEW w \in Workers, NEW step \in Steps, NEW c,
           \/ step = "snapshot" /\ c \in Communities
           \/ step = "list" /\ c = None,
           Start(w, step, c)
    PROVE  IInv'
<1> USE DEF IInv
<1> DEFINE work == [at |-> step, run |-> begun + 1, rest |-> {}, community |-> c,
                    payloads |-> {}, todo |-> {}, tries |-> 0, last |-> NoAnswer]
<1>1. /\ worker'[w] = work
      /\ \A v \in Workers \ {w} : worker'[v] = worker[v]
      /\ begun' = begun + 1
      /\ begun \in Nat
      /\ UNCHANGED <<hours, units, rows, reader>>
  BY RunsAssumption DEF TypeOK, Start
<1>2. /\ work.at = step
      /\ work.run = begun + 1
      /\ work.rest = {}
      /\ work.community = c
      /\ work.last = NoAnswer
      /\ work.todo = {}
  OBVIOUS
<1> HIDE DEF work
<1>3. TypeOK'
  BY StartType
<1>4. \A d \in Communities : RowsOf(d, begun + 1) = {}
  BY NewRun
<1>5. Numbered'
  <2>1. \A v \in Workers \ {w} : worker[v] # Idle => worker[v].run \in Nat
    BY WorkerType DEF Busy, Runs
  <2>2. ASSUME NEW d \in Communities, NEW i \in 1..Len(rows[d])
        PROVE  rows[d][i].run \in Nat
    <3>1. rows[d] \in Seq(Rows)
      BY DEF TypeOK
    <3>2. rows[d][i] \in Rows
      BY <3>1
    <3>q. QED
      BY <3>2 DEF Rows, Runs
  <2>3. \A v \in Workers : worker'[v] # Idle => worker'[v].run <= begun'
    BY <1>1, <1>2, <2>1 DEF Numbered
  <2>4. \A v \in Workers \ {w} : worker[v] # Idle => worker[v].run # begun + 1
    BY <1>1, <2>1 DEF Numbered
  <2>5. \A u, v \in Workers : u # v /\ worker'[u] # Idle /\ worker'[v] # Idle
            => worker'[u].run # worker'[v].run
    BY <1>1, <1>2, <2>4 DEF Numbered
  <2>6. \A d \in Communities : \A i \in 1..Len(rows'[d]) : rows'[d][i].run <= begun'
    BY <1>1, <2>2 DEF Numbered
  <2>q. QED
    BY <2>3, <2>5, <2>6 DEF Numbered
<1>6. Untouched'
  <2>1. ToCome(work) \subseteq Communities
    BY <1>2 DEF ToCome
  <2>q. QED
    BY <1>1, <1>2, <1>4, <2>1 DEF Untouched, ToCome, RowsOf
<1>7. AtHand'
  <2>1. InPlace(work)
    BY <1>2 DEF InPlace
  <2>2. ASSUME NEW v \in Workers, worker'[v] # Idle
        PROVE  InPlace(worker'[v])
    BY <1>1, <2>1, <2>2 DEF AtHand
  <2>3. ASSUME NEW x, InPlace(x) PROVE InPlace(x)'
    BY <1>1, <2>3, RowsStay DEF InPlace, Halfway
  <2>q. QED
    BY <2>2, <2>3 DEF AtHand, InPlace, Halfway
<1>8. OldestFirst' /\ FallbackWithinRun' /\ Bounded' /\ HasRead'
  BY <1>1, RowsStay DEF Bounded, HasRead
<1>q. QED
  BY <1>3, <1>5, <1>6, <1>7, <1>8

LEMMA RoundKeeps ==
    ASSUME IInv, NEW w \in Workers, ListCommunities(w) \/ Answer(w)
    PROVE  IInv'
<1> USE DEF IInv
<1>1. worker[w] \in Busy /\ worker[w] # Idle /\ InPlace(worker[w])
  BY WorkerType DEF ListCommunities, Answer, Steps, AtHand
<1>2. TypeOK' /\ UNCHANGED rows
  BY RoundType DEF ListCommunities, Answer
<1>3. ASSUME NEW work \in Busy, NEW left \in SUBSET Communities, left # {},
             work.run = worker[w].run, work.last = NoAnswer,
             left \subseteq ToCome(worker[w])
      PROVE  LET next == RunFirst(work, left)
             IN  /\ next.run = worker[w].run
                 /\ ToCome(next) \subseteq ToCome(worker[w])
                 /\ InPlace(next)
  BY <1>3, RunFirstType DEF ToCome, InPlace
<1>4. CASE ListCommunities(w)
  <2> DEFINE left == {c \in Communities : HasSnapshots(c)}
             next == RunFirst(worker[w], left)
  <2>1. left = {} => next = Idle
    BY Zenon DEF RunFirst
  <2>2. left # {} => /\ next.run = worker[w].run
                     /\ ToCome(next) \subseteq ToCome(worker[w])
                     /\ InPlace(next)
    BY <1>1, <1>3, <1>4 DEF ListCommunities, InPlace, ToCome
  <2>3. Go(w, next)
    BY <1>4 DEF ListCommunities
  <2> HIDE DEF next
  <2>4. CASE left = {}
    BY <1>1, <1>2, <2>1, <2>3, <2>4, EndKeeps
  <2>5. CASE left # {}
    BY <1>1, <1>2, <2>2, <2>3, <2>5, MoveKeeps
  <2>q. QED
    BY <2>4, <2>5
<1>5. CASE Answer(w)
  <2> DEFINE left == worker[w].rest
             work == Returned(worker[w])
             next == RunFirst(work, left)
  <2>1. left = {} => next = Idle
    BY Zenon DEF RunFirst
  <2>2. /\ work \in Busy
        /\ work.run = worker[w].run
        /\ work.last = NoAnswer
        /\ left \in SUBSET Communities
        /\ left \subseteq ToCome(worker[w])
    BY <1>1, <1>5 DEF Returned, Busy, Answer, ToCome
  <2>3. Go(w, next)
    BY <1>5 DEF Answer
  <2> HIDE DEF work
  <2>4. left # {} => /\ next.run = worker[w].run
                     /\ ToCome(next) \subseteq ToCome(worker[w])
                     /\ InPlace(next)
    BY <1>3, <2>2
  <2> HIDE DEF next, left
  <2>5. CASE left = {}
    BY <1>1, <1>2, <2>1, <2>3, <2>5, EndKeeps
  <2>6. CASE left # {}
    BY <1>1, <1>2, <2>3, <2>4, <2>6, MoveKeeps
  <2>q. QED
    BY <2>5, <2>6
<1>q. QED
  BY <1>4, <1>5

LEMMA SnapshotKeeps ==
    ASSUME IInv, NEW w \in Workers,
           NoSnapshots(w) \/ BuildSnapshots(w) \/ AttemptFails(w) \/ RunRaises(w)
    PROVE  IInv'
<1> USE DEF IInv
<1>1. worker[w] \in Busy /\ worker[w] # Idle /\ InPlace(worker[w])
  BY WorkerType DEF NoSnapshots, BuildSnapshots, AttemptFails, RunRaises, Steps, AtHand
<1>2. TypeOK' /\ UNCHANGED rows
  BY SnapshotType DEF NoSnapshots, BuildSnapshots, AttemptFails, RunRaises
<1>3. CASE NoSnapshots(w) \/ RunRaises(w)
  BY <1>1, <1>2, <1>3, EndKeeps DEF NoSnapshots, RunRaises
<1>4. CASE BuildSnapshots(w)
  <2> DEFINE taken == Buckets(w, worker[w].community)
             work == [worker[w] EXCEPT !.at = "analyze", !.payloads = taken, !.todo = taken]
  <2>1. taken # {} /\ worker[w].community \in Communities \ worker[w].rest
    BY <1>4, SnapshotsTaken
  <2> HIDE DEF taken
  <2>2. /\ work.at = "analyze"
        /\ work.run = worker[w].run
        /\ work.rest = worker[w].rest
        /\ work.community = worker[w].community
        /\ work.payloads = taken
        /\ work.todo = taken
        /\ work.last = worker[w].last
    BY <1>1 DEF Busy
  <2>3. Go(w, work)
    BY <1>4 DEF BuildSnapshots, taken
  <2> HIDE DEF work
  <2>4. PICK c \in Communities : c = worker[w].community
    BY <2>1
  <2> DEFINE run == worker[w].run
  <2>5. RowsOf(c, run) = {} /\ worker[w].last = NoAnswer
    BY <1>1, <1>4, <2>4 DEF BuildSnapshots, Untouched, ToCome, InPlace
  <2>6. LastAnswer(c, run) = NoAnswer
    BY <2>5 DEF LastAnswer, SuccessesOf
  <2>7. Halfway(c, work)
    BY <2>2, <2>4, <2>5, <2>6 DEF Halfway
  <2>8. InPlace(work) /\ ToCome(work) \subseteq ToCome(worker[w])
    BY <1>4, <2>1, <2>2, <2>4, <2>7 DEF InPlace, ToCome, BuildSnapshots
  <2>q. QED
    BY <1>1, <1>2, <2>2, <2>3, <2>8, MoveKeeps
<1>5. CASE AttemptFails(w)
  <2> DEFINE work == [worker[w] EXCEPT !.tries = @ + 1]
  <2>1. /\ work.at = worker[w].at
        /\ work.run = worker[w].run
        /\ work.rest = worker[w].rest
        /\ work.community = worker[w].community
        /\ work.payloads = worker[w].payloads
        /\ work.todo = worker[w].todo
        /\ work.last = worker[w].last
    BY <1>1 DEF Busy
  <2>2. Go(w, work)
    BY <1>5 DEF AttemptFails
  <2> HIDE DEF work
  <2>3. InPlace(work) /\ ToCome(work) \subseteq ToCome(worker[w])
    BY <1>1, <2>1 DEF InPlace, ToCome, Halfway
  <2>q. QED
    BY <1>1, <1>2, <2>1, <2>2, <2>3, MoveKeeps
<1>q. QED
  BY <1>3, <1>4, <1>5

\* A reading makes its hour the last that has readings, or does not.
LEMMA IngestKeeps ==
    ASSUME IInv, NEW reading \in Readings, Ingest(reading[1], reading[2])
    PROVE  IInv'
<1> USE DEF IInv
<1>1. /\ reading[1] \in Communities
      /\ reading[2] \in Hours
      /\ reading[2] \in Nat \ {0}
  BY RunsAssumption DEF Hours
<1>2. PICK c \in Communities, h \in Nat \ {0} : c = reading[1] /\ h = reading[2]
  BY <1>1
<1>3. TypeOK'
  BY <1>1 DEF TypeOK, Ingest
<1>4. Bounded'
  <2>1. ASSUME NEW d \in Communities PROVE \E n \in Nat : hours'[d] \subseteq 1..n
    <3>1. PICK n \in Nat : hours[d] \subseteq 1..n
      BY DEF Bounded
    <3>2. hours'[d] \subseteq 1..(n + h)
      BY <1>2, <3>1 DEF Ingest, TypeOK
    <3>q. QED
      BY <3>2
  <2>q. QED
    BY <2>1 DEF Bounded
<1>q. QED
  BY <1>3, <1>4, AroundKeeps DEF Ingest, HasRead

LEMMA StatusKeeps == ASSUME IInv, Status PROVE IInv'
<1> USE DEF IInv
<1>1. Bounded' /\ UNCHANGED <<rows, worker, begun>>
  BY DEF Status, StatusReadLast, StatusReadSuccess, Bounded
<1>2. CASE StatusReadSuccess
  <2>1. TypeOK' /\ HasRead'
    BY <1>2 DEF StatusReadSuccess, TypeOK, HasRead
  <2>q. QED
    BY <1>1, <2>1, AroundKeeps
<1>3. ASSUME NEW c \in Watched, StatusReadLast(c) PROVE IInv'
  <2>1. c \in Communities /\ Len(rows[c]) \in Nat
    BY RunsAssumption DEF TypeOK
  <2>2. reader' = [community |-> c, last |-> Len(rows[c])]
    BY <1>3 DEF StatusReadLast
  <2>3. reader' \in Reading
    BY <2>1, <2>2 DEF Reading
  <2>4. TypeOK' /\ HasRead'
    BY <1>3, <2>1, <2>2, <2>3 DEF StatusReadLast, TypeOK, HasRead
  <2>q. QED
    BY <1>1, <2>4, AroundKeeps
<1>q. QED
  BY <1>2, <1>3 DEF Status

-----------------------------------------------------------------------------
(* The theorems.                                                           *)

LEMMA StepKeeps == ASSUME IInv, [Next]_vars PROVE IInv'
<1>1. CASE UNCHANGED vars
  <2>1. TypeOK' /\ Bounded' /\ HasRead'
    BY <1>1 DEF IInv, TypeOK, Bounded, HasRead, vars
  <2>q. QED
    BY <1>1, <2>1, AroundKeeps DEF vars
<1>2. ASSUME NEW reading \in Readings, Ingest(reading[1], reading[2]) PROVE IInv'
  BY <1>2, IngestKeeps
<1>3. ASSUME NEW c \in Communities, DeleteUnits(c) PROVE IInv'
  <2>1. TypeOK' /\ Bounded' /\ HasRead'
    BY <1>3 DEF IInv, TypeOK, Bounded, HasRead, DeleteUnits
  <2>q. QED
    BY <1>3, <2>1, AroundKeeps DEF DeleteUnits
<1>4. CASE Restart
  BY <1>4, RestartKeeps
<1>5. ASSUME NEW r \in Requests, NEW c \in Communities, RunNow(r, c) PROVE IInv'
  <2>1. r \in Workers /\ "snapshot" \in Steps
    BY DEF Workers, Steps
  <2>q. QED
    BY <1>5, <2>1, StartKeeps DEF RunNow
<1>6. ASSUME NEW w \in Workers, RunAll(w) PROVE IInv'
  <2>1. "list" \in Steps
    BY DEF Steps
  <2>q. QED
    BY <1>6, <2>1, StartKeeps DEF RunAll
<1>7. ASSUME NEW w \in Workers, Work(w) PROVE IInv'
  BY <1>7, RoundKeeps, SnapshotKeeps, StoredKeeps DEF Work
<1>8. CASE Status
  BY <1>8, StatusKeeps
<1>q. QED
  BY <1>1, <1>2, <1>3, <1>4, <1>5, <1>6, <1>7, <1>8 DEF Next

LEMMA InitHolds == Init => IInv
<1> SUFFICES ASSUME Init PROVE IInv
  OBVIOUS
<1>1. TypeOK
  BY RunsAssumption DEF Init, TypeOK
<1>2. Bounded
  <2>1. \A c \in Communities : hours[c] \subseteq 1..0
    BY DEF Init
  <2>q. QED
    BY <2>1 DEF Bounded
<1>3. \A c \in Communities : 1..Len(rows[c]) = {}
  BY DEF Init
<1>4. OldestFirst /\ FallbackWithinRun
  BY <1>3 DEF OldestFirst, FallbackWithinRun
<1>5. Numbered /\ Untouched /\ AtHand /\ HasRead
  BY <1>3 DEF Init, Numbered, Untouched, AtHand, HasRead
<1>q. QED
  BY <1>1, <1>2, <1>4, <1>5 DEF IInv

\* The inductive invariant holds in every state of every behaviour of the
\* rounds and runs, those cut short by an exception or a restart included.
THEOREM RunsInductive == Spec => []IInv
<1>1. IInv /\ [Next]_vars => IInv'
  BY StepKeeps
<1>q. QED
  BY <1>1, InitHolds, PTL DEF Spec

\* Every variable keeps its type; in particular an attempt is made at most
\* RetryCount + 1 times (_analyze_payload's loop over ai_retry_count).
THEOREM RunsTypeCorrect == Spec => []TypeOK
<1>1. IInv => TypeOK
  BY DEF IInv
<1>q. QED
  BY <1>1, RunsInductive, PTL

\* Within a run the rows are stored oldest hour first and each hour once,
\* however many runs of the same community interleave (run_once_for_community
\* takes no lock).
THEOREM OldestFirstHolds == Spec => []OldestFirst
<1>1. IInv => OldestFirst
  BY DEF IInv
<1>q. QED
  BY <1>1, RunsInductive, PTL

\* A failed row carries the last answer of its own run about its own
\* community, or nothing: last_success_result is never another run's.
THEOREM FallbackWithinRunHolds == Spec => []FallbackWithinRun
<1>1. IInv => FallbackWithinRun
  BY DEF IInv
<1>q. QED
  BY <1>1, RunsInductive, PTL

\* When a run returns, its rows are of exactly the hours it took, and what it
\* answers is the last of its successes.
THEOREM AnsweredTruthfullyHolds == Spec => []AnsweredTruthfully
<1>1. IInv => AnsweredTruthfully
  BY DEF IInv, AtHand, InPlace, Halfway, LastAnswer, AnsweredTruthfully
<1>q. QED
  BY <1>1, RunsInductive, PTL

\* The two queries of get_status do not contradict each other: if the last row
\* is a success, the last success is that row or a later one, whatever is
\* stored between the queries.
THEOREM StatusCoherentHolds == Spec => StatusCoherent
<1> DEFINE Coherent ==
        StatusReadSuccess /\ StatusAnswer.last > 0 =>
            \/ rows[reader.community][StatusAnswer.last].status = "failed"
            \/ StatusAnswer.success >= StatusAnswer.last
<1>1. IInv => Coherent
  <2> SUFFICES ASSUME IInv, reader # NotReading, StatusAnswer.last > 0
               PROVE  \/ rows[reader.community][StatusAnswer.last].status = "failed"
                      \/ StatusAnswer.success >= StatusAnswer.last
    BY DEF StatusReadSuccess
  <2>1. reader \in Reading
    BY DEF IInv, TypeOK
  <2>2. PICK c \in Communities, last \in Nat : c = reader.community /\ last = reader.last
    BY <2>1 DEF Reading
  <2>3. /\ rows[c] \in Seq(Rows)
        /\ last \in 1..Len(rows[c])
    BY <2>2 DEF IInv, TypeOK, HasRead, StatusAnswer
  <2>4. rows[c][last] \in Rows
    BY <2>3
  <2>5. CASE rows[c][last].status = "success"
    <3>1. last \in Successes(c) /\ Successes(c) \in SUBSET (1..Len(rows[c]))
      BY <2>3, <2>5 DEF Successes
    <3>2. last <= Greatest(Successes(c)) /\ Greatest(Successes(c)) \in Nat
      <4>1. Len(rows[c]) \in Nat
        BY <2>3
      <4>2. /\ Greatest(Successes(c)) \in Successes(c)
            /\ last <= Greatest(Successes(c))
        BY <3>1, <4>1, GreatestIn, Zenon
      <4>q. QED
        BY <3>1, <4>1, <4>2
    <3>3. LastSuccess(c) = Greatest(Successes(c))
      BY <3>1 DEF LastSuccess
    <3>q. QED
      BY <2>2, <3>2, <3>3 DEF StatusAnswer
  <2>q. QED
    BY <2>2, <2>4, <2>5 DEF Rows, StatusAnswer
<1>2. IInv /\ [Next]_vars => [Coherent]_vars
  BY <1>1
<1>q. QED
  BY <1>2, RunsInductive, PTL DEF Spec, StatusCoherent

-----------------------------------------------------------------------------
(* The runs implement the log.                                             *)

\* A run that has come to a community has stored no row of a later one, and
\* what is left to analyse has readings.
Rising(work) ==
    work.at # "list" =>
        /\ \A d \in work.rest : work.community < d
        /\ \A d \in Communities : RowsOf(d, work.run) # {} => d <= work.community
        /\ work.at = "analyze" => work.todo \subseteq hours[work.community]

Ascending == \A w \in Workers : worker[w] # Idle => Rising(worker[w])

\* The first of the communities left comes before the others.
LEMMA RunFirstRises ==
    ASSUME NEW work \in Busy, NEW left \in SUBSET Communities, left # {}
    PROVE  LET next == RunFirst(work, left)
           IN  \A d \in next.rest : next.community < d
<1> DEFINE first == Least(left)
<1>1. first \in left /\ \A d \in left : first <= d
  BY LeastIn, RunsAssumption, Zenon
<1> HIDE DEF first
<1>2. RunFirst(work, left) =
        [work EXCEPT !.at = "snapshot", !.community = first, !.rest = left \ {first}]
  BY Zenon DEF RunFirst, first
<1>3. \A d \in left \ {first} : first < d
  BY <1>1, RunsAssumption
<1>q. QED
  BY <1>2, <1>3 DEF Busy

\* Readings that are added, and a step of another run, do not disturb it.
LEMMA RisingStays ==
    ASSUME NEW work,
           \A d \in Communities : RowsOf(d, work.run)' = RowsOf(d, work.run),
           work.at = "analyze" => hours[work.community] \subseteq hours'[work.community],
           Rising(work)
    PROVE  Rising(work)'
<1> USE DEF Rising
<1>q. QED
  OBVIOUS

\* A thread goes on without storing a row.
LEMMA MoveAscends ==
    ASSUME TypeOK, Ascending, NEW w \in Workers, NEW work,
           Go(w, work), UNCHANGED rows, work = Idle \/ Rising(work)
    PROVE  Ascending'
<1>1. /\ worker'[w] = work
      /\ \A v \in Workers \ {w} : worker'[v] = worker[v]
      /\ UNCHANGED <<hours, rows>>
  BY DEF TypeOK, Go
<1>2. ASSUME NEW x, Rising(x) PROVE Rising(x)'
  BY <1>1, <1>2, RowsStay DEF Rising
<1>3. \A v \in Workers : worker'[v] # Idle => Rising(worker'[v])
  BY <1>1 DEF Ascending
<1>q. QED
  BY <1>2, <1>3 DEF Ascending, Rising

\* A step that neither stores a row nor moves a thread.
LEMMA AroundAscends ==
    ASSUME IInv, Ascending, UNCHANGED <<rows, worker>>,
           \A c \in Communities : hours[c] \subseteq hours'[c]
    PROVE  Ascending'
<1>1. ASSUME NEW w \in Workers, worker[w] # Idle PROVE Rising(worker[w])'
  <2>1. worker[w].at = "analyze" => worker[w].community \in Communities
    BY <1>1 DEF IInv, AtHand, InPlace
  <2>2. Rising(worker[w])
    BY <1>1 DEF Ascending
  <2>q. QED
    BY <2>1, <2>2, RowsStay DEF Rising
<1>q. QED
  BY <1>1 DEF Ascending

LEMMA RoundAscends ==
    ASSUME IInv, Ascending, NEW w \in Workers, ListCommunities(w) \/ Answer(w)
    PROVE  Ascending'
<1> USE DEF IInv
<1>1. worker[w] \in Busy /\ worker[w] # Idle /\ InPlace(worker[w])
  BY WorkerType DEF ListCommunities, Answer, Steps, AtHand
<1>2. ASSUME NEW work \in Busy, NEW left \in SUBSET Communities, left # {},
             work.run = worker[w].run,
             \A c \in left, d \in Communities :
                RowsOf(d, worker[w].run) # {} => d <= c
      PROVE  Rising(RunFirst(work, left))
  BY <1>2, RunFirstType, RunFirstRises DEF Rising
<1>3. CASE ListCommunities(w)
  <2> DEFINE left == {c \in Communities : HasSnapshots(c)}
             next == RunFirst(worker[w], left)
  <2>1. \A d \in Communities : RowsOf(d, worker[w].run) = {}
    BY <1>1, <1>3 DEF ListCommunities, Untouched, ToCome
  <2>2. left = {} => next = Idle
    BY Zenon DEF RunFirst
  <2>3. left # {} => Rising(next)
    BY <1>1, <1>2, <2>1
  <2>4. Go(w, next) /\ UNCHANGED rows
    BY <1>3 DEF ListCommunities
  <2> HIDE DEF next
  <2>q. QED
    BY <2>2, <2>3, <2>4, MoveAscends
<1>4. CASE Answer(w)
  <2> DEFINE left == worker[w].rest
             work == Returned(worker[w])
             next == RunFirst(work, left)
  <2>1. /\ work \in Busy
        /\ work.run = worker[w].run
        /\ left \in SUBSET Communities
        /\ worker[w].community \in Communities
    BY <1>1, <1>4 DEF Returned, Busy, Answer, InPlace
  <2>2. \A c \in left, d \in Communities : RowsOf(d, worker[w].run) # {} => d <= c
    <3>1. \A c \in left : worker[w].community < c
      BY <1>1, <1>4 DEF Ascending, Rising, Answer
    <3>2. \A d \in Communities : RowsOf(d, worker[w].run) # {} => d <= worker[w].community
      BY <1>1, <1>4 DEF Ascending, Rising, Answer
    <3>3. PICK m \in Nat : m = worker[w].community
      BY <2>1, RunsAssumption
    <3>4. ASSUME NEW c \in left, NEW d \in Communities, RowsOf(d, worker[w].run) # {}
          PROVE  d <= c
      <4>1. c \in Nat /\ d \in Nat
        BY <2>1, RunsAssumption
      <4>2. m < c /\ d <= m
        BY <3>1, <3>2, <3>3, <3>4
      <4>q. QED
        BY <4>1, <4>2
    <3>q. QED
      BY <3>4
  <2>3. left = {} => next = Idle
    BY Zenon DEF RunFirst
  <2> HIDE DEF work
  <2>4. left # {} => Rising(next)
    BY <1>2, <2>1, <2>2
  <2>5. Go(w, next) /\ UNCHANGED rows
    BY <1>4 DEF Answer, work
  <2> HIDE DEF next
  <2>q. QED
    BY <2>3, <2>4, <2>5, MoveAscends
<1>q. QED
  BY <1>3, <1>4

LEMMA SnapshotAscends ==
    ASSUME IInv, Ascending, NEW w \in Workers,
           NoSnapshots(w) \/ BuildSnapshots(w) \/ AttemptFails(w) \/ RunRaises(w)
    PROVE  Ascending'
<1> USE DEF IInv
<1>1. worker[w] \in Busy /\ worker[w] # Idle /\ Rising(worker[w])
  BY WorkerType DEF NoSnapshots, BuildSnapshots, AttemptFails, RunRaises, Steps, Ascending
<1>2. CASE NoSnapshots(w) \/ RunRaises(w)
  <2>1. PICK work : work = Idle
    OBVIOUS
  <2>2. Go(w, work) /\ UNCHANGED rows
    BY <1>2, <2>1 DEF NoSnapshots, RunRaises
  <2>q. QED
    BY <2>1, <2>2, MoveAscends
<1>3. CASE BuildSnapshots(w)
  <2> DEFINE taken == Buckets(w, worker[w].community)
             work == [worker[w] EXCEPT !.at = "analyze", !.payloads = taken, !.todo = taken]
  <2>1. taken \subseteq hours[worker[w].community]
    BY DEF Buckets, Newest
  <2>2. Go(w, work) /\ UNCHANGED rows
    BY <1>3 DEF BuildSnapshots
  <2> HIDE DEF taken
  <2>3. /\ work.run = worker[w].run
        /\ work.rest = worker[w].rest
        /\ work.community = worker[w].community
        /\ work.todo = taken
    BY <1>1 DEF Busy
  <2> HIDE DEF work
  <2>4. Rising(work)
    BY <1>1, <1>3, <2>1, <2>3 DEF Rising, BuildSnapshots
  <2>q. QED
    BY <2>2, <2>4, MoveAscends
<1>4. CASE AttemptFails(w)
  <2> DEFINE work == [worker[w] EXCEPT !.tries = @ + 1]
  <2>1. Go(w, work) /\ UNCHANGED rows
    BY <1>4 DEF AttemptFails
  <2>2. /\ work.at = worker[w].at
        /\ work.run = worker[w].run
        /\ work.rest = worker[w].rest
        /\ work.community = worker[w].community
        /\ work.todo = worker[w].todo
    BY <1>1 DEF Busy
  <2> HIDE DEF work
  <2>3. Rising(work)
    BY <1>1, <2>2 DEF Rising
  <2>q. QED
    BY <2>1, <2>3, MoveAscends
<1>q. QED
  BY <1>2, <1>3, <1>4

LEMMA StoredAscends ==
    ASSUME IInv, Ascending, NEW w \in Workers, NEW row, StoredRow(w, row)
    PROVE  Ascending'
<1>0. PICK c \in Communities : c = worker[w].community
  BY StoredAppends
<1>1. /\ worker[w] \in Busy
      /\ worker[w] # Idle
      /\ Rising(worker[w])
      /\ worker[w].at = "analyze"
      /\ row.run = worker[w].run
      /\ row.run \in Runs
  BY HourAtHand DEF StoredRow, Ascending, Busy
<1>2. ASSUME NEW d \in Communities, NEW run \in Runs, d # c \/ run # row.run
      PROVE  RowsOf(d, run)' = RowsOf(d, run)
  BY <1>0, <1>2, AppendedElsewhere, StoredAppends
<1>3. ASSUME NEW v \in Workers \ {w}, worker'[v] # Idle
      PROVE  Rising(worker[v])'
  <2>1. worker'[v] = worker[v] /\ worker[v] # Idle
    BY <1>3, StoredWork
  <2>2. PICK run \in Runs : run = worker[v].run /\ run # row.run
    BY <1>1, <2>1, WorkerType DEF IInv, Numbered, Busy
  <2>3. \A d \in Communities : RowsOf(d, run)' = RowsOf(d, run)
    BY <1>2, <2>2
  <2>4. Rising(worker[v]) /\ hours' = hours
    BY <2>1, StoredAppends DEF Ascending
  <2>q. QED
    BY <2>1, <2>2, <2>3, <2>4 DEF Rising
<1>4. Rising(worker[w])'
  <2>1. /\ worker'[w].run = row.run
        /\ worker'[w].rest = worker[w].rest
        /\ worker'[w].community = c
        /\ worker'[w].todo \subseteq worker[w].todo
        /\ hours' = hours
    BY <1>0, StoredWork, StoredAppends
  <2>2. ASSUME NEW d \in Communities, RowsOf(d, row.run)' # {} PROVE d <= c
    <3>0. RowsOf(d, row.run) # {} => d <= c
      BY <1>0, <1>1 DEF Rising
    <3>1. CASE d = c
      BY <3>1, RunsAssumption
    <3>2. CASE d # c
      BY <1>1, <1>2, <2>2, <3>0, <3>2
    <3>q. QED
      BY <3>1, <3>2
  <2>q. QED
    BY <1>0, <1>1, <2>1, <2>2 DEF Rising
<1>q. QED
  BY <1>3, <1>4 DEF Ascending

LEMMA StartAscends ==
    ASSUME IInv, Ascending, NEW w \in Workers, NEW step \in Steps, NEW c,
           \/ step = "snapshot" /\ c \in Communities
           \/ step = "list" /\ c = None,
           Start(w, step, c)
    PROVE  Ascending'
<1> DEFINE work == [at |-> step, run |-> begun + 1, rest |-> {}, community |-> c,
                    payloads |-> {}, todo |-> {}, tries |-> 0, last |-> NoAnswer]
<1>1. /\ worker'[w] = work
      /\ \A v \in Workers \ {w} : worker'[v] = worker[v]
      /\ UNCHANGED <<hours, rows>>
  BY DEF IInv, TypeOK, Start
<1>2. work.at # "analyze" /\ work.run = begun + 1 /\ work.rest = {}
  OBVIOUS
<1> HIDE DEF work
<1>3. Rising(work)
  BY <1>2, NewRun DEF IInv, Rising
<1>4. ASSUME NEW x, Rising(x) PROVE Rising(x)'
  BY <1>1, <1>4, RowsStay DEF Rising
<1>5. \A v \in Workers : worker'[v] # Idle => Rising(worker'[v])
  BY <1>1, <1>3 DEF Ascending
<1>q. QED
  BY <1>4, <1>5 DEF Ascending, Rising

LEMMA StepAscends == IInv /\ Ascending /\ [Next]_vars => Ascending'
<1> SUFFICES ASSUME IInv, Ascending, [Next]_vars PROVE Ascending'
  OBVIOUS
<1>1. CASE UNCHANGED vars
  BY <1>1, AroundAscends DEF vars
<1>2. ASSUME NEW reading \in Readings, Ingest(reading[1], reading[2]) PROVE Ascending'
  BY <1>2, AroundAscends DEF Ingest, IInv, TypeOK
<1>3. ASSUME NEW c \in Communities, DeleteUnits(c) PROVE Ascending'
  BY <1>3, AroundAscends DEF DeleteUnits
<1>4. CASE Restart
  BY <1>4 DEF Restart, Ascending
<1>5. ASSUME NEW r \in Requests, NEW c \in Communities, RunNow(r, c) PROVE Ascending'
  <2>1. r \in Workers /\ "snapshot" \in Steps
    BY DEF Workers, Steps
  <2>q. QED
    BY <1>5, <2>1, StartAscends DEF RunNow
<1>6. ASSUME NEW w \in Workers, RunAll(w) PROVE Ascending'
  <2>1. "list" \in Steps
    BY DEF Steps
  <2>q. QED
    BY <1>6, <2>1, StartAscends DEF RunAll
<1>7. ASSUME NEW w \in Workers, Work(w) PROVE Ascending'
  <2>1. CASE RecordSuccess(w) \/ RecordFailure(w)
    BY <2>1, Records, StoredAscends
  <2>q. QED
    BY <1>7, <2>1, RoundAscends, SnapshotAscends DEF Work
<1>8. CASE Status
  BY <1>8, AroundAscends DEF Status, StatusReadLast, StatusReadSuccess
<1>q. QED
  BY <1>1, <1>2, <1>3, <1>4, <1>5, <1>6, <1>7, <1>8 DEF Next

LEMMA AscendingHolds == Spec => []Ascending
<1>1. Init => Ascending
  BY DEF Init, Ascending
<1>q. QED
  BY <1>1, StepAscends, RunsInductive, PTL DEF Spec

\* The runs at work.
Open == {worker[w].run : w \in {v \in Workers : worker[v] # Idle}}

Mapped == <<hours, rows, Open>>

\* What the log calls the rows of a run are the run's rows.
LEMMA LogRows ==
    ASSUME NEW c, NEW run
    PROVE  Log!Of(c, run) = RowsOf(c, run) /\ Log!Answered(c, run) = SuccessesOf(c, run)
<1>1. Log!Of(c, run) = RowsOf(c, run)
  BY DEF Log!Of, RowsOf
<1>2. SuccessesOf(c, run) = {i \in RowsOf(c, run) : rows[c][i].status = "success"}
  BY DEF SuccessesOf, RowsOf, Successes
<1>q. QED
  BY <1>1, <1>2 DEF Log!Answered

\* The last answer of a run is what the log wants in a failed row.
LEMMA LogLatest ==
    ASSUME TypeOK, NEW c \in Communities, NEW run
    PROVE  LastAnswer(c, run) \in Log!Latest(c, run)
<1> DEFINE S == SuccessesOf(c, run)
<1>1. S \in SUBSET (1..Len(rows[c])) /\ Len(rows[c]) \in Nat
  BY DEF SuccessesOf, RowsOf, TypeOK
<1>2. S # {} => Greatest(S) \in S /\ \A k \in S : k <= Greatest(S)
  BY <1>1, GreatestIn, Zenon
<1>3. Log!Answered(c, run) = S
  BY LogRows
<1> HIDE DEF S
<1>4. LastAnswer(c, run) = IF S = {} THEN NoAnswer ELSE rows[c][Greatest(S)].result
  BY DEF LastAnswer, S
<1>q. QED
  BY <1>2, <1>3, <1>4 DEF Log!Latest

\* A thread that goes on within its run keeps it open; one that is done ends it.
LEMMA GoOpen ==
    ASSUME IInv, NEW w \in Workers, worker[w] # Idle, NEW work, Go(w, work),
           work = Idle \/ (work # Idle /\ work.run = worker[w].run)
    PROVE  Open' = IF work = Idle THEN Open \ {worker[w].run} ELSE Open
<1>1. /\ worker'[w] = work
      /\ \A v \in Workers \ {w} : worker'[v] = worker[v]
  BY DEF IInv, TypeOK, Go
<1>2. \A v \in Workers \ {w} : worker[v] # Idle => worker[v].run # worker[w].run
  BY DEF IInv, Numbered
<1>q. QED
  BY <1>1, <1>2 DEF Open

\* A step that neither stores a row nor ends a run.
LEMMA GoIsSilent ==
    ASSUME IInv, NEW w \in Workers, worker[w] # Idle, NEW work, Go(w, work),
           UNCHANGED rows, work # Idle, work.run = worker[w].run
    PROVE  UNCHANGED Mapped
<1>1. Open' = Open
  BY GoOpen
<1>q. QED
  BY <1>1 DEF Mapped, Go

LEMMA GoEnds ==
    ASSUME IInv, NEW w \in Workers, worker[w] # Idle, Go(w, Idle), UNCHANGED rows
    PROVE  Log!LogNext
<1>1. PICK work : work = Idle
  OBVIOUS
<1>2. PICK run \in Runs : run = worker[w].run
  BY WorkerType DEF IInv, Busy
<1>3. Open' = Open \ {run}
  BY <1>1, <1>2, GoOpen
<1>4. Log!End(run)
  BY <1>3 DEF Log!End, Go, Open
<1>q. QED
  BY <1>4 DEF Log!LogNext

LEMMA StartBegins ==
    ASSUME IInv, NEW w \in Workers, NEW step, NEW c, Start(w, step, c), step # "idle"
    PROVE  Log!LogNext
<1> USE DEF IInv
<1>1. PICK run \in Runs : run = begun + 1 /\ begun \in Nat
  BY RunsAssumption DEF TypeOK, Start, Runs
<1>2. /\ worker[w] = Idle
      /\ worker'[w].run = run
      /\ worker'[w] # Idle
      /\ \A v \in Workers \ {w} : worker'[v] = worker[v]
      /\ UNCHANGED <<hours, rows>>
  BY <1>1 DEF TypeOK, Start, Idle
<1>3. \A v \in Workers : worker[v] # Idle => worker[v].run \in Nat /\ worker[v].run <= begun
  BY WorkerType DEF Busy, Runs, Numbered
<1>4. run \notin Open
  BY <1>1, <1>3 DEF Open
<1>5. \A d \in Communities : Log!Of(d, run) = {}
  BY <1>1, NewRun, LogRows
<1>6. Open' = Open \union {run}
  BY <1>2 DEF Open
<1>7. Log!Begin(run)
  BY <1>2, <1>4, <1>5, <1>6 DEF Log!Begin, Open
<1>q. QED
  BY <1>7 DEF Log!LogNext

LEMMA StoredIsStored ==
    ASSUME IInv, Ascending, NEW w \in Workers, NEW row, StoredRow(w, row)
    PROVE  Log!LogNext
<1>0. PICK c \in Communities, run \in Runs, hour \in Hours :
          /\ c = worker[w].community
          /\ run = worker[w].run /\ run = row.run
          /\ hour = Hour(w) /\ hour = row.hour
  BY HourAtHand DEF StoredRow, Busy
<1>1. /\ worker[w] # Idle
      /\ worker[w].at = "analyze"
      /\ Halfway(c, worker[w])
      /\ hour \in worker[w].todo
      /\ Rising(worker[w])
  BY <1>0, HourAtHand DEF StoredRow, Ascending
<1>2. Open' = Open /\ run \in Open
  <2>1. PICK work : work = worker'[w]
    OBVIOUS
  <2>2. work # Idle /\ work.run = worker[w].run
    BY <1>0, <2>1, StoredWork
  <2>3. \A v \in Workers \ {w} : worker'[v] = worker[v]
    BY StoredWork
  <2>4. \A v \in Workers : /\ worker'[v] # Idle <=> worker[v] # Idle
                           /\ worker'[v].run = worker[v].run
    BY <1>1, <2>1, <2>2, <2>3
  <2>q. QED
    BY <1>0, <1>1, <2>4 DEF Open
<1>3. Log!InOrder(c, run, hour)
  <2>1. \A d \in Communities : RowsOf(d, run) # {} => d <= c
    BY <1>0, <1>1 DEF Rising
  <2>2. \A i \in RowsOf(c, run) : rows[c][i].hour < hour
    BY <1>0, <1>1 DEF Halfway
  <2>q. QED
    BY <2>1, <2>2, LogRows DEF Log!InOrder
<1>4. hour \in hours[c]
  BY <1>0, <1>1 DEF Rising
<1>5. /\ rows' = [rows EXCEPT ![c] = Append(@, row)]
      /\ UNCHANGED hours
      /\ row \in Rows
  BY <1>0, StoredAppends
<1>6. Log!Store(c, row)
  BY <1>0, <1>2, <1>3, <1>4, <1>5 DEF Log!Store, Open
<1>7. CASE row.status = "success"
  <2>1. row = [status |-> "success", run |-> run, hour |-> hour,
               result |-> [community |-> c, run |-> run, hour |-> hour]]
    BY <1>0, <1>5, <1>7 DEF StoredRow, Rows
  <2>2. Log!Succeed(c, run, hour)
    BY <1>6, <2>1 DEF Log!Succeed
  <2>q. QED
    BY <2>2 DEF Log!LogNext
<1>8. CASE row.status = "failed"
  <2>1. row.result = LastAnswer(c, run)
    BY <1>0, <1>1, <1>8 DEF StoredRow, Halfway
  <2>2. row.result \in Log!Latest(c, run)
    BY <2>1, LogLatest DEF IInv
  <2>3. row = [status |-> "failed", run |-> run, hour |-> hour, result |-> row.result]
    BY <1>0, <1>5, <1>8 DEF Rows
  <2>4. Log!Fail(c, run, hour)
    BY <1>6, <2>2, <2>3 DEF Log!Fail
  <2>q. QED
    BY <2>4 DEF Log!LogNext
<1>q. QED
  BY <1>5, <1>7, <1>8 DEF Rows

LEMMA WorkIsLogged ==
    ASSUME IInv, Ascending, NEW w \in Workers, Work(w)
    PROVE  Log!LogNext \/ UNCHANGED Mapped
<1>1. CASE RecordSuccess(w) \/ RecordFailure(w)
  BY <1>1, Records, StoredIsStored
<1>2. CASE NoSnapshots(w) \/ RunRaises(w)
  <2>1. worker[w] # Idle
    BY <1>2 DEF NoSnapshots, RunRaises, Idle
  <2>q. QED
    BY <1>2, <2>1, GoEnds DEF NoSnapshots, RunRaises
<1>3. CASE BuildSnapshots(w) \/ AttemptFails(w)
  <2>1. PICK work : /\ Go(w, work) /\ UNCHANGED rows
                    /\ work = worker'[w]
    BY <1>3 DEF BuildSnapshots, AttemptFails, Go, IInv, TypeOK
  <2>2. worker[w] \in Busy /\ worker[w] # Idle
    BY <1>3, WorkerType DEF BuildSnapshots, AttemptFails, Steps, IInv
  <2>3. work.run = worker[w].run /\ work.at = "analyze"
    BY <1>3, <2>1, <2>2 DEF BuildSnapshots, AttemptFails, Go, IInv, TypeOK, Busy
  <2>q. QED
    BY <2>1, <2>2, <2>3, GoIsSilent DEF Idle
<1>4. CASE ListCommunities(w) \/ Answer(w)
  <2>1. worker[w] \in Busy /\ worker[w] # Idle
    BY <1>4, WorkerType DEF ListCommunities, Answer, Steps, IInv
  <2>2. PICK work \in Busy, left \in SUBSET Communities :
            /\ work.run = worker[w].run
            /\ Go(w, RunFirst(work, left))
            /\ UNCHANGED rows
    <3>1. Returned(worker[w]) \in Busy /\ Returned(worker[w]).run = worker[w].run
      BY <2>1 DEF Returned, Busy
    <3>2. worker[w].rest \in SUBSET Communities
      BY <2>1 DEF Busy
    <3>q. QED
      BY <1>4, <2>1, <3>1, <3>2 DEF ListCommunities, Answer
  <2>3. CASE left = {}
    <3>1. RunFirst(work, left) = Idle
      BY <2>3, Zenon DEF RunFirst
    <3>q. QED
      BY <2>1, <2>2, <3>1, GoEnds
  <2>4. CASE left # {}
    <3>1. PICK next : next = RunFirst(work, left)
      OBVIOUS
    <3>2. next.run = worker[w].run /\ next # Idle
      BY <2>2, <2>4, <3>1, RunFirstType DEF Idle
    <3>q. QED
      BY <2>1, <2>2, <3>1, <3>2, GoIsSilent
  <2>q. QED
    BY <2>3, <2>4
<1>q. QED
  BY <1>1, <1>2, <1>3, <1>4 DEF Work

LEMMA StepLog == IInv /\ Ascending /\ [Next]_vars => [Log!LogNext]_Mapped
<1> SUFFICES ASSUME IInv, Ascending, [Next]_vars
             PROVE  Log!LogNext \/ UNCHANGED Mapped
  OBVIOUS
<1>1. UNCHANGED <<hours, rows, worker>> => UNCHANGED Mapped
  BY DEF Mapped, Open
<1>2. CASE UNCHANGED vars
  BY <1>1, <1>2 DEF vars
<1>3. ASSUME NEW reading \in Readings, Ingest(reading[1], reading[2])
      PROVE  Log!LogNext
  <2>1. reading[1] \in Communities /\ reading[2] \in Hours
    BY RunsAssumption DEF Hours
  <2>2. Log!Measure(reading[1], reading[2])
    BY <1>3 DEF Ingest, Log!Measure
  <2>q. QED
    BY <2>1, <2>2 DEF Log!LogNext
<1>4. ASSUME NEW c \in Communities, DeleteUnits(c) PROVE UNCHANGED Mapped
  BY <1>1, <1>4 DEF DeleteUnits
<1>5. CASE Restart
  <2>1. Log!Crash
    BY <1>5 DEF Restart, Log!Crash
  <2>q. QED
    BY <2>1 DEF Log!LogNext
<1>6. ASSUME NEW r \in Requests, NEW c \in Communities, RunNow(r, c) PROVE Log!LogNext
  BY <1>6, StartBegins DEF RunNow, Workers
<1>7. ASSUME NEW w \in Workers, RunAll(w) PROVE Log!LogNext
  BY <1>7, StartBegins DEF RunAll
<1>8. CASE Status
  BY <1>1, <1>8 DEF Status, StatusReadLast, StatusReadSuccess
<1>q. QED
  BY <1>2, <1>3, <1>4, <1>5, <1>6, <1>7, <1>8, WorkIsLogged DEF Next

\* ImplementsLog: whatever runs overlap, crash or raise, the results of a
\* community are a log its runs append to in order, each failed row with the
\* latest answer of its own run.
THEOREM ImplementsLogHolds == Spec => ImplementsLog
<1>1. Init => Log!LogInit
  BY DEF Init, Log!LogInit
<1>2. IInv /\ Ascending /\ [Next]_vars => [Log!LogNext]_<<hours, rows, Open>>
  BY StepLog DEF Mapped
<1>q. QED
  BY <1>1, <1>2, RunsInductive, AscendingHolds, PTL
     DEF Spec, ImplementsLog, Log!LogSpec, Open

-----------------------------------------------------------------------------
(* Rounds get nearer to their end.                                         *)

LEMMA WorkAdvances ==
    ASSUME IInv, NEW w \in Workers, Work(w), worker'[w] \notin {worker[w], Idle}
    PROVE  Nearer(worker[w], worker'[w])
<1> USE DEF IInv
<1>1. CASE RecordSuccess(w) \/ RecordFailure(w)
  <2>1. PICK row : StoredRow(w, row)
    BY <1>1, Records
  <2>2. /\ worker[w].at = "analyze"
        /\ row.hour \in worker[w].todo
        /\ worker'[w].rest = worker[w].rest
        /\ worker'[w].at \in {"answer", "analyze"}
        /\ worker'[w].todo = worker[w].todo \ {row.hour}
    BY <2>1, HourAtHand, StoredWork DEF StoredRow
  <2>q. QED
    BY <2>2 DEF Nearer, Fewer, Place
<1>2. CASE NoSnapshots(w) \/ RunRaises(w)
  BY <1>2 DEF NoSnapshots, RunRaises, Go, TypeOK
<1>3. CASE BuildSnapshots(w)
  <2>1. worker[w] \in Busy
    BY <1>3, WorkerType DEF BuildSnapshots, Steps
  <2>2. /\ worker[w].at = "snapshot"
        /\ worker'[w].at = "analyze"
        /\ worker'[w].rest = worker[w].rest
    BY <1>3, <2>1 DEF BuildSnapshots, Go, TypeOK, Busy
  <2>q. QED
    BY <2>2 DEF Nearer, Place
<1>4. CASE AttemptFails(w)
  <2>1. worker[w] \in Busy
    BY <1>4, WorkerType DEF AttemptFails, Steps
  <2>2. /\ worker[w].at = "analyze"
        /\ worker'[w].at = "analyze"
        /\ worker'[w].rest = worker[w].rest
        /\ worker'[w].todo = worker[w].todo
        /\ worker'[w].tries = worker[w].tries + 1
        /\ worker[w].tries \in Nat
    BY <1>4, <2>1, RunsAssumption DEF AttemptFails, Go, TypeOK, Busy
  <2>q. QED
    BY <2>2 DEF Nearer
<1>5. CASE ListCommunities(w)
  <2> DEFINE left == {c \in Communities : HasSnapshots(c)}
  <2>1. worker[w] \in Busy /\ worker[w].at = "list"
    BY <1>5, WorkerType DEF ListCommunities, Steps
  <2>2. worker'[w] = RunFirst(worker[w], left)
    BY <1>5 DEF ListCommunities, Go, TypeOK
  <2>3. left # {}
    BY <2>2, Zenon DEF RunFirst
  <2>4. worker'[w].at = "snapshot"
    BY <2>1, <2>2, <2>3, RunFirstType
  <2>q. QED
    BY <2>1, <2>4 DEF Nearer
<1>6. CASE Answer(w)
  <2> DEFINE left == worker[w].rest
  <2>1. /\ Returned(worker[w]) \in Busy
        /\ left \in SUBSET Communities
    BY <1>6, WorkerType DEF Answer, Steps, Returned, Busy
  <2>2. worker'[w] = RunFirst(Returned(worker[w]), left)
    BY <1>6 DEF Answer, Go, TypeOK
  <2>3. left # {}
    BY <2>2, Zenon DEF RunFirst
  <2>4. /\ worker'[w].at = "snapshot"
        /\ worker'[w].community \in left \ worker'[w].rest
        /\ worker'[w].rest \subseteq left
    BY <2>1, <2>2, <2>3, RunFirstType
  <2>q. QED
    BY <2>4 DEF Nearer, Fewer
<1>q. QED
  BY <1>1, <1>2, <1>3, <1>4, <1>5, <1>6 DEF Work

LEMMA StepAdvances ==
    ASSUME IInv, [Next]_vars, NEW w \in Workers,
           worker[w] # Idle, worker'[w] \notin {worker[w], Idle}
    PROVE  Nearer(worker[w], worker'[w])
<1>1. UNCHANGED worker => FALSE
  OBVIOUS
<1>2. ASSUME NEW v \in Workers, NEW step, NEW c, Start(v, step, c) PROVE FALSE
  BY <1>2 DEF Start, IInv, TypeOK
<1>3. ASSUME NEW v \in Workers, Work(v) PROVE Nearer(worker[w], worker'[w])
  <2>1. CASE v = w
    BY <1>3, <2>1, WorkAdvances
  <2>2. CASE v # w
    <3>1. PICK work : Go(v, work)
      BY <1>3 DEF Work, ListCommunities, NoSnapshots, BuildSnapshots, AttemptFails,
                  RecordSuccess, RecordFailure, RunRaises, Answer, Stored
    <3>q. QED
      BY <2>2, <3>1 DEF Go, IInv, TypeOK
  <2>q. QED
    BY <2>1, <2>2
<1>4. CASE UNCHANGED vars
  BY <1>1, <1>4 DEF vars
<1>5. ASSUME NEW reading \in Readings, Ingest(reading[1], reading[2]) PROVE FALSE
  BY <1>1, <1>5 DEF Ingest
<1>6. ASSUME NEW c \in Communities, DeleteUnits(c) PROVE FALSE
  BY <1>1, <1>6 DEF DeleteUnits
<1>7. CASE Restart
  BY <1>7 DEF Restart
<1>8. ASSUME NEW r \in Requests, NEW c \in Communities, RunNow(r, c) PROVE FALSE
  BY <1>2, <1>8 DEF RunNow, Workers
<1>9. ASSUME NEW v \in Workers, RunAll(v) PROVE FALSE
  BY <1>2, <1>9 DEF RunAll
<1>10. CASE Status
  BY <1>1, <1>10 DEF Status, StatusReadLast, StatusReadSuccess
<1>q. QED
  BY <1>3, <1>4, <1>5, <1>6, <1>7, <1>8, <1>9, <1>10 DEF Next

\* RoundAdvances: with every step a thread is nearer to the end of its round,
\* in an order without infinite descent: its communities, their snapshots and
\* the retries are finitely many.
THEOREM RoundAdvancesHolds == Spec => RoundAdvances
<1>1. IInv /\ [Next]_vars =>
          (\A w \in Workers :
              worker[w] # Idle /\ worker'[w] \notin {worker[w], Idle} =>
                  Nearer(worker[w], worker'[w]))
  BY StepAdvances
<1>2. IInv /\ [Next]_vars =>
          [\A w \in Workers :
              worker[w] # Idle /\ worker'[w] \notin {worker[w], Idle} =>
                  Nearer(worker[w], worker'[w])]_vars
  BY <1>1
<1>q. QED
  BY <1>2, RunsInductive, PTL DEF Spec, RoundAdvances

\* A set of sets has a member that no other is a strict subset of.
LEMMA FewestIn ==
    ASSUME NEW S, IsFiniteSet(S), NEW P \in SUBSET (SUBSET S), P # {}
    PROVE  \E m \in P : \A q \in P : ~Fewer(q, m)
<1>1. P \subseteq FiniteSubsetsOf(S)
  BY FS_Subset DEF FiniteSubsetsOf
<1>2. IsWellFoundedOn(StrictSubsetOrdering(S), FiniteSubsetsOf(S))
  BY FS_StrictSubsetOrderingWellFounded
<1>3. PICK m \in P : \A q \in P : ~(<<q, m>> \in StrictSubsetOrdering(S))
  BY <1>1, <1>2, WFMin, Zenon
<1>4. \A q \in P : Fewer(q, m) => <<q, m>> \in StrictSubsetOrdering(S)
  BY DEF StrictSubsetOrdering, Fewer
<1>q. QED
  BY <1>3, <1>4

Descent == {p \in Busy \X Busy : Nearer(p[2], p[1])}

\* There is no getting nearer for ever: with finitely many communities and
\* hours the order of RoundAdvances is well-founded, so a thread that keeps
\* making steps of run_once_all gets to its end.
THEOREM RoundsAreFinite ==
    ASSUME IsFiniteSet(Communities), IsFiniteSet(Hours)
    PROVE  IsWellFoundedOn(Descent, Busy)
<1>0. SUFFICES ASSUME NEW T \in SUBSET Busy, T # {}
               PROVE  \E x \in T : \A y \in T : ~(<<y, x>> \in Descent)
  BY MinWF, Zenon
<1> SUFFICES \E x \in T : \A y \in T : ~Nearer(x, y)
  BY DEF Descent
<1> DEFINE T1 == {x \in T : x.at # "list"}
<1>1. CASE T1 = {}
  BY <1>0, <1>1 DEF Nearer
<1>2. CASE T1 # {}
  <2> DEFINE Rests == {x.rest : x \in T1}
  <2>1. PICK rest \in Rests : \A q \in Rests : ~Fewer(q, rest)
    <3>1. Rests \in SUBSET (SUBSET Communities) /\ Rests # {}
      BY <1>2 DEF Busy
    <3> HIDE DEF Rests
    <3>q. QED
      BY <3>1, FewestIn
  <2> DEFINE T2 == {x \in T1 : x.rest = rest}
             Places == {4 - Place[x.at] : x \in T2}
  <2>2. \A x \in T1 : Place[x.at] \in 2..4
    BY DEF Busy, Steps, Place
  <2>3. PICK place \in Places : \A q \in Places : place <= q
    <3>1. Places \in SUBSET Nat /\ Places # {}
      BY <2>2
    <3> HIDE DEF Places
    <3>q. QED
      BY <3>1, LeastIn
  <2> DEFINE T3 == {x \in T2 : 4 - Place[x.at] = place}
             Todos == {x.todo : x \in T3}
  <2>4. PICK todo \in Todos : \A q \in Todos : ~Fewer(q, todo)
    <3>1. Todos \in SUBSET (SUBSET Hours) /\ Todos # {}
      BY DEF Busy
    <3> HIDE DEF Todos
    <3>q. QED
      BY <3>1, FewestIn
  <2> DEFINE T4 == {x \in T3 : x.todo = todo}
             Tries == {RetryCount - x.tries : x \in T4}
  <2>5. \A x \in T : x.tries \in 0..RetryCount
    BY DEF Busy
  <2>6. PICK tries \in Tries : \A q \in Tries : tries <= q
    <3>1. Tries \in SUBSET Nat /\ Tries # {}
      BY <2>5, RunsAssumption
    <3> HIDE DEF Tries
    <3>q. QED
      BY <3>1, LeastIn
  <2>7. PICK x \in T4 : tries = RetryCount - x.tries
    OBVIOUS
  <2>8. /\ x \in T /\ x.at # "list"
        /\ x.rest = rest
        /\ 4 - Place[x.at] = place /\ Place[x.at] \in 2..4
        /\ x.todo = todo
    BY <2>2
  <2>9. ASSUME NEW y \in T, Nearer(x, y) PROVE FALSE
    <3>1. y \in T1
      BY <2>9 DEF Nearer
    <3>2. ~Fewer(y.rest, rest)
      BY <2>1, <3>1
    <3>3. /\ y.rest = rest
          /\ \/ Place[x.at] < Place[y.at]
             \/ /\ y.at = x.at
                /\ \/ Fewer(y.todo, todo)
                   \/ y.todo = todo /\ x.tries < y.tries
      <4> HIDE DEF T1, T2, T3, T4
      <4>q. QED
        BY <2>8, <2>9, <3>2, Zenon DEF Nearer
    <3>4. Place[y.at] \in 2..4 /\ place <= 4 - Place[y.at]
      <4>1. y \in T2
        BY <3>1, <3>3
      <4>2. 4 - Place[y.at] \in Places
        BY <4>1
      <4>3. place <= 4 - Place[y.at]
        BY <2>3, <4>2
      <4>q. QED
        BY <2>2, <3>1, <4>3
    <3>5. ~(Place[x.at] < Place[y.at])
      BY <2>8, <3>4
    <3>6. y \in T3
      <4>1. y.at = x.at
        BY <3>3, <3>5, Zenon
      <4>q. QED
        BY <2>8, <3>1, <3>3, <4>1
    <3>7. ~Fewer(y.todo, todo)
      <4>1. y.todo \in Todos
        BY <3>6
      <4>q. QED
        BY <2>4, <4>1
    <3>8. y \in T4 /\ x.tries < y.tries
      BY <3>3, <3>5, <3>6, <3>7
    <3>9. RetryCount - x.tries <= RetryCount - y.tries
      BY <2>6, <2>7, <3>8
    <3>q. QED
      BY <2>5, <2>8, <3>8, <3>9, RunsAssumption
  <2>q. QED
    BY <2>8, <2>9
<1>q. QED
  BY <1>1, <1>2

=============================================================================

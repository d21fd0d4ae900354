-------------------------------- MODULE AIRuns --------------------------------
(***************************************************************************)
(* Runs of the AI analysis: AIOrchestrator and ExternalAIClient of         *)
(* app/services/ai_integration.py and the routes that start and read them. *)
(*                                                                         *)
(* A run takes one community's snapshots, one per hour that has readings,  *)
(* sends each to the external service, oldest first, and stores one row    *)
(* per snapshot in ai_analysis_results.  A round runs every community in   *)
(* turn.  The scheduler's thread makes rounds over the newest hour; each   *)
(* /ai/run-now request makes a run, or a round, over the last ManualHours. *)
(* Nothing keeps two runs of one community apart.                          *)
(*                                                                         *)
(* A snapshot is abstracted to its hour and an answer of the service to    *)
(* the snapshot it is about.  A row gets its time, is inserted and is      *)
(* committed in one step, so the rows of a community are a sequence in the *)
(* order of analyzed_at.                                                   *)
(***************************************************************************)
EXTENDS Integers, Sequences, FiniteSets

CONSTANTS
    Communities,    \* numbered in the order of their ids
    Requests,       \* threads that serve /ai/run-now
    Scheduler,      \* the scheduler's thread
    RetryCount,     \* ai_retry_count
    ManualHours,    \* hours a manual run goes back
    Readings,       \* bound: the communities and hours that may get readings
    MaxRuns,        \* bound: runs and rounds begun
    Watched,        \* bound: the communities whose status is asked for
    DbMayFail       \* whether a query or an insert may raise

ASSUME RunsAssumption ==
    /\ Communities \subseteq Nat \ {0}
    /\ Scheduler \notin Requests
    /\ RetryCount \in Nat
    /\ ManualHours \in Nat \ {0}
    /\ Readings \subseteq Communities \X (Nat \ {0})
    /\ MaxRuns \in Nat
    /\ Watched \subseteq Communities
    /\ DbMayFail \in BOOLEAN

VARIABLES
    hours,      \* the hours of each community that have readings
    units,      \* whether each community has a unit
    rows,       \* ai_analysis_results of each community
    worker,     \* the scheduler's and the requests' threads
    begun,      \* runs and rounds begun
    reader      \* a request inside get_status

vars == <<hours, units, rows, worker, begun, reader>>

None == 0       \* no community

Workers == Requests \union {Scheduler}
Hours == {reading[2] : reading \in Readings}
Runs == 1..MaxRuns

\* What the service answered: which snapshot of which run it is about.
Answers == [community : Communities, run : Runs, hour : Hours]
NoAnswer == [hour |-> 0]

Rows == [status : {"success", "failed"}, run : Runs, hour : Hours,
         result : Answers \union {NoAnswer}]

Steps == {"list", "snapshot", "analyze", "answer"}

\* The communities a round has still to run, the one at hand, the snapshots
\* taken of it, those not yet stored, the retries made of the present one, and
\* last_success_result.
Busy == [at : Steps, run : Runs, rest : SUBSET Communities,
         community : Communities \union {None}, payloads : SUBSET Hours,
         todo : SUBSET Hours, tries : 0..RetryCount,
         last : Answers \union {NoAnswer}]
Idle == [at |-> "idle"]

\* get_status has read the last row, and not yet the last success.
Reading == [community : Communities, last : Nat]
NotReading == [community |-> None]

TypeOK ==
    /\ hours \in [Communities -> SUBSET Hours]
    /\ units \in [Communities -> BOOLEAN]
    /\ rows \in [Communities -> Seq(Rows)]
    /\ worker \in [Workers -> Busy \union {Idle}]
    /\ begun \in 0..MaxRuns
    /\ reader \in Reading \union {NotReading}

Init ==
    /\ hours = [c \in Communities |-> {}]
    /\ units = [c \in Communities |-> FALSE]
    /\ rows = [c \in Communities |-> <<>>]
    /\ worker = [w \in Workers |-> Idle]
    /\ begun = 0
    /\ reader = NotReading

-----------------------------------------------------------------------------
(* Around the runs.                                                        *)

\* ingest_event: a reading, and a unit if there is none.
Ingest(c, h) ==
    /\ hours' = [hours EXCEPT ![c] = @ \union {h}]
    /\ units' = [units EXCEPT ![c] = TRUE]
    /\ UNCHANGED <<rows, worker, begun, reader>>

\* The last unit is deleted; its readings stay.
DeleteUnits(c) ==
    /\ units' = [units EXCEPT ![c] = FALSE]
    /\ UNCHANGED <<hours, rows, worker, begun, reader>>

\* The process ends, in the middle of whatever its threads do, and starts.
Restart ==
    /\ worker' = [w \in Workers |-> Idle]
    /\ reader' = NotReading
    /\ UNCHANGED <<hours, units, rows, begun>>

-----------------------------------------------------------------------------
(* Rounds: run_once_all.                                                   *)

Start(w, step, c) ==
    /\ worker[w] = Idle
    /\ begun < MaxRuns
    /\ begun' = begun + 1
    /\ worker' = [worker EXCEPT ![w] =
          [at |-> step, run |-> begun + 1, rest |-> {}, community |-> c,
           payloads |-> {}, todo |-> {}, tries |-> 0, last |-> NoAnswer]]
    /\ UNCHANGED <<hours, units, rows, reader>>

\* /ai/run-now for one community.
RunNow(r, c) == Start(r, "snapshot", c)

\* /ai/run-now for all, and the scheduler at the end of its interval.
RunAll(w) == Start(w, "list", None)

HasSnapshots(c) == units[c] /\ hours[c] # {}

\* The thread goes on; nothing else changes.
Go(w, work) ==
    /\ worker' = [worker EXCEPT ![w] = work]
    /\ UNCHANGED <<hours, units, begun, reader>>

Least(S) == CHOOSE x \in S : \A y \in S : x <= y

\* On to the first of the communities left, or done.
RunFirst(work, left) ==
    IF left = {} THEN Idle
    ELSE [work EXCEPT !.at = "snapshot", !.community = Least(left),
                      !.rest = left \ {Least(left)}]

ListCommunities(w) ==
    /\ worker[w].at = "list"
    /\ Go(w, RunFirst(worker[w], {c \in Communities : HasSnapshots(c)}))
    /\ UNCHANGED rows

-----------------------------------------------------------------------------
(* Runs: run_once_for_community.                                           *)

\* The newest n hours of c that have readings.
Newest(c, n) == {h \in hours[c] : Cardinality({g \in hours[c] : g > h}) < n}
Buckets(w, c) == Newest(c, IF w = Scheduler THEN 1 ELSE ManualHours)

\* Mutant of NoSnapshots: the round is started over.
NoSnapshotsStartsOver(w) ==
    /\ worker[w].at = "snapshot"
    /\ ~HasSnapshots(worker[w].community)
    /\ Go(w, [worker[w] EXCEPT !.at = "list"])
    /\ UNCHANGED rows

\* Nothing to analyse: ValueError.  It leaves run_once_all too, and with it the
\* communities the round has not come to.
NoSnapshots(w) ==
    /\ worker[w].at = "snapshot"
    /\ ~HasSnapshots(worker[w].community)
    /\ Go(w, Idle)
    /\ UNCHANGED rows

BuildSnapshots(w) ==
    LET taken == Buckets(w, worker[w].community)
    IN  /\ worker[w].at = "snapshot"
        /\ HasSnapshots(worker[w].community)
        /\ Go(w, [worker[w] EXCEPT !.at = "analyze", !.payloads = taken, !.todo = taken])
        /\ UNCHANGED rows

\* Mutant of Hour: the buckets stay in the order of the query, newest first.
HourDescending(w) == CHOOSE h \in worker[w].todo : \A g \in worker[w].todo : g <= h

\* The snapshot at hand.
Hour(w) == Least(worker[w].todo)

\* Mutant of AttemptFails: one retry too many.
AttemptFailsOnceMore(w) ==
    /\ worker[w].at = "analyze"
    /\ worker[w].tries <= RetryCount
    /\ Go(w, [worker[w] EXCEPT !.tries = @ + 1])
    /\ UNCHANGED rows

\* An attempt times out or is answered with an error, and is made again.
AttemptFails(w) ==
    /\ worker[w].at = "analyze"
    /\ worker[w].tries < RetryCount
    /\ Go(w, [worker[w] EXCEPT !.tries = @ + 1])
    /\ UNCHANGED rows

\* The loop goes on to the next snapshot, or ends.
Stored(w, row) ==
    LET c == worker[w].community
        left == worker[w].todo \ {row.hour}
    IN  /\ rows' = [rows EXCEPT ![c] = Append(@, row)]
        /\ Go(w, [worker[w] EXCEPT
                    !.at = IF left = {} THEN "answer" ELSE "analyze",
                    !.todo = left, !.tries = 0,
                    !.last = IF row.status = "success" THEN row.result ELSE @])

\* An attempt is answered, and the answer stored.
RecordSuccess(w) ==
    LET work == worker[w]
    IN  /\ work.at = "analyze"
        /\ Stored(w, [status |-> "success", run |-> work.run, hour |-> Hour(w),
                      result |-> [community |-> work.community, run |-> work.run,
                                  hour |-> Hour(w)]])

FailedRow(w) == [status |-> "failed", run |-> worker[w].run, hour |-> Hour(w),
                 result |-> worker[w].last]

\* Mutant of RecordFailure: a snapshot that failed ends the run.
RecordFailureStops(w) ==
    /\ worker[w].at = "analyze"
    /\ worker[w].tries = RetryCount
    /\ rows' = [rows EXCEPT ![worker[w].community] = Append(@, FailedRow(w))]
    /\ Go(w, [worker[w] EXCEPT !.at = "answer", !.todo = {}])

\* The last attempt fails as well, and analyze raises.
RecordFailure(w) ==
    /\ worker[w].at = "analyze"
    /\ worker[w].tries = RetryCount
    /\ Stored(w, FailedRow(w))

\* A query or an insert raises.  An insert in the try block is followed by the
\* except branch, whose commit raises too because the session was not rolled
\* back: the run ends, and with it the round.
RunRaises(w) ==
    /\ DbMayFail
    /\ worker[w] # Idle
    /\ worker[w].at # "answer"
    /\ Go(w, Idle)
    /\ UNCHANGED rows

\* The local variables of the run are gone.
Returned(work) == [work EXCEPT !.payloads = {}, !.last = NoAnswer]

\* The run returns its result; a round goes on.
Answer(w) ==
    /\ worker[w].at = "answer"
    /\ Go(w, RunFirst(Returned(worker[w]), worker[w].rest))
    /\ UNCHANGED rows

-----------------------------------------------------------------------------
(* get_status: two queries.                                                *)

Successes(c) == {i \in 1..Len(rows[c]) : rows[c][i].status = "success"}
Greatest(S) == CHOOSE x \in S : \A y \in S : y <= x

StatusReadLast(c) ==
    /\ reader = NotReading
    /\ reader' = [community |-> c, last |-> Len(rows[c])]
    /\ UNCHANGED <<hours, units, rows, worker, begun>>

\* Mutant of LastSuccess: ordered the other way round.
FirstSuccess(c) == IF Successes(c) = {} THEN 0 ELSE Least(Successes(c))

LastSuccess(c) == IF Successes(c) = {} THEN 0 ELSE Greatest(Successes(c))

\* The second query: the position of the row it returns is last_success_at.
StatusReadSuccess ==
    /\ reader # NotReading
    /\ reader' = NotReading
    /\ UNCHANGED <<hours, units, rows, worker, begun>>

StatusAnswer == [last |-> reader.last, success |-> LastSuccess(reader.community)]

-----------------------------------------------------------------------------

Work(w) ==
    \/ ListCommunities(w)
    \/ NoSnapshots(w)
    \/ BuildSnapshots(w)
    \/ AttemptFails(w)
    \/ RecordSuccess(w)
    \/ RecordFailure(w)
    \/ RunRaises(w)
    \/ Answer(w)

Status ==
    \/ \E c \in Watched : StatusReadLast(c)
    \/ StatusReadSuccess

Next ==
    \/ \E reading \in Readings : Ingest(reading[1], reading[2])
    \/ \E c \in Communities : DeleteUnits(c)
    \/ Restart
    \/ \E r \in Requests, c \in Communities : RunNow(r, c)
    \/ \E w \in Workers : RunAll(w) \/ Work(w)
    \/ Status

Spec == Init /\ [][Next]_vars

\* Every statement the scheduler has begun ends: the client gives up on an
\* attempt after ai_timeout_seconds.  Whether an attempt is answered is open,
\* and so is what the requests' threads do.
Fairness == WF_vars(Work(Scheduler))

FairSpec == Spec /\ Fairness

-----------------------------------------------------------------------------
(* Properties.                                                             *)

RowsOf(c, run) == {i \in 1..Len(rows[c]) : rows[c][i].run = run}
SuccessesOf(c, run) == RowsOf(c, run) \intersect Successes(c)

\* A run stores its snapshots oldest first and none twice, whatever other runs
\* of the community store in between (run_once_for_community): its last row,
\* which /ai/last-result shows when it is done, is about its newest hour.
OldestFirst ==
    \A c \in Communities : \A i, j \in 1..Len(rows[c]) :
        i < j /\ rows[c][i].run = rows[c][j].run => rows[c][i].hour < rows[c][j].hour

\* The result kept in a failed row is the latest answer of the same run about
\* the same community, and empty only if there was none: no answer of another
\* run, or of the community the round ran before, gets into it.
FallbackWithinRun ==
    \A c \in Communities : \A i \in 1..Len(rows[c]) :
        LET before == {j \in SuccessesOf(c, rows[c][i].run) : j < i}
        IN  rows[c][i].status = "failed" =>
                rows[c][i].result = IF before = {} THEN NoAnswer
                                    ELSE rows[c][Greatest(before)].result

\* What a run returns agrees with what it stored: a row for every snapshot it
\* took, "success" exactly if one of them succeeded, and the last answer.
AnsweredTruthfully ==
    \A w \in Workers : worker[w] # Idle /\ worker[w].at = "answer" =>
        LET c == worker[w].community
            mine == RowsOf(c, worker[w].run)
            good == SuccessesOf(c, worker[w].run)
        IN  /\ {rows[c][i].hour : i \in mine} = worker[w].payloads
            /\ worker[w].last = IF good = {} THEN NoAnswer
                                ELSE rows[c][Greatest(good)].result

\* The two queries of get_status see different states of the table, yet a last
\* run that succeeded is never newer than the last success.
StatusCoherent ==
    [][StatusReadSuccess /\ StatusAnswer.last > 0 =>
          \/ rows[reader.community][StatusAnswer.last].status = "failed"
          \/ StatusAnswer.success >= StatusAnswer.last]_vars

\* The runs implement the log: whichever threads run at the same time, crash or
\* raise, what /ai/last-result and /ai/results read is appended to by runs that
\* go through the communities and the hours in order, and a failed row carries
\* the latest answer of its own run (run_once_all, run_once_for_community).
Log == INSTANCE AnalysisLog WITH
    measured <- hours, log <- rows,
    open <- {worker[w].run : w \in {v \in Workers : worker[v] # Idle}}

ImplementsLog == Log!LogSpec

Place == [list |-> 1, snapshot |-> 2, analyze |-> 3, answer |-> 4]
Fewer(S, T) == S \subseteq T /\ S # T

\* From work to next is a step forward: communities are struck off, a community's
\* snapshots are taken once and struck off, and only the retries of the present
\* one are counted up.
Nearer(work, next) ==
    /\ next.at # "list"
    /\ \/ work.at = "list"
       \/ Fewer(next.rest, work.rest)
       \/ next.rest = work.rest /\ Place[work.at] < Place[next.at]
       \/ /\ next.rest = work.rest /\ next.at = work.at
          /\ \/ Fewer(next.todo, work.todo)
             \/ next.todo = work.todo /\ work.tries < next.tries

\* No round goes round in circles: whatever the service answers, a thread
\* inside run_once_all, run_once_for_community or analyze gets nearer to its
\* end with every step, so there is no more to a round than its communities,
\* their snapshots and the retries.
RoundAdvances ==
    [][\A w \in Workers :
          worker[w] # Idle /\ worker'[w] \notin {worker[w], Idle} =>
              Nearer(worker[w], worker'[w])]_vars

\* The scheduler always gets back to its interval, however often the service
\* fails to answer and whatever befalls the communities meanwhile.
RoundsEnd == worker[Scheduler] # Idle ~> worker[Scheduler] = Idle

\* data_contract.md: a run without a community analyses every community that
\* has snapshots: nothing that befalls one community ends the round.
RoundReachesAll ==
    [][\A w \in Workers : NoSnapshots(w) \/ RunRaises(w) => worker[w].rest = {}]_vars
=============================================================================

----------------------------- MODULE AnalysisLog ------------------------------
(***************************************************************************)
(* What the AI analysis promises to those who read its results, without    *)
(* threads, retries or exceptions: runs that may overlap, and for each     *)
(* community a log to which they only ever append.                         *)
(***************************************************************************)
EXTENDS Integers, Sequences

CONSTANTS Communities, Hours, Runs, NoAnswer

VARIABLES
    measured,   \* the hours of each community that have readings
    log,        \* results stored of each community
    open        \* runs at work

LogInit ==
    /\ measured = [c \in Communities |-> {}]
    /\ log = [c \in Communities |-> <<>>]
    /\ open = {}

Measure(c, h) ==
    /\ measured' = [measured EXCEPT ![c] = @ \union {h}]
    /\ UNCHANGED <<log, open>>

Of(c, run) == {i \in 1..Len(log[c]) : log[c][i].run = run}
Answered(c, run) == {i \in Of(c, run) : log[c][i].status = "success"}

\* Each run has a number of its own, and is not resumed once it has ended.
Begin(run) ==
    /\ run \notin open
    /\ \A c \in Communities : Of(c, run) = {}
    /\ open' = open \union {run}
    /\ UNCHANGED <<measured, log>>

End(run) ==
    /\ open' = open \ {run}
    /\ UNCHANGED <<measured, log>>

\* The process ends.
Crash ==
    /\ open' = {}
    /\ UNCHANGED <<measured, log>>

\* A run goes through the communities, and the hours of each, in order.
InOrder(c, run, hour) ==
    /\ \A d \in Communities : Of(d, run) # {} => d <= c
    /\ \A i \in Of(c, run) : log[c][i].hour < hour

Store(c, row) ==
    /\ row.run \in open
    /\ row.hour \in measured[c]
    /\ InOrder(c, row.run, row.hour)
    /\ log' = [log EXCEPT ![c] = Append(@, row)]
    /\ UNCHANGED <<measured, open>>

Succeed(c, run, hour) ==
    Store(c, [status |-> "success", run |-> run, hour |-> hour,
              result |-> [community |-> c, run |-> run, hour |-> hour]])

\* The latest answer the run has had about the community, if any.
Latest(c, run) ==
    IF Answered(c, run) = {} THEN {NoAnswer}
    ELSE {log[c][i].result :
            i \in {j \in Answered(c, run) : \A k \in Answered(c, run) : k <= j}}

Fail(c, run, hour) ==
    \E answer \in Latest(c, run) :
        Store(c, [status |-> "failed", run |-> run, hour |-> hour,
                  result |-> answer])

LogNext ==
    \/ \E c \in Communities, h \in Hours : Measure(c, h)
    \/ \E run \in Runs : Begin(run) \/ End(run)
    \/ Crash
    \/ \E c \in Communities, run \in Runs, hour \in Hours :
          Succeed(c, run, hour) \/ Fail(c, run, hour)

LogSpec == LogInit /\ [][LogNext]_<<measured, log, open>>
=============================================================================

-------------------------------- MODULE Commands --------------------------------
(***************************************************************************)
(* Commands to devices, and how far recommendations are followed: the      *)
(* control route of app/api/routes.py, app/services/device_control.py and  *)
(* app/services/recommendation_compliance.py.                              *)
(*                                                                         *)
(* A command is published first and inserted afterwards.  Compliance asks  *)
(* for the analyses of a period and then, one statement for each           *)
(* recommendation, for a command that follows it; a dashboard asks for the *)
(* current period and then for the one before.  Analyses come from AIRuns, *)
(* and changes of devices from Ingestion; here they are steps of their     *)
(* own.  A device stands for its unit too.                                 *)
(***************************************************************************)
EXTENDS Integers

CONSTANTS
    Devices,
    Results,        \* the recommendations an analysis may come to
    Slots,          \* threads of the pool
    None,
    Window,         \* how long a command may take to count
    Ids,            \* bound: commands
    Analyses,       \* bound: analyses
    Readers,        \* bound: the threads that compute compliance
    LastMoment      \* bound: the clock

Moments == 0..LastMoment
Switches == {"on", "off"}

\* What the external service may say; "wait" stands for what means neither on nor off.
Advice == {"on", "turn_on", "off", "turn_off", "reduce", "wait"}

ASSUME CommandAssumption ==
    /\ Results \subseteq SUBSET (Devices \X Advice)
    /\ Readers \subseteq Slots
    /\ Window \in Nat /\ LastMoment \in Nat
    /\ None \notin [device : Devices, action : Switches, status : {"sent", "failed"},
                    created : Moments]
    /\ None \notin [at : Moments, result : Results]

\* A recommendation of an analysis, to be asked for a command.
Question == [analysis : Analyses, device : Devices, advice : Advice]

Command == [device : Devices, action : Switches, status : {"sent", "failed"}, created : Moments]
Analysis == [at : Moments, result : Results]

VARIABLES
    commands,       \* the table device_commands: a row for each id, or None
    analyses,       \* the table ai_analysis_results, for one community
    controllable,   \* the devices that are there, active and controllable
    published,      \* the commands the broker has taken
    requests,       \* what each thread of the pool is doing
    now,
    unsure,         \* history: commands the broker took and paho raised over
    interrupted     \* history: the process has been stopped, or a commit has failed

vars == <<commands, analyses, controllable, published, requests, now, unsure, interrupted>>

Idle == [at |-> "idle"]

\* A command to publish or to insert, or a comparison of two periods: what has been
\* asked of the period being counted, what is left, what is followed, what was asked of
\* the current period, and (history) the commands in the table when counting began.
Request ==
    {Idle}
      \union [at : {"publish"}, id : Ids, device : Devices, action : Switches]
      \union [at : {"record"}, id : Ids, device : Devices, action : Switches,
              status : {"sent", "failed"}]
      \union [at : {"count"}, period : {"current", "previous"}, start : Moments, end : Moments,
              asked : SUBSET Question, left : SUBSET Question, followed : SUBSET Question,
              current : SUBSET Question, before : SUBSET Ids]

\* The tables and the requests keep their types.
TypeOK ==
    /\ commands \in [Ids -> Command \union {None}]
    /\ analyses \in [Analyses -> Analysis \union {None}]
    /\ controllable \in SUBSET Devices
    /\ published \in SUBSET Ids
    /\ requests \in [Slots -> Request]
    /\ now \in Moments
    /\ unsure \in SUBSET Ids
    /\ interrupted \in BOOLEAN

Init ==
    /\ commands = [i \in Ids |-> None]
    /\ analyses = [a \in Analyses |-> None]
    /\ controllable \in SUBSET Devices
    /\ published = {}
    /\ requests = [s \in Slots |-> Idle]
    /\ now = 0
    /\ unsure = {}
    /\ interrupted = FALSE

Free(s) == requests[s].at = "idle"
Go(s, r) == requests' = [requests EXCEPT ![s] = r]

Recorded == {i \in Ids : commands[i] # None}
OnTheWay(i) == \E s \in Slots : requests[s].at \in {"publish", "record"} /\ requests[s].id = i
Made == {a \in Analyses : analyses[a] # None}

-----------------------------------------------------------------------------
(* unit_device_control.                                                    *)

\* The device is looked up, and the command gets an id of its own.
Control(s) ==
    \E i \in Ids \ (Recorded \union published), d \in controllable, action \in Switches :
        /\ Free(s)
        /\ ~OnTheWay(i)
        /\ Go(s, [at |-> "publish", id |-> i, device |-> d, action |-> action])
        /\ UNCHANGED <<commands, analyses, controllable, published, now, unsure, interrupted>>

\* Mutant of Outcomes: a command counts as sent whatever paho says.
OutcomesAllSent ==
    {[taken |-> TRUE, status |-> "sent"], [taken |-> FALSE, status |-> "sent"]}

\* publish.single at QoS 1 returns when the broker has the command; when it raises, the
\* broker has it or not.
Outcomes ==
    {[taken |-> TRUE, status |-> "sent"],
     [taken |-> FALSE, status |-> "failed"],
     [taken |-> TRUE, status |-> "failed"]}

\* publish_device_command.
Publish(s) ==
    LET r == requests[s] IN
        /\ r.at = "publish"
        /\ \E o \in Outcomes :
              /\ published' = IF o.taken THEN published \union {r.id} ELSE published
              /\ unsure' = IF o.taken /\ o.status = "failed" THEN unsure \union {r.id}
                           ELSE unsure
              /\ Go(s, [at |-> "record", id |-> r.id, device |-> r.device,
                        action |-> r.action, status |-> o.status])
        /\ UNCHANGED <<commands, analyses, controllable, now, interrupted>>

\* Mutant of RowOf: with the time until which it counts.
RowOfLater(r) ==
    [device |-> r.device, action |-> r.action, status |-> r.status, created |-> now + Window]

\* The row, with the time of its insertion.
RowOf(r) ==
    [device |-> r.device, action |-> r.action, status |-> r.status, created |-> now]

Record(s) ==
    LET r == requests[s] IN
        /\ r.at = "record"
        /\ commands' = [commands EXCEPT ![r.id] = RowOf(r)]
        /\ Go(s, Idle)
        /\ UNCHANGED <<analyses, controllable, published, now, unsure, interrupted>>

\* The commit fails: the request answers 500, and the command stays published.
RecordFails(s) ==
    /\ requests[s].at = "record"
    /\ Go(s, Idle)
    /\ interrupted' = TRUE
    /\ UNCHANGED <<commands, analyses, controllable, published, now, unsure>>

-----------------------------------------------------------------------------
(* compute_recommendation_compliance, for a period and the one before.     *)

\* _normalize_action.
Normalized(advice) ==
    CASE advice \in {"on", "turn_on"} -> "on"
      [] advice \in {"off", "turn_off", "reduce"} -> "off"
      [] OTHER -> None

\* Both ends are in the period.
Within(t, start, end) == start <= t /\ t <= end

\* _iter_recommendations, of every analysis of the period.
Questions(start, end) ==
    {q \in Question :
        /\ q.analysis \in Made
        /\ Within(analyses[q.analysis].at, start, end)
        /\ <<q.device, q.advice>> \in analyses[q.analysis].result
        /\ Normalized(q.advice) # None}

\* Mutant of Follows: whether the command was sent or failed.
FollowsAny(row, q) ==
    /\ row.device = q.device
    /\ row.action = Normalized(q.advice)
    /\ Within(row.created, analyses[q.analysis].at, analyses[q.analysis].at + Window)

Follows(row, q) ==
    /\ row.device = q.device
    /\ row.action = Normalized(q.advice)
    /\ row.status = "sent"
    /\ Within(row.created, analyses[q.analysis].at, analyses[q.analysis].at + Window)

\* _has_matching_command, among these rows.
HasMatching(q, rows) == \E i \in rows \intersect Recorded : Follows(commands[i], q)

Counting(period, start, end, asked, current) ==
    [at |-> "count", period |-> period, start |-> start, end |-> end,
     asked |-> asked, left |-> asked, followed |-> {}, current |-> current,
     before |-> Recorded]

\* The analyses of the current period, which ended when the request began.
Compare(s) ==
    \E end \in 0..now : \E start \in 0..end :
        /\ s \in Readers /\ Free(s)
        /\ Go(s, Counting("current", start, end, Questions(start, end), {}))
        /\ UNCHANGED <<commands, analyses, controllable, published, now, unsure, interrupted>>

\* The next recommendation, in the order of the analyses.
Ask(s) ==
    LET r == requests[s] IN
        /\ r.at = "count"
        /\ \E q \in r.left :
              /\ \A p \in r.left : analyses[q.analysis].at <= analyses[p.analysis].at
              /\ Go(s, [r EXCEPT !.left = r.left \ {q},
                                 !.followed = IF HasMatching(q, Ids) THEN r.followed \union {q}
                                              ELSE r.followed])
        /\ UNCHANGED <<commands, analyses, controllable, published, now, unsure, interrupted>>

\* _previous_window: as long as the current one, up to its start.
PreviousStart(r) == r.start - (r.end - r.start)

\* With the current period counted, the analyses of the previous one.
ComparePrevious(s) ==
    LET r == requests[s] IN
        /\ r.at = "count" /\ r.period = "current" /\ r.left = {}
        /\ Go(s, Counting("previous", r.start, r.end,
                          Questions(PreviousStart(r), r.start), r.asked))
        /\ UNCHANGED <<commands, analyses, controllable, published, now, unsure, interrupted>>

Compared(s) ==
    LET r == requests[s] IN
        /\ r.at = "count" /\ r.period = "previous" /\ r.left = {}
        /\ Go(s, Idle)
        /\ UNCHANGED <<commands, analyses, controllable, published, now, unsure, interrupted>>

-----------------------------------------------------------------------------
(* What others do.                                                         *)

\* AIOrchestrator stores a result.
Analyse ==
    \E a \in Analyses \ Made, result \in Results :
        /\ analyses' = [analyses EXCEPT ![a] = [at |-> now, result |-> result]]
        /\ UNCHANGED <<commands, controllable, published, requests, now, unsure, interrupted>>

\* A device is created, deleted, or made (in)active or (un)controllable.
ChangeDevice ==
    \E d \in Devices :
        /\ controllable' = IF d \in controllable THEN controllable \ {d}
                           ELSE controllable \union {d}
        /\ UNCHANGED <<commands, analyses, published, requests, now, unsure, interrupted>>

Stop ==
    /\ requests' = [s \in Slots |-> Idle]
    /\ interrupted' = TRUE
    /\ UNCHANGED <<commands, analyses, controllable, published, now, unsure>>

Tick ==
    /\ now < LastMoment
    /\ now' = now + 1
    /\ UNCHANGED <<commands, analyses, controllable, published, requests, unsure, interrupted>>

Next ==
    \/ \E s \in Slots :
          \/ Control(s) \/ Publish(s) \/ Record(s) \/ RecordFails(s)
          \/ Compare(s) \/ Ask(s) \/ ComparePrevious(s) \/ Compared(s)
    \/ Analyse \/ ChangeDevice \/ Stop \/ Tick

Spec == Init /\ [][Next]_vars

-----------------------------------------------------------------------------
(* What the component promises.                                            *)

InFlight(i) == \E s \in Slots : requests[s].at = "record" /\ requests[s].id = i

\* What devices were told and what the table says agree: a command is recorded as sent
\* only if the broker has it, and one the broker has is recorded as sent, unless its
\* request is still at work, paho raised over it, or the process stopped or a commit
\* failed after the publish.
RecordsAgreeUnlessInterrupted ==
    /\ \A i \in Recorded : commands[i].status = "sent" => i \in published
    /\ \A i \in published :
          \/ i \in Recorded /\ commands[i].status = "sent"
          \/ InFlight(i) \/ i \in unsure \/ interrupted

\* A comparison that takes many statements is right about each recommendation: it counts
\* as followed what a command the broker has follows, and all that the table had a
\* command for when the counting of its period began; the current and the previous
\* period share no analysis but one made at the very moment where they meet.
ComplianceTruthful ==
    \A s \in Slots :
        LET r == requests[s] IN
            r.at = "count" =>
                /\ \A q \in r.followed : HasMatching(q, published)
                /\ \A q \in r.asked \ r.left : HasMatching(q, r.before) => q \in r.followed
                /\ \A q \in r.asked \intersect r.current : analyses[q.analysis].at = r.start
=============================================================================

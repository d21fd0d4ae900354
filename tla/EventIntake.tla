----------------------------- MODULE EventIntake ------------------------------
(***************************************************************************)
(* What ingestion promises to the readers of the database, without         *)
(* transactions, primary keys or threads: messages are taken one at a      *)
(* time, and of each event in turn the database shows all or nothing.      *)
(***************************************************************************)
EXTENDS Integers, Sequences

CONSTANTS
    Messages,   \* sequences of events
    Valid,      \* the events that pass validation
    Requests    \* threads of the API

VARIABLES
    queue,      \* events of the message at hand that are not dealt with
    stored,     \* keys of the readings
    dead,       \* the rejected events
    catalog,    \* communities, units and devices
    audit,      \* devices that have recorded states
    overtaken,  \* a request changed the catalog while the event was at hand
    asked       \* threads with a request they have not answered

IntakeInit ==
    /\ queue = <<>>
    /\ stored = {}
    /\ dead = {}
    /\ audit = {}
    /\ overtaken = FALSE
    /\ asked = {}

Event == Head(queue)
Key == <<Event.dev, Event.stamp>>

Deliver(m) ==
    /\ queue = <<>>
    /\ queue' = m
    /\ UNCHANGED <<stored, dead, catalog, audit, overtaken, asked>>

\* On to the next event, which no request has overtaken yet.
Done ==
    /\ queue # <<>>
    /\ queue' = Tail(queue)
    /\ overtaken' = FALSE
    /\ UNCHANGED asked

\* The only step that stores a reading, and the only one by which an event
\* leaves its mark on the catalog.
Store ==
    /\ Done
    /\ Event \in Valid
    /\ Key \notin stored
    /\ stored' = stored \union {Key}
    /\ audit \subseteq audit'
    /\ UNCHANGED dead

\* Dropped for a duplicate, which it is unless a request got in between.
Skip ==
    /\ Done
    /\ Event \in Valid
    /\ Key \in stored \/ overtaken
    /\ UNCHANGED <<stored, dead, catalog, audit>>

\* Put aside, when it is not valid or a request got in between.
Reject ==
    /\ Done
    /\ Event \notin Valid \/ overtaken
    /\ dead' = dead \union {Event}
    /\ UNCHANGED <<stored, catalog, audit>>

\* The network thread ends with what is left of the message, or the process
\* does, with the requests at hand as well.
Lose ==
    /\ queue' = <<>>
    /\ overtaken' = FALSE
    /\ asked' \in {asked, {}}
    /\ UNCHANGED <<stored, dead, catalog, audit>>

Ask(r) ==
    /\ asked' = asked \union {r}
    /\ UNCHANGED <<queue, stored, dead, catalog, audit, overtaken>>

\* A request changes the catalog, if at all, in the step that answers it.
Edit(r) ==
    /\ r \in asked
    /\ asked' = asked \ {r}
    /\ overtaken' \in {overtaken, TRUE}
    /\ overtaken' # overtaken => catalog' # catalog
    /\ UNCHANGED <<queue, stored, dead, audit>>

IntakeNext ==
    \/ \E m \in Messages : Deliver(m)
    \/ Store
    \/ Skip
    \/ Reject
    \/ Lose
    \/ \E r \in Requests : Ask(r) \/ Edit(r)

intake == <<queue, stored, dead, catalog, audit, overtaken, asked>>

IntakeSpec == IntakeInit /\ [][IntakeNext]_intake
=============================================================================

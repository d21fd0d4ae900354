---------------------------- MODULE Commands_proofs ----------------------------
(***************************************************************************)
(* Proofs about commands and compliance, for any devices, advice, windows  *)
(* and number of threads.                                                  *)
(***************************************************************************)
EXTENDS Commands, TLAPS

-----------------------------------------------------------------------------
(* The inductive invariant.                                                *)

Commanding(s) == requests[s].at \in {"publish", "record"}

\* A command under way has its id to itself.
Fresh(s) ==
    Commanding(s) =>
        /\ requests[s].id \notin Recorded
        /\ requests[s].at = "publish" => requests[s].id \notin published
        /\ \A t \in Slots : Commanding(t) /\ requests[t].id = requests[s].id => t = s

\* What the request knows of its command is true, or the broker took it unnoticed.
Told(s) ==
    requests[s].at = "record" =>
        /\ requests[s].status = "sent" => requests[s].id \in published
        /\ requests[s].status = "failed" /\ requests[s].id \in published
             => requests[s].id \in unsure

\* Where the analyses of a count lie.
InPeriods(r) ==
    /\ \A q \in r.asked : q.analysis \in Made
    /\ \A q \in r.current : q.analysis \in Made
    /\ r.period = "current" => r.current = {}
    /\ r.period = "current" => \A q \in r.asked : r.start <= analyses[q.analysis].at
    /\ r.period = "previous" => \A q \in r.asked : analyses[q.analysis].at <= r.start
    /\ \A q \in r.current : r.start <= analyses[q.analysis].at

Truthful(r) ==
    /\ r.followed \subseteq r.asked /\ r.left \subseteq r.asked
    /\ \A q \in r.followed : HasMatching(q, published)
    /\ \A q \in r.asked \ r.left : HasMatching(q, r.before) => q \in r.followed

Counts(s) ==
    requests[s].at = "count" =>
        /\ requests[s].before \subseteq Recorded
        /\ InPeriods(requests[s])
        /\ Truthful(requests[s])

IInv ==
    /\ TypeOK
    /\ \A s \in Slots : Fresh(s) /\ Told(s)
    /\ RecordsAgreeUnlessInterrupted
    /\ \A s \in Slots : Counts(s)

-----------------------------------------------------------------------------
(* Requests.                                                               *)

Comparison ==
    [at : {"count"}, period : {"current", "previous"}, start : Moments, end : Moments,
     asked : SUBSET Question, left : SUBSET Question, followed : SUBSET Question,
     current : SUBSET Question, before : SUBSET Ids]

\* What a request in each state holds.
LEMMA RequestType ==
    ASSUME TypeOK, NEW s \in Slots
    PROVE  /\ requests[s].at = "publish" =>
                /\ requests[s].id \in Ids /\ requests[s].device \in Devices
                /\ requests[s].action \in Switches
           /\ requests[s].at = "record" =>
                /\ requests[s].id \in Ids /\ requests[s].device \in Devices
                /\ requests[s].action \in Switches /\ requests[s].status \in {"sent", "failed"}
           /\ requests[s].at = "count" => requests[s] \in Comparison
           /\ requests[s].at \in {"idle", "publish", "record", "count"}
<1>1. requests[s] \in Request
  BY DEF TypeOK
<1>q. QED
  BY <1>1 DEF Request, Comparison, Idle

LEMMA IdleRequest == Idle \in Request /\ Idle.at = "idle"
BY DEF Request, Idle

\* A request that moves leaves the others where they are.
LEMMA GoMoves ==
    ASSUME TypeOK, NEW s \in Slots, NEW r \in Request, Go(s, r)
    PROVE  /\ requests' \in [Slots -> Request]
           /\ requests'[s] = r
           /\ \A t \in Slots \ {s} : requests'[t] = requests[t]
BY DEF TypeOK, Go

LEMMA QuestionsType == \A start, end : Questions(start, end) \in SUBSET Question
BY DEF Questions

LEMMA CountingType ==
    ASSUME NEW period \in {"current", "previous"}, NEW start \in Moments, NEW end \in Moments,
           NEW asked \in SUBSET Question, NEW current \in SUBSET Question
    PROVE  /\ Counting(period, start, end, asked, current) \in Comparison
           /\ Counting(period, start, end, asked, current) \in Request
BY DEF Counting, Comparison, Request, Recorded

\* The request a step leaves, and that it leaves the others.
LEMMA RequestMoves ==
    ASSUME IInv, NEW s \in Slots,
           \/ Control(s) \/ Publish(s) \/ Record(s) \/ RecordFails(s)
           \/ Compare(s) \/ Ask(s) \/ ComparePrevious(s) \/ Compared(s)
    PROVE  \E r \in Request : Go(s, r)
<1> USE RequestType DEF IInv
<1>1. CASE Control(s)
  BY <1>1 DEF Control, Request, TypeOK
<1>2. CASE Publish(s)
  BY <1>2 DEF Publish, Outcomes, Request
<1>3. CASE Record(s) \/ RecordFails(s) \/ Compared(s)
  BY <1>3, IdleRequest DEF Record, RecordFails, Compared
<1>4. CASE Compare(s)
  <2>1. PICK end \in 0..now : \E start \in 0..end :
          Go(s, Counting("current", start, end, Questions(start, end), {}))
    BY <1>4 DEF Compare
  <2>2. PICK start \in 0..end : Go(s, Counting("current", start, end, Questions(start, end), {}))
    BY <2>1
  <2>3. start \in Moments /\ end \in Moments
    BY CommandAssumption DEF TypeOK, Moments
  <2>q. QED
    BY <2>2, <2>3, CountingType, QuestionsType
<1>5. CASE Ask(s)
  <2>1. requests[s] \in Comparison
    BY <1>5 DEF Ask
  <2>2. PICK q \in requests[s].left :
          Go(s, [requests[s] EXCEPT !.left = requests[s].left \ {q},
                 !.followed = IF HasMatching(q, Ids) THEN requests[s].followed \union {q}
                              ELSE requests[s].followed])
    BY <1>5 DEF Ask
  <2>3. [requests[s] EXCEPT !.left = requests[s].left \ {q},
         !.followed = IF HasMatching(q, Ids) THEN requests[s].followed \union {q}
                      ELSE requests[s].followed] \in Comparison
    BY <2>1 DEF Comparison
  <2>q. QED
    BY <2>2, <2>3 DEF Comparison, Request
<1>6. CASE ComparePrevious(s)
  <2>1. requests[s] \in Comparison
    BY <1>6 DEF ComparePrevious
  <2>2. Go(s, Counting("previous", requests[s].start, requests[s].end,
                       Questions(PreviousStart(requests[s]), requests[s].start),
                       requests[s].asked))
    BY <1>6 DEF ComparePrevious
  <2>q. QED
    BY <2>1, <2>2, CountingType, QuestionsType DEF Comparison
<1>q. QED
  BY <1>1, <1>2, <1>3, <1>4, <1>5, <1>6

LEMMA OthersStay ==
    ASSUME IInv, NEW s \in Slots,
           \/ Control(s) \/ Publish(s) \/ Record(s) \/ RecordFails(s)
           \/ Compare(s) \/ Ask(s) \/ ComparePrevious(s) \/ Compared(s)
    PROVE  \A t \in Slots \ {s} : requests'[t] = requests[t]
BY RequestMoves, GoMoves DEF IInv

-----------------------------------------------------------------------------
(* The tables.                                                             *)

\* Rows never change once they are there, and the broker forgets nothing.
LEMMA TablesGrow ==
    ASSUME IInv, [Next]_vars
    PROVE  /\ \A i \in Recorded : i \in Recorded' /\ commands'[i] = commands[i]
           /\ \A a \in Made : a \in Made' /\ analyses'[a] = analyses[a]
           /\ published \subseteq published'
<1>1. CASE UNCHANGED <<commands, analyses, published>>
  BY <1>1 DEF Recorded, Made
<1>2. ASSUME NEW s \in Slots, Publish(s)
      PROVE  UNCHANGED <<commands, analyses>> /\ published \subseteq published'
  BY <1>2 DEF Publish
<1>3. ASSUME NEW s \in Slots, Record(s)
      PROVE  /\ \A i \in Recorded : i \in Recorded' /\ commands'[i] = commands[i]
             /\ UNCHANGED <<analyses, published>>
  <2>1. requests[s].id \notin Recorded
    BY <1>3 DEF IInv, Fresh, Commanding, Record
  <2>2. \A i \in Recorded : commands'[i] = commands[i]
    BY <1>3, <2>1 DEF Record, Recorded, IInv, TypeOK
  <2>q. QED
    BY <1>3, <2>2 DEF Record, Recorded
<1>4. CASE Analyse
  <2>1. \A a \in Made : analyses'[a] = analyses[a]
    BY <1>4 DEF Analyse, Made, IInv, TypeOK
  <2>q. QED
    BY <1>4, <2>1 DEF Analyse, Made, Recorded
<1>q. QED
  BY <1>1, <1>2, <1>3, <1>4
  DEF Next, vars, Control, RecordFails, Compare, Ask, ComparePrevious, Compared, ChangeDevice,
      Stop, Tick, Recorded, Made

\* What a new row is.
LEMMA RecordAdds ==
    ASSUME IInv, NEW s \in Slots, Record(s)
    PROVE  /\ requests[s].id \in Ids
           /\ RowOf(requests[s]) \in Command
           /\ commands'[requests[s].id] = RowOf(requests[s])
           /\ Recorded' = Recorded \union {requests[s].id}
           /\ \A i \in Ids \ {requests[s].id} : commands'[i] = commands[i]
           /\ requests'[s].at = "idle"
           /\ commands' \in [Ids -> Command \union {None}]
<1>1. /\ requests[s].at = "record"
      /\ commands' = [commands EXCEPT ![requests[s].id] = RowOf(requests[s])]
      /\ Go(s, Idle)
  BY DEF Record
<1>2. requests[s].id \in Ids /\ RowOf(requests[s]) \in Command
  BY <1>1, RequestType DEF IInv, TypeOK, RowOf, Command
<1>3. RowOf(requests[s]) # None
  BY <1>2, CommandAssumption DEF Command
<1>q. QED
  BY <1>1, <1>2, <1>3, IdleRequest DEF IInv, TypeOK, Recorded, Go

-----------------------------------------------------------------------------
(* Type correctness.                                                       *)

LEMMA InitInductive == Init => IInv
<1> SUFFICES ASSUME Init PROVE IInv
  OBVIOUS
<1>1. TypeOK
  <2>1. now \in Moments
    BY CommandAssumption DEF Init, Moments
  <2>5. interrupted \in BOOLEAN
    BY DEF Init
  <2>2. requests \in [Slots -> Request]
    BY IdleRequest DEF Init
  <2>3. commands \in [Ids -> Command \union {None}] /\ analyses \in [Analyses -> Analysis \union {None}]
    BY DEF Init
  <2>4. published \in SUBSET Ids /\ unsure \in SUBSET Ids /\ controllable \in SUBSET Devices
    BY DEF Init
  <2>q. QED
    BY <2>1, <2>2, <2>3, <2>4, <2>5 DEF TypeOK
<1>2. \A s \in Slots : requests[s].at = "idle"
  BY IdleRequest DEF Init
<1>3. Recorded = {} /\ published = {}
  BY DEF Init, Recorded
<1>q. QED
  BY <1>1, <1>2, <1>3
  DEF IInv, Fresh, Told, Counts, Commanding, RecordsAgreeUnlessInterrupted

LEMMA TypeStep == IInv /\ [Next]_vars => TypeOK'
<1> SUFFICES ASSUME IInv, [Next]_vars PROVE TypeOK'
  OBVIOUS
<1>1. requests' \in [Slots -> Request]
  <2>1. ASSUME NEW s \in Slots, NEW r \in Request, Go(s, r)
        PROVE  requests' \in [Slots -> Request]
    BY <2>1, GoMoves DEF IInv
  <2>2. CASE UNCHANGED requests
    BY <2>2 DEF IInv, TypeOK
  <2>3. CASE Stop
    BY <2>3, IdleRequest DEF Stop
  <2>q. QED
    BY <2>1, <2>2, <2>3, RequestMoves DEF Next, vars, Analyse, ChangeDevice, Tick
<1>2. commands' \in [Ids -> Command \union {None}]
  <2>1. CASE UNCHANGED commands
    BY <2>1 DEF IInv, TypeOK
  <2>q. QED
    BY <2>1, RecordAdds
    DEF Next, vars, Control, Publish, RecordFails, Compare, Ask, ComparePrevious, Compared,
        Analyse, ChangeDevice, Stop, Tick
<1>3. analyses' \in [Analyses -> Analysis \union {None}]
  <2>1. CASE UNCHANGED analyses
    BY <2>1 DEF IInv, TypeOK
  <2>2. CASE Analyse
    BY <2>2 DEF Analyse, Analysis, IInv, TypeOK
  <2>q. QED
    BY <2>1, <2>2
    DEF Next, vars, Control, Publish, Record, RecordFails, Compare, Ask, ComparePrevious,
        Compared, ChangeDevice, Stop, Tick
<1>4. published' \in SUBSET Ids /\ unsure' \in SUBSET Ids
  <2>1. CASE UNCHANGED <<published, unsure>>
    BY <2>1 DEF IInv, TypeOK
  <2>2. ASSUME NEW s \in Slots, Publish(s) PROVE published' \in SUBSET Ids /\ unsure' \in SUBSET Ids
    BY <2>2, RequestType DEF Publish, IInv, TypeOK
  <2>q. QED
    BY <2>1, <2>2
    DEF Next, vars, Control, Record, RecordFails, Compare, Ask, ComparePrevious, Compared,
        Analyse, ChangeDevice, Stop, Tick
<1>5. controllable' \in SUBSET Devices
  <2>1. CASE UNCHANGED controllable
    BY <2>1 DEF IInv, TypeOK
  <2>2. CASE ChangeDevice
    BY <2>2 DEF ChangeDevice, IInv, TypeOK
  <2>q. QED
    BY <2>1, <2>2
    DEF Next, vars, Control, Publish, Record, RecordFails, Compare, Ask, ComparePrevious,
        Compared, Analyse, Stop, Tick
<1>6. now' \in Moments
  <2>1. CASE UNCHANGED now
    BY <2>1 DEF IInv, TypeOK
  <2>2. CASE Tick
    BY <2>2, CommandAssumption DEF Tick, IInv, TypeOK, Moments
  <2>q. QED
    BY <2>1, <2>2
    DEF Next, vars, Control, Publish, Record, RecordFails, Compare, Ask, ComparePrevious,
        Compared, Analyse, ChangeDevice, Stop
<1>7. interrupted' \in BOOLEAN
  <2>1. CASE UNCHANGED interrupted
    BY <2>1 DEF IInv, TypeOK
  <2>q. QED
    BY <2>1
    DEF Next, vars, Control, Publish, Record, RecordFails, Compare, Ask, ComparePrevious,
        Compared, Analyse, ChangeDevice, Stop, Tick
<1>q. QED
  BY <1>1, <1>2, <1>3, <1>4, <1>5, <1>6, <1>7 DEF TypeOK

-----------------------------------------------------------------------------
(* Commands.                                                               *)

LEMMA ControlLeaves ==
    ASSUME IInv, NEW s \in Slots, Control(s)
    PROVE  /\ requests'[s].at = "publish"
           /\ requests'[s].id \in Ids \ (Recorded \union published)
           /\ \A t \in Slots : Commanding(t) => requests[t].id # requests'[s].id
<1>1. PICK i \in Ids \ (Recorded \union published), d \in controllable, action \in Switches :
        /\ ~OnTheWay(i)
        /\ Go(s, [at |-> "publish", id |-> i, device |-> d, action |-> action])
  BY DEF Control
<1>2. requests'[s] = [at |-> "publish", id |-> i, device |-> d, action |-> action]
  BY <1>1 DEF Go, IInv, TypeOK
<1>q. QED
  BY <1>1, <1>2 DEF OnTheWay, Commanding

LEMMA PublishLeaves ==
    ASSUME IInv, NEW s \in Slots, Publish(s)
    PROVE  /\ requests[s].at = "publish" /\ requests[s].id \in Ids
           /\ requests[s].id \notin published
           /\ requests'[s].at = "record" /\ requests'[s].id = requests[s].id
           /\ published' \in {published, published \union {requests[s].id}}
           /\ unsure \subseteq unsure'
           /\ requests'[s].status = "sent" => requests[s].id \in published'
           /\ requests'[s].status = "failed" /\ requests[s].id \in published'
                => requests[s].id \in unsure'
           /\ \A i \in unsure' \ unsure : i = requests[s].id
           /\ UNCHANGED <<commands, interrupted>>
<1>1. requests[s].at = "publish" /\ requests[s].id \in Ids
  BY RequestType DEF Publish, IInv
<1>2. requests[s].id \notin published
  BY <1>1 DEF IInv, Fresh, Commanding
<1>3. PICK o \in Outcomes :
        /\ published' = IF o.taken THEN published \union {requests[s].id} ELSE published
        /\ unsure' = IF o.taken /\ o.status = "failed" THEN unsure \union {requests[s].id} ELSE unsure
        /\ Go(s, [at |-> "record", id |-> requests[s].id, device |-> requests[s].device,
                  action |-> requests[s].action, status |-> o.status])
  BY DEF Publish
<1>4. requests'[s] = [at |-> "record", id |-> requests[s].id, device |-> requests[s].device,
                      action |-> requests[s].action, status |-> o.status]
  BY <1>3 DEF Go, IInv, TypeOK
<1>5. UNCHANGED <<commands, interrupted>>
  BY DEF Publish
<1>6. CASE o = [taken |-> TRUE, status |-> "sent"]
  BY <1>1, <1>2, <1>3, <1>4, <1>5, <1>6
<1>7. CASE o = [taken |-> FALSE, status |-> "failed"]
  BY <1>1, <1>2, <1>3, <1>4, <1>5, <1>7
<1>8. CASE o = [taken |-> TRUE, status |-> "failed"]
  BY <1>1, <1>2, <1>3, <1>4, <1>5, <1>8
<1>q. QED
  BY <1>6, <1>7, <1>8 DEF Outcomes

\* The steps that have nothing to do with commands.
LEMMA ReaderMoves ==
    ASSUME IInv, NEW s \in Slots, Compare(s) \/ Ask(s) \/ ComparePrevious(s) \/ Compared(s)
    PROVE  /\ requests[s].at \in {"idle", "count"} /\ requests'[s].at \in {"idle", "count"}
           /\ UNCHANGED <<commands, published, unsure, interrupted>>
<1>1. ASSUME NEW q, Go(s, q) PROVE requests'[s] = q
  BY <1>1 DEF Go, IInv, TypeOK
<1>2. CASE Compare(s)
  BY <1>1, <1>2 DEF Compare, Free, Counting
<1>3. CASE Ask(s)
  <2>1. requests[s].at = "count" /\ requests[s] \in Comparison
    BY <1>3, RequestType DEF Ask, IInv
  <2>2. PICK q \in requests[s].left :
          Go(s, [requests[s] EXCEPT !.left = requests[s].left \ {q},
                 !.followed = IF HasMatching(q, Ids) THEN requests[s].followed \union {q}
                              ELSE requests[s].followed])
    BY <1>3 DEF Ask
  <2>3. requests'[s].at = "count"
    BY <1>1, <2>1, <2>2 DEF Comparison
  <2>q. QED
    BY <1>3, <2>1, <2>3 DEF Ask
<1>4. CASE ComparePrevious(s)
  BY <1>1, <1>4 DEF ComparePrevious, Counting
<1>5. CASE Compared(s)
  BY <1>1, <1>5, IdleRequest DEF Compared
<1>q. QED
  BY <1>2, <1>3, <1>4, <1>5

\* Steps that leave the tables of commands alone, and only end commands.
LEMMA CommandsStay ==
    ASSUME IInv, UNCHANGED <<commands, published, unsure>>,
           \A t \in Slots : requests'[t] = requests[t] \/ requests'[t].at \in {"idle", "count"}
    PROVE  \A t \in Slots : Fresh(t)' /\ Told(t)'
<1> SUFFICES ASSUME NEW t \in Slots PROVE Fresh(t)' /\ Told(t)'
  OBVIOUS
<1>1. Recorded' = Recorded
  BY DEF Recorded
<1>2. \A u \in Slots : Commanding(u)' => Commanding(u) /\ requests'[u] = requests[u]
  BY DEF Commanding
<1>3. Fresh(t) /\ Told(t)
  BY DEF IInv
<1>q. QED
  BY <1>1, <1>2, <1>3 DEF Fresh, Told, Commanding

LEMMA CommandsStep == IInv /\ [Next]_vars => \A t \in Slots : Fresh(t)' /\ Told(t)'
<1> SUFFICES ASSUME IInv, [Next]_vars PROVE \A t \in Slots : Fresh(t)' /\ Told(t)'
  OBVIOUS
<1>1. CASE UNCHANGED <<commands, published, unsure, requests>>
  BY <1>1, CommandsStay
<1>2. CASE Stop
  <2>1. \A t \in Slots : requests'[t].at = "idle"
    BY <1>2, IdleRequest DEF Stop
  <2>q. QED
    BY <2>1 DEF Fresh, Told, Commanding
<1>3. ASSUME NEW s \in Slots, Compare(s) \/ Ask(s) \/ ComparePrevious(s) \/ Compared(s)
      PROVE  \A t \in Slots : Fresh(t)' /\ Told(t)'
  BY <1>3, ReaderMoves, OthersStay, CommandsStay
<1>4. ASSUME NEW s \in Slots, RecordFails(s) PROVE \A t \in Slots : Fresh(t)' /\ Told(t)'
  <2>1. requests'[s].at = "idle"
    BY <1>4, GoMoves, IdleRequest DEF RecordFails, IInv
  <2>q. QED
    BY <1>4, <2>1, OthersStay, CommandsStay DEF RecordFails
<1>5. ASSUME NEW s \in Slots, Control(s), NEW t \in Slots PROVE Fresh(t)' /\ Told(t)'
  <2>1. UNCHANGED <<commands, published, unsure>> /\ Recorded' = Recorded
    BY <1>5 DEF Control, Recorded
  <2>2. \A u \in Slots \ {s} : requests'[u] = requests[u]
    BY <1>5, OthersStay
  <2>3. Fresh(t) /\ Told(t)
    BY DEF IInv
  <2>q. QED
    BY <1>5, <2>1, <2>2, <2>3, ControlLeaves DEF Fresh, Told, Commanding
<1>6. ASSUME NEW s \in Slots, Publish(s), NEW t \in Slots PROVE Fresh(t)' /\ Told(t)'
  <2>1. Recorded' = Recorded
    BY <1>6 DEF Publish, Recorded
  <2>2. \A u \in Slots \ {s} : requests'[u] = requests[u]
    BY <1>6, OthersStay
  <2>3. Fresh(t) /\ Told(t) /\ Fresh(s)
    BY DEF IInv
  <2>4. CASE t = s
    BY <1>6, <2>1, <2>2, <2>3, <2>4, PublishLeaves DEF Fresh, Told, Commanding
  <2>5. CASE t # s
    <3>1. Commanding(t) => requests[t].id # requests[s].id
      BY <1>6, <2>3, <2>5, PublishLeaves DEF Fresh, Commanding
    <3>q. QED
      BY <1>6, <2>1, <2>2, <2>3, <2>5, <3>1, PublishLeaves DEF Fresh, Told, Commanding
  <2>q. QED
    BY <2>4, <2>5
<1>7. ASSUME NEW s \in Slots, Record(s), NEW t \in Slots PROVE Fresh(t)' /\ Told(t)'
  <2>1. Recorded' = Recorded \union {requests[s].id} /\ requests'[s].at = "idle"
    BY <1>7, RecordAdds
  <2>2. \A u \in Slots \ {s} : requests'[u] = requests[u]
    BY <1>7, OthersStay
  <2>3. UNCHANGED <<published, unsure>> /\ requests[s].at = "record"
    BY <1>7 DEF Record
  <2>4. Fresh(t) /\ Told(t) /\ Fresh(s)
    BY DEF IInv
  <2>q. QED
    BY <2>1, <2>2, <2>3, <2>4 DEF Fresh, Told, Commanding
<1>q. QED
  BY <1>1, <1>2, <1>3, <1>4, <1>5, <1>6, <1>7 DEF Next, vars, Analyse, ChangeDevice, Tick

-----------------------------------------------------------------------------
(* Rows and published commands agree.                                      *)

\* While rows, published commands and inserts under way are as they were.
LEMMA AgreeStays ==
    ASSUME IInv, UNCHANGED <<commands, published, unsure>>,
           \/ interrupted'
           \/ interrupted' = interrupted /\ \A i \in published : InFlight(i) => InFlight(i)'
    PROVE  RecordsAgreeUnlessInterrupted'
<1>1. Recorded' = Recorded
  BY DEF Recorded
<1>2. RecordsAgreeUnlessInterrupted
  BY DEF IInv
<1>3. ASSUME NEW i \in published, InFlight(i) PROVE InFlight(i)' \/ interrupted'
  BY <1>3
<1>4. interrupted => interrupted'
  OBVIOUS
<1>q. QED
  BY <1>1, <1>2, <1>3, <1>4 DEF RecordsAgreeUnlessInterrupted

LEMMA AgreeStep == IInv /\ [Next]_vars => RecordsAgreeUnlessInterrupted'
<1> SUFFICES ASSUME IInv, [Next]_vars PROVE RecordsAgreeUnlessInterrupted'
  OBVIOUS
<1>1. CASE UNCHANGED <<commands, published, unsure, requests, interrupted>>
  BY <1>1, AgreeStays DEF InFlight
<1>2. CASE Stop
  BY <1>2, AgreeStays DEF Stop
<1>3. ASSUME NEW s \in Slots, RecordFails(s) PROVE RecordsAgreeUnlessInterrupted'
  BY <1>3, AgreeStays DEF RecordFails
<1>4. ASSUME NEW s \in Slots, Compare(s) \/ Ask(s) \/ ComparePrevious(s) \/ Compared(s)
      PROVE  RecordsAgreeUnlessInterrupted'
  <2>1. \A i : InFlight(i) => InFlight(i)'
    BY <1>4, ReaderMoves, OthersStay DEF InFlight
  <2>q. QED
    BY <1>4, <2>1, ReaderMoves, AgreeStays
<1>5. ASSUME NEW s \in Slots, Control(s) PROVE RecordsAgreeUnlessInterrupted'
  <2>1. \A i : InFlight(i) => InFlight(i)'
    BY <1>5, OthersStay DEF InFlight, Control, Free
  <2>q. QED
    BY <1>5, <2>1, AgreeStays DEF Control
<1>6. ASSUME NEW s \in Slots, Publish(s) PROVE RecordsAgreeUnlessInterrupted'
  <2> DEFINE id == requests[s].id
  <2>1. UNCHANGED <<commands, interrupted>> /\ Recorded' = Recorded
    BY <1>6, PublishLeaves DEF Recorded
  <2>2. \A i : InFlight(i) => InFlight(i)'
    BY <1>6, PublishLeaves, OthersStay DEF InFlight
  <2>3. \A i : i = id => InFlight(i)'
    BY <1>6, PublishLeaves DEF InFlight
  <2>4. \A i \in published' : i \in published \/ i = id
    BY <1>6, PublishLeaves
  <2>5. RecordsAgreeUnlessInterrupted /\ published \subseteq published' /\ unsure \subseteq unsure'
    BY <1>6, PublishLeaves DEF IInv
  <2>6. \A i \in Recorded' : commands'[i].status = "sent" => i \in published'
    BY <2>1, <2>5 DEF RecordsAgreeUnlessInterrupted
  <2>7. \A i \in published :
          (i \in Recorded' /\ commands'[i].status = "sent") \/ InFlight(i)' \/ i \in unsure' \/ interrupted'
    BY <2>1, <2>2, <2>5 DEF RecordsAgreeUnlessInterrupted
  <2> HIDE DEF id
  <2>q. QED
    BY <2>3, <2>4, <2>6, <2>7 DEF RecordsAgreeUnlessInterrupted
<1>7. ASSUME NEW s \in Slots, Record(s) PROVE RecordsAgreeUnlessInterrupted'
  <2> DEFINE id == requests[s].id
  <2>1. /\ requests[s].at = "record" /\ UNCHANGED <<published, unsure, interrupted>>
        /\ requests[s].status \in {"sent", "failed"}
    BY <1>7, RequestType DEF Record, IInv
  <2>2. /\ Recorded' = Recorded \union {id} /\ id \in Ids
        /\ commands'[id].status = requests[s].status
        /\ \A i \in Ids \ {id} : commands'[i] = commands[i]
    <3>1. RowOf(requests[s]).status = requests[s].status
      BY DEF RowOf
    <3>q. QED
      BY <1>7, <3>1, RecordAdds
  <2>3. RecordsAgreeUnlessInterrupted /\ Told(s)
    BY DEF IInv
  <2>4. Recorded \subseteq Ids /\ published \subseteq Ids
    BY DEF Recorded, IInv, TypeOK
  <2>5. \A i \in Ids \ {id} : InFlight(i) => InFlight(i)'
    BY <1>7, OthersStay DEF InFlight
  <2>6. \A i \in Recorded' : commands'[i].status = "sent" => i \in published'
    BY <2>1, <2>2, <2>3, <2>4 DEF RecordsAgreeUnlessInterrupted, Told
  <2>7. \A i \in published' \ {id} :
          (i \in Recorded' /\ commands'[i].status = "sent") \/ InFlight(i)' \/ i \in unsure' \/ interrupted'
    BY <2>1, <2>2, <2>3, <2>4, <2>5 DEF RecordsAgreeUnlessInterrupted
  <2>8. id \in published' => commands'[id].status = "sent" \/ id \in unsure'
    BY <2>1, <2>2, <2>3 DEF Told
  <2> HIDE DEF id
  <2>q. QED
    BY <2>2, <2>6, <2>7, <2>8 DEF RecordsAgreeUnlessInterrupted
<1>q. QED
  BY <1>1, <1>2, <1>3, <1>4, <1>5, <1>6, <1>7 DEF Next, vars, Analyse, ChangeDevice, Tick

-----------------------------------------------------------------------------
(* Comparisons.                                                            *)

\* A command that follows a recommendation, or does not, never changes that.
LEMMA FollowsStays ==
    ASSUME IInv, [Next]_vars, NEW i \in Recorded, NEW q, q.analysis \in Made
    PROVE  Follows(commands[i], q)' = Follows(commands[i], q)
<1>1. commands'[i] = commands[i] /\ analyses'[q.analysis] = analyses[q.analysis]
  BY TablesGrow
<1>q. QED
  BY <1>1 DEF Follows

\* What a comparison has found stays true while rows and analyses come in.
LEMMA FindingsStay ==
    ASSUME IInv, [Next]_vars, NEW r \in Comparison, InPeriods(r), Truthful(r),
           r.before \subseteq Recorded
    PROVE  InPeriods(r)' /\ Truthful(r)' /\ r.before \subseteq Recorded'
<1>1. /\ \A i \in Recorded : i \in Recorded'
      /\ \A a \in Made : a \in Made' /\ analyses'[a] = analyses[a]
      /\ published \subseteq published'
  BY TablesGrow
<1>2. \A q \in r.asked, i \in Recorded : Follows(commands[i], q)' = Follows(commands[i], q)
  BY FollowsStays DEF InPeriods
<1>3. \A q \in r.asked : HasMatching(q, published) => HasMatching(q, published)'
  BY <1>1, <1>2 DEF HasMatching
<1>4. \A q \in r.asked : HasMatching(q, r.before) = HasMatching(q, r.before)'
  BY <1>1, <1>2 DEF HasMatching
<1>5. InPeriods(r)'
  BY <1>1 DEF InPeriods
<1>6. Truthful(r)'
  BY <1>3, <1>4 DEF Truthful
<1>q. QED
  BY <1>1, <1>5, <1>6

\* A count that begins.
LEMMA BeginCounts ==
    ASSUME IInv, NEW s \in Slots,
           NEW period \in {"current", "previous"}, NEW start \in Moments, NEW end \in Moments,
           NEW asked \in SUBSET Question, NEW current \in SUBSET Question,
           Go(s, Counting(period, start, end, asked, current)),
           UNCHANGED <<commands, analyses, published>>,
           InPeriods(Counting(period, start, end, asked, current))
    PROVE  Counts(s)'
<1> DEFINE c == Counting(period, start, end, asked, current)
<1>1. requests'[s] = c
  BY CountingType, GoMoves DEF IInv
<1>2. Recorded' = Recorded
  BY DEF Recorded
<1>3. /\ c.before = Recorded /\ c.followed = {} /\ c.left = c.asked
  BY DEF Counting
<1>4. InPeriods(requests[s])'
  <2>1. InPeriods(c)
    OBVIOUS
  <2> HIDE DEF c
  <2>2. Made' = Made
    BY DEF Made
  <2>q. QED
    BY <1>1, <2>1, <2>2 DEF InPeriods
<1>5. Truthful(requests[s])'
  <2> HIDE DEF c
  <2>q. QED
    BY <1>1, <1>3 DEF Truthful
<1>q. QED
  BY <1>1, <1>2, <1>3, <1>4, <1>5 DEF Counts

LEMMA CompareCounts ==
    ASSUME IInv, NEW s \in Slots, Compare(s)
    PROVE  Counts(s)'
<1>1. PICK end \in 0..now : \E start \in 0..end :
        Go(s, Counting("current", start, end, Questions(start, end), {}))
  BY DEF Compare
<1>2. PICK start \in 0..end : Go(s, Counting("current", start, end, Questions(start, end), {}))
  BY <1>1
<1>3. start \in Moments /\ end \in Moments
  BY CommandAssumption DEF IInv, TypeOK, Moments
<1>4. InPeriods(Counting("current", start, end, Questions(start, end), {}))
  BY DEF InPeriods, Counting, Questions, Within
<1>q. QED
  BY <1>2, <1>3, <1>4, QuestionsType, BeginCounts DEF Compare

LEMMA PreviousCounts ==
    ASSUME IInv, NEW s \in Slots, ComparePrevious(s)
    PROVE  Counts(s)'
<1> DEFINE r == requests[s]
           questions == Questions(PreviousStart(r), r.start)
<1>1. r \in Comparison /\ r.at = "count" /\ r.period = "current"
  BY RequestType DEF ComparePrevious, IInv
<1>2. r.start \in Moments /\ r.end \in Moments /\ r.asked \in SUBSET Question
  BY <1>1 DEF Comparison
<1>3. InPeriods(r)
  BY <1>1 DEF IInv, Counts
<1>4. InPeriods(Counting("previous", r.start, r.end, questions, r.asked))
  <2>1. \A q \in questions : q.analysis \in Made /\ analyses[q.analysis].at <= r.start
    BY DEF Questions, Within
  <2>2. \A q \in r.asked : q.analysis \in Made /\ r.start <= analyses[q.analysis].at
    BY <1>1, <1>3 DEF InPeriods
  <2> HIDE DEF questions
  <2>q. QED
    BY <2>1, <2>2 DEF InPeriods, Counting
<1>q. QED
  BY <1>2, <1>4, QuestionsType, BeginCounts DEF ComparePrevious

\* A recommendation found followed is followed by a command that was published.
LEMMA AskCounts ==
    ASSUME IInv, NEW s \in Slots, Ask(s)
    PROVE  Counts(s)'
<1> DEFINE r == requests[s]
<1>1. r \in Comparison /\ r.at = "count"
  BY RequestType DEF Ask, IInv
<1>2. PICK q \in r.left :
        Go(s, [r EXCEPT !.left = r.left \ {q},
               !.followed = IF HasMatching(q, Ids) THEN r.followed \union {q} ELSE r.followed])
  BY DEF Ask
<1> DEFINE new == [r EXCEPT !.left = r.left \ {q},
                   !.followed = IF HasMatching(q, Ids) THEN r.followed \union {q} ELSE r.followed]
<1>3. requests'[s] = new
  BY <1>2 DEF Go, IInv, TypeOK
<1>4. /\ new.left = r.left \ {q} /\ new.asked = r.asked /\ new.current = r.current
      /\ new.followed = IF HasMatching(q, Ids) THEN r.followed \union {q} ELSE r.followed
      /\ new.before = r.before /\ new.period = r.period /\ new.start = r.start
  BY <1>1 DEF Comparison
<1>5. r.before \subseteq Recorded /\ InPeriods(r) /\ Truthful(r)
  BY <1>1 DEF IInv, Counts
<1>6. UNCHANGED <<commands, analyses, published>> /\ Recorded' = Recorded /\ Made' = Made
  BY DEF Ask, Recorded, Made
<1>7. HasMatching(q, Ids) => HasMatching(q, published)
  BY DEF HasMatching, IInv, RecordsAgreeUnlessInterrupted, Follows
<1>8. HasMatching(q, r.before) => HasMatching(q, Ids)
  BY DEF HasMatching, Recorded
<1>9. q \in r.asked
  BY <1>5 DEF Truthful
<1> HIDE DEF new
<1>10. InPeriods(requests[s])'
  BY <1>3, <1>4, <1>5, <1>6 DEF InPeriods
<1>11. Truthful(new)
  BY <1>4, <1>5, <1>7, <1>8, <1>9 DEF Truthful
<1>12. Truthful(requests[s])'
  BY <1>3, <1>6, <1>11 DEF Truthful, HasMatching, Follows
<1>q. QED
  BY <1>3, <1>4, <1>5, <1>6, <1>10, <1>12 DEF Counts

LEMMA CountsStay ==
    ASSUME IInv, [Next]_vars, NEW t \in Slots,
           requests'[t] = requests[t] \/ requests'[t].at # "count"
    PROVE  Counts(t)'
<1>1. CASE requests'[t].at # "count"
  BY <1>1 DEF Counts
<1>2. CASE requests'[t] = requests[t] /\ requests[t].at = "count"
  <2>1. requests[t] \in Comparison
    BY <1>2, RequestType DEF IInv
  <2>2. InPeriods(requests[t]) /\ Truthful(requests[t]) /\ requests[t].before \subseteq Recorded
    BY <1>2 DEF IInv, Counts
  <2>3. PICK r \in Comparison : r = requests[t]
    BY <2>1
  <2>4. InPeriods(r) /\ Truthful(r) /\ r.before \subseteq Recorded
    BY <2>2, <2>3
  <2>5. InPeriods(r)' /\ Truthful(r)' /\ r.before \subseteq Recorded'
    BY <2>4, FindingsStay
  <2>6. requests'[t] = r
    BY <1>2, <2>3
  <2>7. InPeriods(requests[t])'
    BY <2>5, <2>6 DEF InPeriods
  <2>8. Truthful(requests[t])'
    BY <2>5, <2>6 DEF Truthful, HasMatching, Follows
  <2>q. QED
    BY <2>5, <2>6, <2>7, <2>8 DEF Counts
<1>q. QED
  BY <1>1, <1>2

LEMMA CountsStep == IInv /\ [Next]_vars => \A t \in Slots : Counts(t)'
<1> SUFFICES ASSUME IInv, [Next]_vars, NEW t \in Slots PROVE Counts(t)'
  OBVIOUS
<1>1. CASE UNCHANGED requests
  BY <1>1, CountsStay
<1>2. CASE Stop
  BY <1>2, IdleRequest, CountsStay DEF Stop
<1>3. ASSUME NEW s \in Slots, s # t,
             \/ Control(s) \/ Publish(s) \/ Record(s) \/ RecordFails(s)
             \/ Compare(s) \/ Ask(s) \/ ComparePrevious(s) \/ Compared(s)
      PROVE  Counts(t)'
  BY <1>3, OthersStay, CountsStay
<1>4. CASE Control(t) \/ Publish(t) \/ Record(t)
  BY <1>4, ControlLeaves, PublishLeaves, RecordAdds, CountsStay
<1>5. CASE RecordFails(t) \/ Compared(t)
  <2>1. requests'[t].at = "idle"
    BY <1>5, GoMoves, IdleRequest DEF RecordFails, Compared, IInv
  <2>q. QED
    BY <2>1, CountsStay
<1>6. CASE Compare(t) \/ Ask(t) \/ ComparePrevious(t)
  BY <1>6, CompareCounts, AskCounts, PreviousCounts
<1>q. QED
  BY <1>1, <1>2, <1>3, <1>4, <1>5, <1>6 DEF Next, vars, Analyse, ChangeDevice, Tick

-----------------------------------------------------------------------------
(* The theorems.                                                           *)

\* IInv holds throughout: a command has its id to itself and its request knows what became
\* of it, and a comparison is right about what it has asked so far.
THEOREM CommandsInductive == Spec => []IInv
<1>1. IInv /\ [Next]_vars => IInv'
  BY TypeStep, CommandsStep, AgreeStep, CountsStep DEF IInv
<1>q. QED
  BY InitInductive, <1>1, PTL DEF Spec

\* The tables and the requests keep their types.
THEOREM CommandsTypeCorrect == Spec => []TypeOK
<1>1. IInv => TypeOK
  BY DEF IInv
<1>q. QED
  BY <1>1, CommandsInductive, PTL

\* What was published and what device_commands says agree, unless a publish raised or
\* something interrupted the request between the two.
THEOREM RecordsAgreeUnlessInterruptedHolds == Spec => []RecordsAgreeUnlessInterrupted
<1>1. IInv => RecordsAgreeUnlessInterrupted
  BY DEF IInv
<1>q. QED
  BY <1>1, CommandsInductive, PTL

\* A comparison counts as followed what a published command follows, and all that had a
\* command when it began; its periods share only what was made where they meet.
THEOREM ComplianceTruthfulHolds == Spec => []ComplianceTruthful
<1>1. IInv => ComplianceTruthful
  <2> SUFFICES ASSUME IInv, NEW s \in Slots, requests[s].at = "count"
               PROVE  /\ \A q \in requests[s].followed : HasMatching(q, published)
                      /\ \A q \in requests[s].asked \ requests[s].left :
                            HasMatching(q, requests[s].before) => q \in requests[s].followed
                      /\ \A q \in requests[s].asked \intersect requests[s].current :
                            analyses[q.analysis].at = requests[s].start
    BY DEF ComplianceTruthful
  <2>1. requests[s] \in Comparison
    BY RequestType DEF IInv
  <2>2. InPeriods(requests[s]) /\ Truthful(requests[s])
    BY DEF IInv, Counts
  <2>3. ASSUME NEW q \in requests[s].asked \intersect requests[s].current
        PROVE  analyses[q.analysis].at = requests[s].start
    <3>1. /\ requests[s].period = "previous"
          /\ q.analysis \in Made
          /\ analyses[q.analysis].at <= requests[s].start
          /\ requests[s].start <= analyses[q.analysis].at
      BY <2>1, <2>2, <2>3 DEF InPeriods, Comparison
    <3>2. q.analysis \in Analyses /\ analyses[q.analysis] \in Analysis
      BY <3>1 DEF Made, IInv, TypeOK
    <3>3. analyses[q.analysis].at \in Int /\ requests[s].start \in Int
      BY <2>1, <3>2, CommandAssumption DEF Analysis, Comparison, Moments
    <3>q. QED
      BY <3>1, <3>3
  <2>q. QED
    BY <2>2, <2>3 DEF Truthful
<1>q. QED
  BY <1>1, CommandsInductive, PTL
=============================================================================

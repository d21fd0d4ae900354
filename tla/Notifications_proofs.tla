------------------------- MODULE Notifications_proofs -------------------------
(***************************************************************************)
(* Proofs about notifications, for any users and scopes, any limit, any    *)
(* number of days and threads.                                             *)
(***************************************************************************)
EXTENDS Notifications, FiniteSetTheorems, TLAPS

-----------------------------------------------------------------------------
(* The inductive invariant.                                                *)

Counted(u, d) == {n \in By(u) : notifications[n].counted = d}
Pending(u, d) ==
    {s \in Slots : requests[s].at = "insert" /\ requests[s].user = u /\ requests[s].on = d}

\* What was counted and inserted, or is to be inserted, fits in the counter.
Fits(u, d) ==
    Role(u) = "ADMIN" \/ <<u, d>> \in raced
      \/ Cardinality(Counted(u, d)) + Cardinality(Pending(u, d)) <= counts[<<u, d>>]

\* A check that nobody overlapped still has the count it read.
Alone(s) ==
    requests[s].at = "increment" =>
        LET r == requests[s] IN
            /\ r.current < Limit
            /\ <<r.user, r.on>> \in raced
                 \/ (/\ r.current = counts[<<r.user, r.on>>]
                     /\ \A t \in Slots : Checking(t, r.user, r.on) => t = s)

\* What is to be inserted was asked for, and the rest of it has been marked before.
Marking(s) ==
    requests[s].at = "mark" =>
        /\ requests[s].missing \subseteq requests[s].wanted
        /\ (requests[s].wanted \ requests[s].missing) \X {requests[s].user} \subseteq reads

Answered(s) ==
    LET r == requests[s] IN
        r.at = "marked" =>
            IF r.status = "ok" THEN r.wanted \X {r.user} \subseteq reads
            ELSE Marks(r) \intersect reads # {}

\* What the statements of a list have found so far, against the tables as they are now.
Listing(s) ==
    LET r == requests[s] IN
        /\ r.at = "rows" =>
             /\ r.total \subseteq Visible(r.user)
             /\ r.filter = "read" => r.total \subseteq ReadBy(r.user)
        /\ r.at \in {"reads", "unread", "listed"} =>
             /\ r.rows \subseteq Visible(r.user)
             /\ r.filter = "read" => r.rows \subseteq ReadBy(r.user)
             /\ r.filter # "unread" => r.total \subseteq r.rows
             /\ r.filter = "unread" => r.total \ ReadBy(r.user) \subseteq r.rows
        /\ r.at \in {"unread", "listed"} =>
             /\ r.shown \subseteq ReadBy(r.user)
             /\ r.filter = "read" => r.shown = r.rows
        /\ r.at = "listed" =>
             /\ r.filter = "unread" => r.total \intersect r.unread \subseteq r.rows
             /\ r.unread \intersect r.shown = {}

IInv ==
    /\ TypeOK
    /\ \A u \in Users, d \in Days : Fits(u, d)
    /\ \A s \in Slots : Alone(s)
    /\ \A s \in Slots : Marking(s) /\ Answered(s)
    /\ \A s \in Slots : Listing(s)

-----------------------------------------------------------------------------
(* Requests and rows.                                                      *)

\* What a request in each state holds.
LEMMA RequestType ==
    ASSUME TypeOK, NEW s \in Slots
    PROVE  /\ requests[s].at = "increment" =>
                /\ requests[s].user \in Users /\ requests[s].scope \in Scope
                /\ requests[s].on \in Days /\ requests[s].current \in 0..Limit
           /\ requests[s].at = "insert" =>
                /\ requests[s].user \in Users /\ requests[s].scope \in Scope
                /\ requests[s].on \in Days
           /\ requests[s].at = "visible" =>
                /\ requests[s].user \in Users /\ requests[s].wanted \in SUBSET Ids
           /\ requests[s].at \in {"mark", "marked"} =>
                /\ requests[s].user \in Users /\ requests[s].wanted \in SUBSET Ids
                /\ requests[s].missing \in SUBSET Ids
           /\ requests[s].at = "marked" => requests[s].status \in {"ok", "conflict"}
           /\ requests[s].at \in {"rows", "reads", "unread", "listed"} =>
                /\ requests[s].user \in Users /\ requests[s].filter \in Filters
                /\ requests[s].total \in SUBSET Ids
           /\ requests[s].at \in {"reads", "unread", "listed"} => requests[s].rows \in SUBSET Ids
           /\ requests[s].at \in {"unread", "listed"} => requests[s].shown \in SUBSET Ids
           /\ requests[s].at = "listed" => requests[s].unread \in SUBSET Ids
<1>1. requests[s] \in Request
  BY DEF TypeOK
<1>q. QED
  BY <1>1 DEF Request, Idle

\* A request that moves leaves the others where they are.
LEMMA GoMoves ==
    ASSUME TypeOK, NEW s \in Slots, NEW r \in Request, Go(s, r)
    PROVE  /\ requests' \in [Slots -> Request]
           /\ requests'[s] = r
           /\ \A t \in Slots \ {s} : requests'[t] = requests[t]
BY DEF TypeOK, Go

LEMMA IdleRequest == Idle \in Request /\ Idle.at = "idle"
BY DEF Request, Idle

LEMMA ReachType == \A u \in Users : Reach(u) \subseteq Scope
BY DEF Reach, Scope, ToCommunity, ToBuilding

LEMMA SetTypes ==
    \A u \in Users : /\ Visible(u) \in SUBSET Ids /\ ReadBy(u) \in SUBSET Ids
                     /\ \A f \in Filters : Matching(u, f) \in SUBSET Ids
BY DEF Visible, ReadBy, Matching, Sent, Filters

LEMMA ToMarkType ==
    ASSUME NEW u \in Users, NEW w \in SUBSET Ids
    PROVE  /\ ToMark(u, w) \in Request
           /\ ToMark(u, w).at \in {"mark", "marked"}
           /\ ToMark(u, w).at = "mark" =>
                ToMark(u, w) = [at |-> "mark", user |-> u, wanted |-> w, missing |-> w \ ReadBy(u)]
           /\ ToMark(u, w).at = "marked" =>
                ToMark(u, w) = Marked(u, w, {}, "ok") /\ w \subseteq ReadBy(u)
BY DEF ToMark, Marked, Request

\* What a new row leaves.
LEMMA AddAdds ==
    ASSUME TypeOK, NEW scope \in Scope, NEW by \in Users, NEW on \in Days, Add(scope, by, on)
    PROVE  \E n \in Ids :
             /\ notifications[n] = Absent
             /\ notifications' \in [Ids -> Notification \union {Absent}]
             /\ notifications'[n] = [scope |-> scope, by |-> by, counted |-> on, created |-> day]
             /\ notifications'[n] # Absent
             /\ \A m \in Ids \ {n} : notifications'[m] = notifications[m]
<1>1. PICK n \in Ids \ Sent : notifications' = [notifications EXCEPT ![n] =
            [scope |-> scope, by |-> by, counted |-> on, created |-> day]]
  BY DEF Add
<1>2. [scope |-> scope, by |-> by, counted |-> on, created |-> day] \in Notification
  BY DEF TypeOK, Notification
<1>3. notifications[n] = Absent
  BY DEF Sent
<1>q. QED
  BY <1>1, <1>2, <1>3, NotificationAssumption DEF TypeOK

LEMMA BroadcastAdds ==
    ASSUME TypeOK, NEW s \in Slots, Uncounted(s) \/ Insert(s)
    PROVE  \E scope \in Scope, by \in Users, on \in Days : Add(scope, by, on)
<1>1. CASE Uncounted(s)
  BY <1>1, ReachType DEF Uncounted, TypeOK
<1>2. CASE Insert(s)
  BY <1>2, RequestType DEF Insert
<1>q. QED
  BY <1>1, <1>2

\* Rows and marks are only added.
LEMMA TablesGrow ==
    ASSUME TypeOK, [Next]_vars
    PROVE  /\ reads \subseteq reads'
           /\ \A n \in Sent : n \in Sent' /\ notifications'[n] = notifications[n]
           /\ notifications' \in [Ids -> Notification \union {Absent}]
<1>1. CASE UNCHANGED <<notifications, reads>>
  BY <1>1 DEF TypeOK, Sent
<1>2. ASSUME NEW s \in Slots, Uncounted(s) \/ Insert(s)
      PROVE  /\ UNCHANGED reads
             /\ \A n \in Sent : n \in Sent' /\ notifications'[n] = notifications[n]
             /\ notifications' \in [Ids -> Notification \union {Absent}]
  <2>1. PICK n \in Ids :
             /\ notifications[n] = Absent
             /\ notifications' \in [Ids -> Notification \union {Absent}]
             /\ notifications'[n] # Absent
             /\ \A m \in Ids \ {n} : notifications'[m] = notifications[m]
    BY <1>2, BroadcastAdds, AddAdds
  <2>q. QED
    BY <1>2, <2>1 DEF Sent, Uncounted, Insert
<1>3. ASSUME NEW s \in Slots, CommitMarks(s)
      PROVE  reads \subseteq reads' /\ UNCHANGED notifications
  BY <1>3 DEF CommitMarks
<1>q. QED
  BY <1>1, <1>2, <1>3
  DEF Next, vars, Check, Increment, MarkOne, MarkAll, FindExisting, List, ListRows,
      ListReads, CountUnread, Respond, Restart, Midnight, TypeOK, Sent

\* So what a request knows of them stays true while others move.
LEMMA KnowledgeStays ==
    ASSUME IInv, [Next]_vars, NEW s \in Slots, requests'[s] = requests[s]
    PROVE  Marking(s)' /\ Answered(s)' /\ Listing(s)'
<1>1. /\ reads \subseteq reads'
      /\ \A n \in Sent : n \in Sent' /\ notifications'[n] = notifications[n]
  BY TablesGrow DEF IInv
<1>2. \A u : /\ ReadBy(u) \subseteq ReadBy(u)'
             /\ Visible(u) \subseteq Visible(u)'
  BY <1>1 DEF ReadBy, Visible, Sees, Role, Own, Sent
<1>3. Marking(s)'
  BY <1>1 DEF IInv, Marking
<1>4. Answered(s)'
  BY <1>1 DEF IInv, Answered, Marks
<1>5. Listing(s)'
  BY <1>2 DEF IInv, Listing
<1>q. QED
  BY <1>3, <1>4, <1>5

-----------------------------------------------------------------------------
(* Type correctness.                                                       *)

LEMMA InitInductive == Init => IInv
<1> SUFFICES ASSUME Init PROVE IInv
  OBVIOUS
<1>1. TypeOK
  BY IdleRequest, NotificationAssumption DEF Init, TypeOK, Days
<1>2. \A s \in Slots : requests[s].at = "idle"
  BY IdleRequest DEF Init
<1>3. \A u \in Users, d \in Days : Fits(u, d)
  <2> SUFFICES ASSUME NEW u \in Users, NEW d \in Days PROVE Fits(u, d)
    OBVIOUS
  <2>1. Counted(u, d) = {}
    BY DEF Init, Counted, By, Sent
  <2>2. Pending(u, d) = {}
    BY <1>2 DEF Pending
  <2>3. counts[<<u, d>>] = 0
    BY DEF Init
  <2>q. QED
    BY <2>1, <2>2, <2>3, FS_EmptySet DEF Fits
<1>q. QED
  BY <1>1, <1>2, <1>3 DEF IInv, Alone, Marking, Answered, Listing

\* The step of a request leaves it a request, and the others as they were.
LEMMA RequestMoves ==
    ASSUME IInv, NEW s \in Slots,
           \/ Check(s) \/ Increment(s) \/ Insert(s)
           \/ MarkOne(s) \/ MarkAll(s) \/ FindExisting(s) \/ CommitMarks(s)
           \/ List(s) \/ ListRows(s) \/ ListReads(s) \/ CountUnread(s) \/ Respond(s)
    PROVE  \E r \in Request : Go(s, r)
<1> USE RequestType, SetTypes DEF IInv
<1>1. CASE Check(s)
  <2>1. PICK u \in Users, scope \in Scope :
          /\ WithinLimit(counts[<<u, day>>])
          /\ Go(s, [at |-> "increment", user |-> u, scope |-> scope, on |-> day,
                    current |-> counts[<<u, day>>]])
    BY <1>1 DEF Check
  <2>2. day \in Days /\ counts[<<u, day>>] \in 0..Limit
    BY DEF TypeOK
  <2>q. QED
    BY <2>1, <2>2 DEF Request
<1>2. CASE Increment(s)
  BY <1>2 DEF Increment, Request
<1>3. CASE Insert(s) \/ Respond(s)
  BY <1>3, IdleRequest DEF Insert, Respond
<1>4. CASE MarkOne(s)
  BY <1>4, ToMarkType DEF MarkOne
<1>5. CASE MarkAll(s)
  BY <1>5 DEF MarkAll, Request
<1>6. CASE FindExisting(s)
  BY <1>6, ToMarkType DEF FindExisting
<1>7. CASE CommitMarks(s)
  BY <1>7 DEF CommitMarks, Marked, Request
<1>8. CASE List(s)
  BY <1>8 DEF List, Request
<1>9. CASE ListRows(s)
  BY <1>9 DEF ListRows, Request
<1>10. CASE ListReads(s)
  BY <1>10 DEF ListReads, Request
<1>11. CASE CountUnread(s)
  <2>1. Matching(requests[s].user, "unread") \in SUBSET Ids
    BY <1>11 DEF CountUnread, Filters
  <2>q. QED
    BY <1>11, <2>1 DEF CountUnread, Request
<1>q. QED
  BY <1>1, <1>2, <1>3, <1>4, <1>5, <1>6, <1>7, <1>8, <1>9, <1>10, <1>11

LEMMA RequestsType == IInv /\ [Next]_vars => requests' \in [Slots -> Request]
<1> SUFFICES ASSUME IInv, [Next]_vars PROVE requests' \in [Slots -> Request]
  OBVIOUS
<1>1. ASSUME NEW s \in Slots, NEW r \in Request, Go(s, r) PROVE requests' \in [Slots -> Request]
  BY <1>1, GoMoves DEF IInv
<1>2. CASE UNCHANGED requests
  BY <1>2 DEF IInv, TypeOK
<1>3. CASE Restart
  BY <1>3, IdleRequest DEF Restart
<1>q. QED
  BY <1>1, <1>2, <1>3, RequestMoves DEF Next, vars, Midnight, Uncounted

\* What is written to the counter is within the limit.
LEMMA CountsType == IInv /\ [Next]_vars => counts' \in [Users \X Days -> 0..Limit]
<1> SUFFICES ASSUME IInv, [Next]_vars PROVE counts' \in [Users \X Days -> 0..Limit]
  OBVIOUS
<1>1. CASE UNCHANGED counts
  BY <1>1 DEF IInv, TypeOK
<1>2. ASSUME NEW s \in Slots, Increment(s) PROVE counts' \in [Users \X Days -> 0..Limit]
  <2>1. requests[s].current \in 0..Limit /\ requests[s].current < Limit
    BY <1>2, RequestType DEF IInv, Alone, Increment
  <2>2. Taken(requests[s]) \in 0..Limit
    BY <2>1, NotificationAssumption DEF Taken
  <2>q. QED
    BY <1>2, <2>2 DEF IInv, TypeOK, Increment
<1>3. CASE Restart
  BY <1>3, NotificationAssumption DEF Restart
<1>q. QED
  BY <1>1, <1>2, <1>3
  DEF Next, vars, Uncounted, Check, Insert, MarkOne, MarkAll, FindExisting, CommitMarks,
      List, ListRows, ListReads, CountUnread, Respond, Midnight

LEMMA TypeStep == IInv /\ [Next]_vars => TypeOK'
<1> SUFFICES ASSUME IInv, [Next]_vars PROVE TypeOK'
  OBVIOUS
<1>1. reads' \in SUBSET (Ids \X Users)
  <2>1. ASSUME NEW s \in Slots, CommitMarks(s) PROVE reads' \in SUBSET (Ids \X Users)
    BY <2>1, RequestType DEF CommitMarks, Marks, IInv, TypeOK
  <2>2. CASE UNCHANGED reads
    BY <2>2 DEF IInv, TypeOK
  <2>q. QED
    BY <2>1, <2>2
    DEF Next, vars, Uncounted, Check, Increment, Insert, MarkOne, MarkAll, FindExisting,
        List, ListRows, ListReads, CountUnread, Respond, Restart, Midnight
<1>2. day' \in Days
  <2>1. CASE UNCHANGED day
    BY <2>1 DEF IInv, TypeOK
  <2>2. CASE Midnight
    BY <2>2, NotificationAssumption DEF Midnight, Days, IInv, TypeOK
  <2>q. QED
    BY <2>1, <2>2
    DEF Next, vars, Uncounted, Check, Increment, Insert, MarkOne, MarkAll, FindExisting,
        CommitMarks, List, ListRows, ListReads, CountUnread, Respond, Restart
<1>3. raced' \in SUBSET (Users \X Days)
  <2>1. CASE UNCHANGED raced
    BY <2>1 DEF IInv, TypeOK
  <2>2. ASSUME NEW s \in Slots, Check(s) PROVE raced' \in SUBSET (Users \X Days)
    BY <2>2 DEF Check, IInv, TypeOK
  <2>3. CASE Restart
    BY <2>3 DEF Restart, IInv, TypeOK
  <2>q. QED
    BY <2>1, <2>2, <2>3
    DEF Next, vars, Uncounted, Increment, Insert, MarkOne, MarkAll, FindExisting,
        CommitMarks, List, ListRows, ListReads, CountUnread, Respond, Midnight
<1>q. QED
  BY <1>1, <1>2, <1>3, CountsType, RequestsType, TablesGrow DEF TypeOK, IInv

-----------------------------------------------------------------------------
(* Marks and lists.                                                        *)

\* A new request to mark knows what is marked.
LEMMA ToMarkKnows ==
    ASSUME IInv, NEW s \in Slots, NEW u \in Users, NEW w \in SUBSET Ids,
           Go(s, ToMark(u, w)), UNCHANGED <<notifications, reads>>
    PROVE  Marking(s)' /\ Answered(s)' /\ Listing(s)'
<1>1. requests'[s] = ToMark(u, w)
  BY ToMarkType, GoMoves DEF IInv
<1>2. CASE ToMark(u, w).at = "mark"
  <2>1. requests'[s] = [at |-> "mark", user |-> u, wanted |-> w, missing |-> w \ ReadBy(u)]
    BY <1>1, <1>2, ToMarkType
  <2>q. QED
    BY <2>1 DEF Marking, Answered, Listing, ReadBy
<1>3. CASE ToMark(u, w).at = "marked"
  <2>1. requests'[s] = Marked(u, w, {}, "ok") /\ w \subseteq ReadBy(u)
    BY <1>1, <1>3, ToMarkType
  <2>q. QED
    BY <2>1 DEF Marking, Answered, Listing, ReadBy, Marked
<1>q. QED
  BY <1>2, <1>3, ToMarkType

LEMMA CommitKnows ==
    ASSUME IInv, NEW s \in Slots, CommitMarks(s)
    PROVE  Marking(s)' /\ Answered(s)' /\ Listing(s)'
<1> DEFINE r == requests[s]
<1>1. r.at = "mark" /\ r.user \in Users /\ r.wanted \in SUBSET Ids /\ r.missing \in SUBSET Ids
  BY RequestType DEF CommitMarks, IInv
<1>2. (r.wanted \ r.missing) \X {r.user} \subseteq reads
  BY <1>1 DEF IInv, Marking
<1>3. CASE Marks(r) \intersect reads = {}
  <2>1. reads' = reads \union Marks(r) /\ Go(s, Marked(r.user, r.wanted, r.missing, "ok"))
    BY <1>3 DEF CommitMarks
  <2>2. Marked(r.user, r.wanted, r.missing, "ok") \in Request
    BY <1>1 DEF Marked, Request
  <2>3. requests'[s] = Marked(r.user, r.wanted, r.missing, "ok")
    BY <2>1, <2>2, GoMoves DEF IInv
  <2>4. r.wanted \X {r.user} \subseteq reads'
    BY <1>2, <2>1 DEF Marks
  <2>q. QED
    BY <2>3, <2>4 DEF Marking, Answered, Listing, Marked
<1>4. CASE Marks(r) \intersect reads # {}
  <2>1. reads' = reads /\ Go(s, Marked(r.user, r.wanted, r.missing, "conflict"))
    BY <1>4 DEF CommitMarks
  <2>2. Marked(r.user, r.wanted, r.missing, "conflict") \in Request
    BY <1>1 DEF Marked, Request
  <2>3. requests'[s] = Marked(r.user, r.wanted, r.missing, "conflict")
    BY <2>1, <2>2, GoMoves DEF IInv
  <2>4. Marks(requests'[s]) = Marks(r)
    BY <2>3 DEF Marks, Marked
  <2>q. QED
    BY <1>4, <2>1, <2>3, <2>4 DEF Marking, Answered, Listing, Marked, Marks
<1>q. QED
  BY <1>3, <1>4

\* A list takes up what its statement finds.
LEMMA ListKnows ==
    ASSUME IInv, NEW s \in Slots,
           List(s) \/ ListRows(s) \/ ListReads(s) \/ CountUnread(s)
    PROVE  Marking(s)' /\ Answered(s)' /\ Listing(s)'
<1> DEFINE r == requests[s]
<1>1. UNCHANGED <<notifications, reads>>
  BY DEF List, ListRows, ListReads, CountUnread
<1>2. \A u : ReadBy(u)' = ReadBy(u) /\ Visible(u)' = Visible(u)
  BY <1>1 DEF ReadBy, Visible, Sees, Role, Own, Sent
<1>3. \A u : /\ Matching(u, "all") = Visible(u)
             /\ Matching(u, "read") = Visible(u) \intersect ReadBy(u)
             /\ Matching(u, "unread") = Visible(u) \ ReadBy(u)
  BY DEF Matching
<1>4. CASE List(s)
  <2>1. PICK u \in Users, f \in Filters :
          Go(s, [at |-> "rows", user |-> u, filter |-> f, total |-> Matching(u, f)])
    BY <1>4 DEF List
  <2>2. requests'[s] = [at |-> "rows", user |-> u, filter |-> f, total |-> Matching(u, f)]
    BY <2>1, GoMoves, SetTypes DEF IInv, Request
  <2>3. Matching(u, f) \subseteq Visible(u) /\ (f = "read" => Matching(u, f) \subseteq ReadBy(u))
    BY <1>3 DEF Filters
  <2>q. QED
    BY <1>2, <2>2, <2>3 DEF Marking, Answered, Listing
<1>5. CASE ListRows(s)
  <2>1. r.at = "rows" /\ r.user \in Users /\ r.filter \in Filters /\ r.total \in SUBSET Ids
    BY <1>5, RequestType DEF ListRows, IInv
  <2> DEFINE m == Matching(r.user, r.filter)
  <2>2. m \in SUBSET Ids
    BY <2>1, SetTypes
  <2>3. [at |-> "reads", user |-> r.user, filter |-> r.filter, total |-> r.total, rows |-> m]
          \in Request
    BY <2>1, <2>2 DEF Request
  <2>4. requests'[s] = [at |-> "reads", user |-> r.user, filter |-> r.filter,
                        total |-> r.total, rows |-> m]
    BY <1>5, <2>3, GoMoves DEF ListRows, IInv
  <2>5. /\ r.total \subseteq Visible(r.user)
        /\ r.filter = "read" => r.total \subseteq ReadBy(r.user)
    BY <2>1 DEF IInv, Listing
  <2>6. /\ m \subseteq Visible(r.user)
        /\ r.filter = "read" => m \subseteq ReadBy(r.user)
        /\ r.filter # "unread" => r.total \subseteq m
        /\ r.filter = "unread" => r.total \ ReadBy(r.user) \subseteq m
    BY <1>3, <2>1, <2>5 DEF Filters
  <2>q. QED
    BY <1>2, <2>4, <2>6 DEF Marking, Answered, Listing
<1>6. CASE ListReads(s)
  <2>1. /\ r.at = "reads" /\ r.user \in Users /\ r.filter \in Filters
        /\ r.total \in SUBSET Ids /\ r.rows \in SUBSET Ids
    BY <1>6, RequestType DEF ListReads, IInv
  <2> DEFINE new == [at |-> "unread", user |-> r.user, filter |-> r.filter, total |-> r.total,
                     rows |-> r.rows, shown |-> r.rows \intersect ReadBy(r.user)]
  <2>2. new \in Request
    BY <2>1 DEF Request
  <2>3. requests'[s] = new
    BY <1>6, <2>2, GoMoves DEF ListReads, IInv
  <2>4. Listing(s)
    BY DEF IInv
  <2>q. QED
    BY <1>2, <2>1, <2>3, <2>4 DEF Marking, Answered, Listing
<1>7. CASE CountUnread(s)
  <2>1. /\ r.at = "unread" /\ r.user \in Users /\ r.filter \in Filters
        /\ r.total \in SUBSET Ids /\ r.rows \in SUBSET Ids /\ r.shown \in SUBSET Ids
    BY <1>7, RequestType DEF CountUnread, IInv
  <2> DEFINE m == Matching(r.user, "unread")
             new == [at |-> "listed", user |-> r.user, filter |-> r.filter, total |-> r.total,
                     rows |-> r.rows, shown |-> r.shown, unread |-> m]
  <2>2. new \in Request
    BY <2>1, SetTypes DEF Request, Filters
  <2>3. requests'[s] = new
    BY <1>7, <2>2, GoMoves DEF CountUnread, IInv
  <2>4. Listing(s)
    BY DEF IInv
  <2>5. m \intersect ReadBy(r.user) = {}
    BY <1>3
  <2> HIDE DEF m
  <2>q. QED
    BY <1>2, <2>1, <2>3, <2>4, <2>5 DEF Marking, Answered, Listing
<1>q. QED
  BY <1>4, <1>5, <1>6, <1>7

\* The other steps leave the request that moves nothing to know.
LEMMA OtherKnows ==
    ASSUME IInv, NEW s \in Slots,
           Check(s) \/ Increment(s) \/ Insert(s) \/ MarkAll(s) \/ Respond(s)
    PROVE  Marking(s)' /\ Answered(s)' /\ Listing(s)'
<1>1. PICK r \in Request : Go(s, r) /\ r.at \in {"increment", "insert", "visible", "idle"}
  <2>1. PICK r \in Request : Go(s, r)
    BY RequestMoves
  <2>2. requests'[s] = r
    BY <2>1, GoMoves DEF IInv
  <2>3. requests'[s].at \in {"increment", "insert", "visible", "idle"}
    <3>1. ASSUME NEW q, Go(s, q) PROVE requests'[s] = q
      BY <3>1 DEF Go, IInv, TypeOK
    <3>2. CASE Check(s)
      BY <3>1, <3>2 DEF Check
    <3>3. CASE Increment(s)
      BY <3>1, <3>3 DEF Increment
    <3>4. CASE MarkAll(s)
      BY <3>1, <3>4 DEF MarkAll
    <3>5. CASE Insert(s) \/ Respond(s)
      BY <3>1, <3>5, IdleRequest DEF Insert, Respond
    <3>q. QED
      BY <3>2, <3>3, <3>4, <3>5
  <2>q. QED
    BY <2>1, <2>2, <2>3
<1>2. requests'[s] = r
  BY <1>1, GoMoves DEF IInv
<1>q. QED
  BY <1>1, <1>2 DEF Marking, Answered, Listing

LEMMA KnowledgeStep ==
    IInv /\ [Next]_vars => \A s \in Slots : Marking(s)' /\ Answered(s)' /\ Listing(s)'
<1> SUFFICES ASSUME IInv, [Next]_vars, NEW t \in Slots
             PROVE  Marking(t)' /\ Answered(t)' /\ Listing(t)'
  OBVIOUS
<1>1. CASE requests'[t] = requests[t]
  BY <1>1, KnowledgeStays
<1>2. ASSUME NEW s \in Slots, s # t, NEW r \in Request, Go(s, r) PROVE requests'[t] = requests[t]
  BY <1>2, GoMoves DEF IInv
<1>3. CASE MarkOne(t) \/ FindExisting(t)
  <2>1. \E u \in Users, w \in SUBSET Ids : Go(t, ToMark(u, w))
    BY <1>3, RequestType, SetTypes DEF MarkOne, FindExisting, IInv
  <2>q. QED
    BY <1>3, <2>1, ToMarkKnows DEF MarkOne, FindExisting
<1>4. CASE \/ Check(t) \/ Increment(t) \/ Insert(t) \/ MarkAll(t) \/ CommitMarks(t)
           \/ List(t) \/ ListRows(t) \/ ListReads(t) \/ CountUnread(t) \/ Respond(t)
  BY <1>4, CommitKnows, ListKnows, OtherKnows
<1>5. CASE Restart
  <2>1. requests'[t].at = "idle"
    BY <1>5, IdleRequest DEF Restart
  <2>q. QED
    BY <2>1 DEF Marking, Answered, Listing
<1>6. CASE UNCHANGED requests
  BY <1>1, <1>6
<1>q. QED
  BY <1>1, <1>2, <1>3, <1>4, <1>5, <1>6, RequestMoves DEF Next, vars, Midnight, Uncounted

-----------------------------------------------------------------------------
(* The limit.                                                              *)

LEMMA CountsFinite ==
    ASSUME TypeOK, NEW u \in Users, NEW d \in Days
    PROVE  /\ IsFiniteSet(Counted(u, d)) /\ Cardinality(Counted(u, d)) \in Nat
           /\ IsFiniteSet(Pending(u, d)) /\ Cardinality(Pending(u, d)) \in Nat
<1>1. Counted(u, d) \in SUBSET Ids /\ Pending(u, d) \in SUBSET Slots
  BY DEF Counted, By, Sent, Pending
<1>q. QED
  BY <1>1, NotificationAssumption, FS_Subset, FS_CardinalityType

\* While no row comes and no request begins or ends to insert, nothing changes.
LEMMA FitsStays ==
    ASSUME IInv, NEW u \in Users, NEW d \in Days,
           Counted(u, d)' = Counted(u, d), Pending(u, d)' \subseteq Pending(u, d),
           counts'[<<u, d>>] = counts[<<u, d>>], raced \subseteq raced'
    PROVE  Fits(u, d)'
<1>1. Fits(u, d)
  BY DEF IInv
<1>2. /\ Cardinality(Pending(u, d)') <= Cardinality(Pending(u, d))
      /\ Cardinality(Pending(u, d)') \in Nat
  BY CountsFinite, FS_Subset, FS_CardinalityType DEF IInv
<1>3. Cardinality(Counted(u, d)) \in Nat /\ Cardinality(Pending(u, d)) \in Nat
  BY CountsFinite DEF IInv
<1>4. counts[<<u, d>>] \in Nat
  BY NotificationAssumption DEF IInv, TypeOK
<1>q. QED
  BY <1>1, <1>2, <1>3, <1>4 DEF Fits, Role

LEMMA FitsIncrement ==
    ASSUME IInv, NEW s \in Slots, Increment(s), NEW u \in Users, NEW d \in Days
    PROVE  Fits(u, d)'
<1> DEFINE r == requests[s]
<1>1. /\ r.at = "increment" /\ r.user \in Users /\ r.on \in Days /\ r.scope \in Scope
      /\ r.current \in 0..Limit
  BY RequestType DEF Increment, IInv
<1>2. /\ requests'[s] = [at |-> "insert", user |-> r.user, scope |-> r.scope, on |-> r.on]
      /\ \A t \in Slots \ {s} : requests'[t] = requests[t]
  BY <1>1, GoMoves DEF Increment, Request, IInv
<1>3. counts' = [counts EXCEPT ![<<r.user, r.on>>] = r.current + 1] /\ raced' = raced
  BY DEF Increment, Taken
<1>4. Counted(u, d)' = Counted(u, d)
  BY DEF Increment, Counted, By, Sent
<1>5. CASE u # r.user \/ d # r.on
  <2>1. Pending(u, d)' \subseteq Pending(u, d)
    BY <1>2, <1>5 DEF Pending
  <2>2. counts'[<<u, d>>] = counts[<<u, d>>]
    BY <1>1, <1>3, <1>5 DEF IInv, TypeOK
  <2>q. QED
    BY <1>3, <1>4, <2>1, <2>2, FitsStays
<1>6. CASE u = r.user /\ d = r.on
  <2>1. CASE <<u, d>> \in raced
    BY <1>3, <2>1 DEF Fits
  <2>2. CASE <<u, d>> \notin raced
    <3>1. r.current = counts[<<u, d>>]
      BY <1>1, <1>6, <2>2 DEF IInv, Alone
    <3>2. counts'[<<u, d>>] = counts[<<u, d>>] + 1
      BY <1>3, <1>6, <3>1 DEF IInv, TypeOK
    <3>3. Pending(u, d)' = Pending(u, d) \union {s} /\ s \notin Pending(u, d)
      BY <1>1, <1>2, <1>6 DEF Pending
    <3>4. Cardinality(Pending(u, d)') = Cardinality(Pending(u, d)) + 1
      BY <3>3, CountsFinite, FS_AddElement DEF IInv
    <3>5. Fits(u, d) /\ counts[<<u, d>>] \in Nat
      BY NotificationAssumption DEF IInv, TypeOK
    <3>q. QED
      BY <1>4, <2>2, <3>2, <3>4, <3>5, CountsFinite DEF Fits, Role, IInv
  <2>q. QED
    BY <2>1, <2>2
<1>q. QED
  BY <1>5, <1>6

LEMMA FitsInsert ==
    ASSUME IInv, NEW s \in Slots, Insert(s), NEW u \in Users, NEW d \in Days
    PROVE  Fits(u, d)'
<1> DEFINE r == requests[s]
<1>1. r.at = "insert" /\ r.user \in Users /\ r.on \in Days /\ r.scope \in Scope
  BY RequestType DEF Insert, IInv
<1>2. PICK n \in Ids :
        /\ notifications[n] = Absent
        /\ notifications'[n] = [scope |-> r.scope, by |-> r.user, counted |-> r.on, created |-> day]
        /\ notifications'[n] # Absent
        /\ \A m \in Ids \ {n} : notifications'[m] = notifications[m]
  BY <1>1, AddAdds DEF Insert, IInv
<1>3. requests'[s].at = "idle" /\ \A t \in Slots \ {s} : requests'[t] = requests[t]
  BY GoMoves, IdleRequest DEF Insert, IInv
<1>4. counts' = counts /\ raced' = raced
  BY DEF Insert
<1>5. CASE u # r.user \/ d # r.on
  <2>1. Pending(u, d)' \subseteq Pending(u, d)
    BY <1>3 DEF Pending
  <2>2. Counted(u, d)' = Counted(u, d)
    BY <1>2, <1>5 DEF Counted, By, Sent
  <2>q. QED
    BY <1>4, <2>1, <2>2, FitsStays
<1>6. CASE u = r.user /\ d = r.on
  <2>1. Counted(u, d)' = Counted(u, d) \union {n} /\ n \notin Counted(u, d)
    BY <1>2, <1>6 DEF Counted, By, Sent
  <2>2. Pending(u, d)' = Pending(u, d) \ {s} /\ s \in Pending(u, d)
    BY <1>1, <1>3, <1>6 DEF Pending
  <2>3. Cardinality(Counted(u, d)') = Cardinality(Counted(u, d)) + 1
    BY <2>1, CountsFinite, FS_AddElement DEF IInv
  <2>4. Cardinality(Pending(u, d)') = Cardinality(Pending(u, d)) - 1
    BY <2>2, CountsFinite, FS_RemoveElement DEF IInv
  <2>5. Fits(u, d)
    BY DEF IInv
  <2>q. QED
    BY <1>4, <2>3, <2>4, <2>5, CountsFinite DEF Fits, Role, IInv
<1>q. QED
  BY <1>5, <1>6

\* An administrator's row is not in anyone else's count.
LEMMA FitsUncounted ==
    ASSUME IInv, NEW s \in Slots, Uncounted(s), NEW u \in Users, NEW d \in Days
    PROVE  Fits(u, d)'
<1>1. PICK v \in Users, scope \in Scope : Role(v) = "ADMIN" /\ Add(scope, v, day)
  BY DEF Uncounted
<1>2. PICK n \in Ids :
        /\ notifications[n] = Absent
        /\ notifications'[n].by = v
        /\ notifications'[n] # Absent
        /\ \A m \in Ids \ {n} : notifications'[m] = notifications[m]
  <2>1. TypeOK /\ day \in Days
    BY DEF IInv, TypeOK
  <2>2. PICK n \in Ids :
          /\ notifications[n] = Absent
          /\ notifications'[n] = [scope |-> scope, by |-> v, counted |-> day, created |-> day]
          /\ notifications'[n] # Absent
          /\ \A m \in Ids \ {n} : notifications'[m] = notifications[m]
    BY <1>1, <2>1, AddAdds
  <2>q. QED
    BY <2>2
<1>3. CASE u = v
  BY <1>1, <1>3 DEF Fits, Role
<1>4. CASE u # v
  <2>1. Counted(u, d)' = Counted(u, d)
    BY <1>2, <1>4 DEF Counted, By, Sent
  <2>2. Pending(u, d)' = Pending(u, d)
    BY DEF Pending, Uncounted
  <2>q. QED
    BY <2>1, <2>2, FitsStays DEF Uncounted
<1>q. QED
  BY <1>3, <1>4

\* A counter that was forgotten while it counted nothing had nothing to count.
LEMMA FitsRestart ==
    ASSUME IInv, Restart, NEW u \in Users, NEW d \in Days
    PROVE  Fits(u, d)'
<1>1. CASE counts[<<u, d>>] > 0
  BY <1>1 DEF Restart, Fits
<1>2. CASE ~(counts[<<u, d>>] > 0)
  <2>1. counts[<<u, d>>] = 0 /\ counts'[<<u, d>>] = 0
    BY <1>2, NotificationAssumption DEF Restart, IInv, TypeOK
  <2>2. Counted(u, d)' = Counted(u, d)
    BY DEF Restart, Counted, By, Sent
  <2>3. Pending(u, d)' \subseteq Pending(u, d)
    BY IdleRequest DEF Restart, Pending
  <2>q. QED
    BY <2>1, <2>2, <2>3, FitsStays DEF Restart
<1>q. QED
  BY <1>1, <1>2

\* The steps that neither insert nor end to count.
LEMMA FitsQuiet ==
    ASSUME IInv, NEW s \in Slots, NEW u \in Users, NEW d \in Days,
           \/ Check(s) \/ MarkOne(s) \/ MarkAll(s) \/ FindExisting(s) \/ CommitMarks(s)
           \/ List(s) \/ ListRows(s) \/ ListReads(s) \/ CountUnread(s) \/ Respond(s)
    PROVE  Fits(u, d)'
<1>1. UNCHANGED <<counts, notifications>> /\ raced \subseteq raced'
  BY DEF Check, MarkOne, MarkAll, FindExisting, CommitMarks, List, ListRows, ListReads,
         CountUnread, Respond
<1>2. requests'[s].at # "insert" /\ \A t \in Slots \ {s} : requests'[t] = requests[t]
  <2>1. ASSUME NEW q, Go(s, q) PROVE requests'[s] = q
    BY <2>1 DEF Go, IInv, TypeOK
  <2>2. \A t \in Slots \ {s} : requests'[t] = requests[t]
    BY RequestMoves, GoMoves DEF IInv
  <2>3. CASE Check(s)
    BY <2>1, <2>2, <2>3 DEF Check
  <2>4. CASE MarkOne(s) \/ FindExisting(s)
    <3>1. \E v \in Users, w \in SUBSET Ids : Go(s, ToMark(v, w))
      BY <2>4, RequestType, SetTypes DEF MarkOne, FindExisting, IInv
    <3>q. QED
      BY <2>1, <2>2, <3>1, ToMarkType
  <2>5. CASE MarkAll(s)
    BY <2>1, <2>2, <2>5 DEF MarkAll
  <2>6. CASE CommitMarks(s)
    BY <2>1, <2>2, <2>6 DEF CommitMarks, Marked
  <2>7. CASE List(s)
    BY <2>1, <2>2, <2>7 DEF List
  <2>8. CASE ListRows(s) \/ ListReads(s) \/ CountUnread(s)
    BY <2>1, <2>2, <2>8 DEF ListRows, ListReads, CountUnread
  <2>9. CASE Respond(s)
    BY <2>1, <2>2, <2>9, IdleRequest DEF Respond
  <2>q. QED
    BY <2>3, <2>4, <2>5, <2>6, <2>7, <2>8, <2>9
<1>3. Counted(u, d)' = Counted(u, d)
  BY <1>1 DEF Counted, By, Sent
<1>4. Pending(u, d)' \subseteq Pending(u, d)
  BY <1>2 DEF Pending
<1>q. QED
  BY <1>1, <1>3, <1>4, FitsStays

LEMMA FitsStep ==
    IInv /\ [Next]_vars => \A u \in Users, d \in Days : Fits(u, d)'
<1> SUFFICES ASSUME IInv, [Next]_vars, NEW u \in Users, NEW d \in Days PROVE Fits(u, d)'
  OBVIOUS
<1>1. CASE UNCHANGED <<counts, notifications, requests, raced>>
  <2>1. Counted(u, d)' = Counted(u, d) /\ Pending(u, d)' = Pending(u, d)
    BY <1>1 DEF Counted, By, Sent, Pending
  <2>q. QED
    BY <1>1, <2>1, FitsStays
<1>q. QED
  BY <1>1, FitsIncrement, FitsInsert, FitsUncounted, FitsRestart, FitsQuiet
  DEF Next, vars, Midnight

-----------------------------------------------------------------------------
(* Checks that nobody overlapped.                                          *)

LEMMA AloneCheck ==
    ASSUME IInv, NEW s \in Slots, Check(s), NEW t \in Slots
    PROVE  Alone(t)'
<1>1. PICK u \in Users, scope \in Scope :
        /\ Free(s)
        /\ WithinLimit(counts[<<u, day>>])
        /\ Go(s, [at |-> "increment", user |-> u, scope |-> scope, on |-> day,
                  current |-> counts[<<u, day>>]])
        /\ raced' = IF \E q \in Slots : Checking(q, u, day)
                    THEN raced \union {<<u, day>>} ELSE raced
        /\ UNCHANGED <<counts, notifications, reads, day>>
  BY DEF Check
<1>2. requests'[s] = [at |-> "increment", user |-> u, scope |-> scope, on |-> day,
                      current |-> counts[<<u, day>>]]
  BY <1>1 DEF Go, IInv, TypeOK
<1>3. \A q \in Slots \ {s} : requests'[q] = requests[q]
  BY <1>1 DEF Go, IInv, TypeOK
<1>4. CASE t = s
  <2>1. counts[<<u, day>>] < Limit
    BY <1>1 DEF WithinLimit
  <2>2. <<u, day>> \in raced' \/ \A q \in Slots : Checking(q, u, day)' => q = s
    BY <1>1, <1>3 DEF Checking
  <2>q. QED
    BY <1>1, <1>2, <1>4, <2>1, <2>2 DEF Alone, Checking
<1>5. CASE t # s /\ requests[t].at = "increment"
  <2> DEFINE r == requests[t]
  <2>1. requests'[t] = r
    BY <1>3, <1>5
  <2>2. Alone(t)
    BY DEF IInv
  <2>3. CASE <<r.user, r.on>> \in raced
    BY <1>1, <1>5, <2>1, <2>2, <2>3 DEF Alone
  <2>4. CASE r.user = u /\ r.on = day
    BY <1>1, <1>5, <2>1, <2>2, <2>4 DEF Alone, Checking
  <2>5. CASE ~(r.user = u /\ r.on = day) /\ <<r.user, r.on>> \notin raced
    <3>1. \A q \in Slots : Checking(q, r.user, r.on)' => q = t
      BY <1>2, <1>3, <1>5, <2>2, <2>5 DEF Alone, Checking
    <3>q. QED
      BY <1>1, <1>5, <2>1, <2>2, <2>5, <3>1 DEF Alone, Checking
  <2>q. QED
    BY <2>3, <2>4, <2>5
<1>6. CASE t # s /\ requests[t].at # "increment"
  BY <1>3, <1>6 DEF Alone
<1>q. QED
  BY <1>4, <1>5, <1>6

LEMMA AloneIncrement ==
    ASSUME IInv, NEW s \in Slots, Increment(s), NEW t \in Slots
    PROVE  Alone(t)'
<1> DEFINE r == requests[s]
           q == requests[t]
<1>1. /\ r.at = "increment" /\ r.user \in Users /\ r.on \in Days /\ r.scope \in Scope
      /\ r.current \in 0..Limit
  BY RequestType DEF Increment, IInv
<1>2. requests'[s].at = "insert" /\ \A p \in Slots \ {s} : requests'[p] = requests[p]
  BY <1>1 DEF Increment, Go, IInv, TypeOK
<1>3. counts' = [counts EXCEPT ![<<r.user, r.on>>] = r.current + 1] /\ raced' = raced
  BY DEF Increment, Taken
<1>4. CASE t = s \/ q.at # "increment"
  BY <1>2, <1>4 DEF Alone
<1>5. CASE t # s /\ q.at = "increment"
  <2>1. q.user \in Users /\ q.on \in Days
    BY <1>5, RequestType DEF IInv
  <2>2. requests'[t] = q
    BY <1>2, <1>5
  <2>3. Alone(t)
    BY DEF IInv
  <2>4. CASE <<q.user, q.on>> \in raced
    BY <1>3, <1>5, <2>2, <2>3, <2>4 DEF Alone
  <2>5. CASE <<q.user, q.on>> \notin raced
    <3>1. /\ q.current = counts[<<q.user, q.on>>]
          /\ \A p \in Slots : Checking(p, q.user, q.on) => p = t
      BY <1>5, <2>3, <2>5 DEF Alone
    <3>2. <<q.user, q.on>> # <<r.user, r.on>>
      BY <1>1, <1>5, <3>1 DEF Checking
    <3>3. counts'[<<q.user, q.on>>] = counts[<<q.user, q.on>>]
      BY <1>1, <1>3, <2>1, <3>2 DEF IInv, TypeOK
    <3>4. \A p \in Slots : Checking(p, q.user, q.on)' => p = t
      BY <1>2, <2>2, <3>1 DEF Checking
    <3>q. QED
      BY <1>5, <2>2, <2>3, <3>1, <3>3, <3>4 DEF Alone, Checking
  <2>q. QED
    BY <2>4, <2>5
<1>q. QED
  BY <1>4, <1>5

\* No other step touches a counter, or begins a check.
LEMMA AloneQuiet ==
    ASSUME IInv, NEW t \in Slots, counts' = counts, raced' = raced,
           \A p \in Slots : requests'[p] = requests[p] \/ requests'[p].at # "increment"
    PROVE  Alone(t)'
<1>1. Alone(t)
  BY DEF IInv
<1>2. CASE requests'[t].at # "increment"
  BY <1>2 DEF Alone
<1>3. CASE requests'[t] = requests[t] /\ requests[t].at = "increment"
  BY <1>1, <1>3 DEF Alone, Checking
<1>q. QED
  BY <1>2, <1>3

LEMMA QuietMoves ==
    ASSUME IInv, NEW s \in Slots,
           \/ Insert(s) \/ MarkOne(s) \/ MarkAll(s) \/ FindExisting(s) \/ CommitMarks(s)
           \/ List(s) \/ ListRows(s) \/ ListReads(s) \/ CountUnread(s) \/ Respond(s)
    PROVE  /\ counts' = counts /\ raced' = raced
           /\ \A p \in Slots : requests'[p] = requests[p] \/ requests'[p].at # "increment"
<1>1. counts' = counts /\ raced' = raced
  BY DEF Insert, MarkOne, MarkAll, FindExisting, CommitMarks, List, ListRows, ListReads,
         CountUnread, Respond
<1>2. ASSUME NEW q, Go(s, q) PROVE requests'[s] = q
  BY <1>2 DEF Go, IInv, TypeOK
<1>3. \A p \in Slots \ {s} : requests'[p] = requests[p]
  BY RequestMoves, GoMoves DEF IInv
<1>4. requests'[s].at # "increment"
  <2>1. CASE MarkOne(s) \/ FindExisting(s)
    <3>1. \E v \in Users, w \in SUBSET Ids : Go(s, ToMark(v, w))
      BY <2>1, RequestType, SetTypes DEF MarkOne, FindExisting, IInv
    <3>q. QED
      BY <1>2, <3>1, ToMarkType
  <2>2. CASE MarkAll(s)
    BY <1>2, <2>2 DEF MarkAll
  <2>3. CASE CommitMarks(s)
    BY <1>2, <2>3 DEF CommitMarks, Marked
  <2>4. CASE List(s)
    BY <1>2, <2>4 DEF List
  <2>5. CASE ListRows(s) \/ ListReads(s) \/ CountUnread(s)
    BY <1>2, <2>5 DEF ListRows, ListReads, CountUnread
  <2>6. CASE Insert(s) \/ Respond(s)
    BY <1>2, <2>6, IdleRequest DEF Insert, Respond
  <2>q. QED
    BY <2>1, <2>2, <2>3, <2>4, <2>5, <2>6
<1>q. QED
  BY <1>1, <1>3, <1>4

LEMMA AloneStep == IInv /\ [Next]_vars => \A t \in Slots : Alone(t)'
<1> SUFFICES ASSUME IInv, [Next]_vars, NEW t \in Slots PROVE Alone(t)'
  OBVIOUS
<1>1. CASE UNCHANGED <<counts, raced, requests>>
  BY <1>1, AloneQuiet
<1>2. CASE Restart
  <2>1. requests'[t].at # "increment"
    BY <1>2, IdleRequest DEF Restart
  <2>q. QED
    BY <2>1 DEF Alone
<1>q. QED
  BY <1>1, <1>2, AloneCheck, AloneIncrement, QuietMoves, AloneQuiet
  DEF Next, vars, Uncounted, Midnight

-----------------------------------------------------------------------------
(* The theorems.                                                           *)

\* IInv holds throughout: what was counted fits in its counter unless checks raced, and
\* what a request knows of the tables stays true.
THEOREM NotificationsInductive == Spec => []IInv
<1>1. IInv /\ [Next]_vars => IInv'
  BY TypeStep, FitsStep, AloneStep, KnowledgeStep DEF IInv
<1>q. QED
  BY InitInductive, <1>1, PTL DEF Spec

\* The counters, the tables and the requests keep their types.
THEOREM NotificationsTypeCorrect == Spec => []TypeOK
<1>1. IInv => TypeOK
  BY DEF IInv
<1>q. QED
  BY <1>1, NotificationsInductive, PTL

\* A day has at most Limit broadcasts of a user unless its checks raced or were forgotten,
\* or one was counted the day before: the limit of rate_limit.py, for the rows.
THEOREM DailyLimitUnlessRacedHolds == Spec => []DailyLimitUnlessRaced
<1>1. IInv => DailyLimitUnlessRaced
  <2> SUFFICES ASSUME IInv, NEW u \in Users, NEW d \in Days,
                      Role(u) # "ADMIN", <<u, d>> \notin raced,
                      \A n \in By(u) :
                        notifications[n].created = d => notifications[n].counted = d
               PROVE  Cardinality({n \in By(u) : notifications[n].created = d}) <= Limit
    BY DEF DailyLimitUnlessRaced
  <2> DEFINE rows == {n \in By(u) : notifications[n].created = d}
  <2>1. rows \in SUBSET Counted(u, d)
    BY DEF Counted
  <2>2. /\ IsFiniteSet(Counted(u, d)) /\ Cardinality(Counted(u, d)) \in Nat
        /\ Cardinality(Pending(u, d)) \in Nat
    BY CountsFinite DEF IInv
  <2>3. Cardinality(rows) <= Cardinality(Counted(u, d)) /\ Cardinality(rows) \in Nat
    BY <2>1, <2>2, FS_Subset, FS_CardinalityType
  <2>4. Cardinality(Counted(u, d)) + Cardinality(Pending(u, d)) <= counts[<<u, d>>]
    BY DEF IInv, Fits
  <2>5. counts[<<u, d>>] \in 0..Limit
    BY DEF IInv, TypeOK
  <2> HIDE DEF rows
  <2>6. Cardinality(rows) <= Limit
    BY <2>2, <2>3, <2>4, <2>5, NotificationAssumption
  <2>q. QED
    BY <2>6 DEF rows
<1>q. QED
  BY <1>1, NotificationsInductive, PTL

\* An ok of mark-read or mark-all-read stands for marks that are there, and a conflict for
\* one that another request made.
THEOREM MarkedWhenAnsweredHolds == Spec => []MarkedWhenAnswered
<1>1. IInv => MarkedWhenAnswered
  BY DEF IInv, Answered, MarkedWhenAnswered
<1>q. QED
  BY <1>1, NotificationsInductive, PTL

\* The four statements of list_notifications agree as far as marks only being added lets
\* them.
THEOREM ListsTruthfulHolds == Spec => []ListsTruthful
<1>1. IInv => ListsTruthful
  <2> SUFFICES ASSUME IInv, NEW s \in Slots, requests[s].at = "listed"
               PROVE  LET r == requests[s] IN
                        /\ r.shown \X {r.user} \subseteq reads
                        /\ \A n \in r.rows : Sees(r.user, notifications[n])
                        /\ r.filter = "read" => r.shown = r.rows
                        /\ r.filter # "unread" => r.total \subseteq r.rows
                        /\ r.filter = "unread" => r.total \intersect r.unread \subseteq r.rows
                        /\ r.unread \intersect r.shown = {}
    BY DEF ListsTruthful
  <2>1. Listing(s)
    BY DEF IInv
  <2>2. requests[s].shown \X {requests[s].user} \subseteq reads
    BY <2>1 DEF Listing, ReadBy
  <2>3. \A n \in requests[s].rows : Sees(requests[s].user, notifications[n])
    BY <2>1 DEF Listing, Visible
  <2>q. QED
    BY <2>1, <2>2, <2>3 DEF Listing
<1>q. QED
  BY <1>1, NotificationsInductive, PTL

-----------------------------------------------------------------------------
(* The inbox: ImplementsInbox, step by step.                               *)

Nothing == Board!Nothing
Inboxes == [u \in Users |-> Visible(u)]
Readings == [u \in Users |-> ReadBy(u)]
Askeds == [s \in Slots |-> Asked(s)]
boards == <<Inboxes, Readings, Askeds>>

LEMMA TablesStill ==
    ASSUME UNCHANGED <<notifications, reads>>
    PROVE  /\ Inboxes' = Inboxes /\ Readings' = Readings
           /\ \A u : Visible(u)' = Visible(u) /\ ReadBy(u)' = ReadBy(u)
BY DEF Inboxes, Readings, Visible, Sees, Role, Own, Sent, ReadBy

\* What the user of each kind of request knows of it.
LEMMA AskedOf ==
    ASSUME NEW s \in Slots
    PROVE  /\ requests[s].at \notin {"visible", "mark", "marked"} => Asked(s) = Nothing
           /\ requests[s].at = "visible" =>
                Asked(s) = Board!Request(requests[s].user, requests[s].wanted,
                                         requests[s].wanted, "open")
           /\ requests[s].at = "mark" =>
                Asked(s) = Board!Request(requests[s].user, requests[s].wanted,
                                         requests[s].missing, "open")
           /\ requests[s].at = "marked" =>
                Asked(s) = Board!Request(requests[s].user, requests[s].wanted, {},
                                         requests[s].status)
BY DEF Asked, Nothing, Board!Nothing, Board!Request

\* A request that moves changes what is known of it, and of no other.
LEMMA AskedMoves ==
    ASSUME TypeOK, NEW s \in Slots, NEW r \in Request, Go(s, r)
    PROVE  Askeds' = [Askeds EXCEPT ![s] = Asked(s)']
<1>1. \A t \in Slots \ {s} : requests'[t] = requests[t]
  BY GoMoves
<1>2. \A t \in Slots \ {s} : Asked(t)' = Asked(t)
  BY <1>1 DEF Asked
<1>q. QED
  BY <1>2 DEF Askeds

\* What is asked after a request to mark has found what is marked.
LEMMA AskedToMark ==
    ASSUME TypeOK, NEW s \in Slots, NEW u \in Users, NEW w \in SUBSET Ids, Go(s, ToMark(u, w))
    PROVE  Asked(s)' = IF w \subseteq ReadBy(u) THEN Board!Request(u, w, {}, "ok")
                       ELSE Board!Request(u, w, w \ ReadBy(u), "open")
<1>1. requests'[s] = ToMark(u, w)
  BY ToMarkType, GoMoves
<1>2. CASE w \subseteq ReadBy(u)
  <2>1. requests'[s] = [at |-> "marked", user |-> u, wanted |-> w, missing |-> {},
                        status |-> "ok"]
    BY <1>1, <1>2 DEF ToMark, Marked
  <2>q. QED
    BY <1>2, <2>1 DEF Asked, Board!Request
<1>3. CASE ~(w \subseteq ReadBy(u))
  <2>1. requests'[s] = [at |-> "mark", user |-> u, wanted |-> w, missing |-> w \ ReadBy(u)]
    BY <1>1, <1>3 DEF ToMark
  <2>q. QED
    BY <1>3, <2>1 DEF Asked, Board!Request
<1>q. QED
  BY <1>2, <1>3

\* The steps a user who marks does not see.
LEMMA BoardQuiet ==
    ASSUME IInv, NEW s \in Slots,
           \/ Check(s) \/ Increment(s)
           \/ List(s) \/ ListRows(s) \/ ListReads(s) \/ CountUnread(s)
    PROVE  UNCHANGED boards
<1>1. UNCHANGED <<notifications, reads>>
  BY DEF Check, Increment, List, ListRows, ListReads, CountUnread
<1>2. PICK r \in Request : Go(s, r)
  BY RequestMoves
<1>3. requests[s].at \in {"idle", "increment", "rows", "reads", "unread"}
  BY DEF Check, Increment, List, ListRows, ListReads, CountUnread, Free
<1>4. requests'[s].at \in {"increment", "insert", "rows", "reads", "unread", "listed"}
  <2>1. ASSUME NEW q, Go(s, q) PROVE requests'[s] = q
    BY <2>1 DEF Go, IInv, TypeOK
  <2>2. CASE Check(s)
    BY <2>1, <2>2 DEF Check
  <2>3. CASE Increment(s)
    BY <2>1, <2>3 DEF Increment
  <2>4. CASE List(s)
    BY <2>1, <2>4 DEF List
  <2>5. CASE ListRows(s) \/ ListReads(s) \/ CountUnread(s)
    BY <2>1, <2>5 DEF ListRows, ListReads, CountUnread
  <2>q. QED
    BY <2>2, <2>3, <2>4, <2>5
<1>5. Asked(s) = Nothing /\ Asked(s)' = Nothing
  BY <1>3, <1>4 DEF Asked, Nothing, Board!Nothing
<1>6. Askeds' = [Askeds EXCEPT ![s] = Nothing] /\ Askeds[s] = Nothing
  BY <1>2, <1>5, AskedMoves DEF IInv, Askeds
<1>7. Askeds' = Askeds
  BY <1>6 DEF Askeds
<1>q. QED
  BY <1>1, <1>7, TablesStill DEF boards

\* A new row arrives where it is seen.
LEMMA BoardAdd ==
    ASSUME IInv, NEW s \in Slots, Uncounted(s) \/ Insert(s)
    PROVE  \E n \in Ids : Board!Arrive(n)
<1>1. PICK n \in Ids :
        /\ notifications[n] = Absent
        /\ notifications'[n] # Absent
        /\ \A m \in Ids \ {n} : notifications'[m] = notifications[m]
  BY BroadcastAdds, AddAdds DEF IInv
<1>2. UNCHANGED reads
  BY DEF Uncounted, Insert
<1>3. Askeds' = Askeds
  <2>1. CASE Uncounted(s)
    BY <2>1 DEF Uncounted, Askeds, Asked
  <2>2. CASE Insert(s)
    <3>1. requests[s].at = "insert" /\ Go(s, Idle)
      BY <2>2 DEF Insert
    <3>2. requests'[s].at = "idle"
      BY <3>1, IdleRequest, GoMoves DEF IInv
    <3>3. Asked(s) = Nothing /\ Asked(s)' = Nothing
      BY <3>1, <3>2 DEF Asked, Nothing, Board!Nothing
    <3>4. Askeds' = [Askeds EXCEPT ![s] = Nothing] /\ Askeds[s] = Nothing
      BY <3>1, <3>3, IdleRequest, AskedMoves DEF IInv, Askeds
    <3>q. QED
      BY <3>4 DEF Askeds
  <2>q. QED
    BY <2>1, <2>2
<1> DEFINE to == {u \in Users : Sees(u, notifications'[n])}
<1>4. \A u \in Users : n \notin Visible(u)
  BY <1>1 DEF Visible, Sent
<1>5. \A u \in Users : Visible(u)' = IF u \in to THEN Visible(u) \union {n} ELSE Visible(u)
  BY <1>1 DEF Visible, Sent, Sees, Role, Own
<1>6. Inboxes' = [u \in Users |-> IF u \in to THEN Inboxes[u] \union {n} ELSE Inboxes[u]]
  BY <1>5 DEF Inboxes
<1>7. Readings' = Readings
  BY <1>2 DEF Readings, ReadBy
<1>8. to \in SUBSET Users
  OBVIOUS
<1>9. \A u \in Users : n \notin Inboxes[u]
  BY <1>4 DEF Inboxes
<1> HIDE DEF to
<1>10. \E t \in SUBSET Users :
         Inboxes' = [u \in Users |-> IF u \in t THEN Inboxes[u] \union {n} ELSE Inboxes[u]]
  BY <1>6, <1>8
<1>q. QED
  BY <1>3, <1>7, <1>9, <1>10 DEF Board!Arrive, Inboxes, Readings, Askeds

LEMMA BoardMarkOne ==
    ASSUME IInv, NEW s \in Slots, MarkOne(s)
    PROVE  \E u \in Users : Board!Ask(s, u)
<1>1. PICK u \in Users, n \in Ids : n \in Visible(u) /\ Free(s) /\ Go(s, ToMark(u, {n}))
  BY SetTypes DEF MarkOne
<1>2. {n} \in SUBSET Ids
  BY <1>1, SetTypes
<1> DEFINE w == {n}
<1>3. Asked(s)' = IF w \subseteq ReadBy(u) THEN Board!Request(u, w, {}, "ok")
                  ELSE Board!Request(u, w, w \ ReadBy(u), "open")
  BY <1>1, <1>2, AskedToMark DEF IInv
<1>4. Askeds' = [Askeds EXCEPT ![s] = Asked(s)']
  BY <1>1, <1>2, ToMarkType, AskedMoves DEF IInv
<1>5. UNCHANGED <<Inboxes, Readings>>
  BY TablesStill DEF MarkOne
<1>6. Askeds[s].status = "none"
  BY <1>1 DEF Free, Asked, Askeds
<1>7. w \in {Inboxes[u]} \union {{m} : m \in Inboxes[u]} /\ Readings[u] = ReadBy(u)
  BY <1>1 DEF Inboxes, Readings
<1> HIDE DEF w
<1>8. Askeds' = [Askeds EXCEPT ![s] =
        IF w \subseteq Readings[u] THEN Board!Request(u, w, {}, "ok")
        ELSE Board!Request(u, w, w \ Readings[u], "open")]
  BY <1>3, <1>4, <1>7
<1>9. \E wanted \in {Inboxes[u]} \union {{m} : m \in Inboxes[u]} :
        Askeds' = [Askeds EXCEPT ![s] =
          IF wanted \subseteq Readings[u] THEN Board!Request(u, wanted, {}, "ok")
          ELSE Board!Request(u, wanted, wanted \ Readings[u], "open")]
  BY <1>7, <1>8
<1>q. QED
  BY <1>5, <1>6, <1>9 DEF Board!Ask, Inboxes, Readings, Askeds

LEMMA BoardMarkAll ==
    ASSUME IInv, NEW s \in Slots, MarkAll(s)
    PROVE  \E u \in Users : Board!AskAll(s, u)
<1>1. PICK u \in Users :
        /\ Free(s)
        /\ Go(s, [at |-> "visible", user |-> u, wanted |-> Visible(u)])
  BY DEF MarkAll
<1>2. [at |-> "visible", user |-> u, wanted |-> Visible(u)] \in Request
  BY SetTypes DEF Request
<1>3. requests'[s] = [at |-> "visible", user |-> u, wanted |-> Visible(u)]
  BY <1>1, <1>2, GoMoves DEF IInv
<1>4. Asked(s)' = Board!Request(u, Visible(u), Visible(u), "open")
  BY <1>3 DEF Asked, Board!Request
<1>5. Askeds' = [Askeds EXCEPT ![s] = Asked(s)']
  BY <1>1, <1>2, AskedMoves DEF IInv
<1>6. UNCHANGED <<Inboxes, Readings>>
  BY TablesStill DEF MarkAll
<1>7. Askeds[s].status = "none"
  BY <1>1 DEF Free, Asked, Askeds
<1>q. QED
  BY <1>4, <1>5, <1>6, <1>7 DEF Board!AskAll, Inboxes, Readings, Askeds

\* When all is marked already, the look is the mark.
LEMMA BoardFind ==
    ASSUME IInv, NEW s \in Slots, FindExisting(s)
    PROVE  Board!Look(s) \/ Board!Mark(s)
<1> DEFINE u == requests[s].user
           w == requests[s].wanted
<1>1. /\ requests[s].at = "visible" /\ u \in Users /\ w \in SUBSET Ids
      /\ Go(s, ToMark(u, w))
  BY RequestType DEF FindExisting, IInv
<1>2. Asked(s)' = IF w \subseteq ReadBy(u) THEN Board!Request(u, w, {}, "ok")
                  ELSE Board!Request(u, w, w \ ReadBy(u), "open")
  BY <1>1, AskedToMark DEF IInv
<1>3. Askeds' = [Askeds EXCEPT ![s] = Asked(s)']
  BY <1>1, ToMarkType, AskedMoves DEF IInv
<1>4. UNCHANGED <<Inboxes, Readings>>
  BY TablesStill DEF FindExisting
<1>5. Askeds[s] = Board!Request(u, w, w, "open") /\ Readings[u] = ReadBy(u)
  BY <1>1, AskedOf DEF Askeds, Readings
<1>6. /\ Askeds[s].user = u /\ Askeds[s].wanted = w /\ Askeds[s].status = "open"
  BY <1>5 DEF Board!Request
<1> HIDE DEF u, w
<1>7. CASE w \subseteq ReadBy(u)
  <2>1. Readings' = [Readings EXCEPT ![u] = @ \union w]
    BY <1>1, <1>4, <1>5, <1>7 DEF Readings
  <2>2. Askeds' = [Askeds EXCEPT ![s] = Board!Request(u, w, {}, "ok")]
    BY <1>2, <1>3, <1>7
  <2>q. QED
    BY <1>4, <1>6, <2>1, <2>2 DEF Board!Mark, Board!Answer, Board!Open, Inboxes, Readings, Askeds
<1>8. CASE ~(w \subseteq ReadBy(u))
  <2>1. Askeds' = [Askeds EXCEPT ![s] = Board!Request(u, w, w \ Readings[u], "open")]
    BY <1>2, <1>3, <1>5, <1>8
  <2>q. QED
    BY <1>4, <1>6, <2>1 DEF Board!Look, Board!Open, Inboxes, Readings, Askeds
<1>q. QED
  BY <1>7, <1>8

\* What is marked already and what is inserted make up all that was asked for.
LEMMA BoardCommit ==
    ASSUME IInv, NEW s \in Slots, CommitMarks(s)
    PROVE  Board!Mark(s) \/ Board!Refuse(s)
<1> DEFINE r == requests[s]
           u == r.user
<1>1. r.at = "mark" /\ u \in Users /\ r.wanted \in SUBSET Ids /\ r.missing \in SUBSET Ids
  BY RequestType DEF CommitMarks, IInv
<1>2. (r.wanted \ r.missing) \subseteq ReadBy(u)
  BY <1>1 DEF IInv, Marking, ReadBy
<1>3. Askeds[s] = Board!Request(u, r.wanted, r.missing, "open") /\ Readings[u] = ReadBy(u)
  BY <1>1, AskedOf DEF Askeds, Readings
<1>4. /\ Askeds[s].user = u /\ Askeds[s].wanted = r.wanted /\ Askeds[s].due = r.missing
      /\ Askeds[s].status = "open"
  BY <1>3 DEF Board!Request
<1>5. UNCHANGED notifications
  BY DEF CommitMarks
<1>6. Inboxes' = Inboxes
  BY <1>5 DEF Inboxes, Visible, Sees, Role, Own, Sent
<1>7. ASSUME NEW status \in {"ok", "conflict"}, Go(s, Marked(u, r.wanted, r.missing, status))
      PROVE  Askeds' = [Askeds EXCEPT ![s] = Board!Request(u, r.wanted, {}, status)]
  <2>1. Marked(u, r.wanted, r.missing, status) \in Request
    BY <1>1 DEF Marked, Request
  <2>2. requests'[s] = Marked(u, r.wanted, r.missing, status)
    BY <1>7, <2>1, GoMoves DEF IInv
  <2>3. Asked(s)' = Board!Request(u, r.wanted, {}, status)
    BY <2>2 DEF Asked, Marked, Board!Request
  <2>q. QED
    BY <1>7, <2>1, <2>3, AskedMoves DEF IInv
<1>8. CASE Marks(r) \intersect reads = {}
  <2>1. reads' = reads \union Marks(r) /\ Go(s, Marked(u, r.wanted, r.missing, "ok"))
    BY <1>8 DEF CommitMarks
  <2>2. \A v \in Users : ReadBy(v)' = IF v = u THEN ReadBy(v) \union r.missing ELSE ReadBy(v)
    BY <1>1, <2>1 DEF ReadBy, Marks
  <2>3. r.missing \subseteq r.wanted
    BY <1>1 DEF IInv, Marking
  <2>4. ReadBy(u) \union r.missing = ReadBy(u) \union r.wanted
    BY <1>2, <2>3
  <2>5. Readings' = [Readings EXCEPT ![u] = @ \union r.wanted]
    BY <1>1, <2>2, <2>4 DEF Readings
  <2>6. Askeds' = [Askeds EXCEPT ![s] = Board!Request(u, r.wanted, {}, "ok")]
    BY <1>7, <2>1
  <2> HIDE DEF u, r
  <2>q. QED
    BY <1>4, <1>6, <2>5, <2>6 DEF Board!Mark, Board!Answer, Board!Open, Inboxes, Readings, Askeds
<1>9. CASE Marks(r) \intersect reads # {}
  <2>1. reads' = reads /\ Go(s, Marked(u, r.wanted, r.missing, "conflict"))
    BY <1>9 DEF CommitMarks
  <2>2. Readings' = Readings
    BY <2>1 DEF Readings, ReadBy
  <2>3. r.missing \intersect ReadBy(u) # {}
    BY <1>1, <1>9 DEF Marks, ReadBy
  <2>4. Askeds' = [Askeds EXCEPT ![s] = Board!Request(u, r.wanted, {}, "conflict")]
    BY <1>7, <2>1
  <2> HIDE DEF u, r
  <2>q. QED
    BY <1>3, <1>4, <1>6, <2>2, <2>3, <2>4
    DEF Board!Refuse, Board!Answer, Board!Open, Inboxes, Readings, Askeds
<1>q. QED
  BY <1>8, <1>9

LEMMA BoardRespond ==
    ASSUME IInv, NEW s \in Slots, Respond(s)
    PROVE  Board!Leave
<1>1. requests[s].at \in {"marked", "listed"} /\ Go(s, Idle)
  BY DEF Respond
<1>2. requests'[s].at = "idle"
  BY <1>1, IdleRequest, GoMoves DEF IInv
<1>3. Asked(s)' = Nothing
  BY <1>2 DEF Asked, Nothing, Board!Nothing
<1>4. Askeds' = [Askeds EXCEPT ![s] = Nothing]
  BY <1>1, <1>3, IdleRequest, AskedMoves DEF IInv
<1>5. Askeds[s].status # "open"
  BY <1>1, RequestType DEF IInv, Askeds, Asked
<1>6. UNCHANGED <<Inboxes, Readings>>
  BY TablesStill DEF Respond
<1>q. QED
  BY <1>4, <1>5, <1>6 DEF Board!Leave, Board!Open, Nothing, Inboxes, Readings, Askeds

LEMMA BoardRestart == Restart => Board!Leave
<1> SUFFICES ASSUME Restart PROVE Board!Leave
  OBVIOUS
<1>1. \A s \in Slots : requests'[s].at = "idle"
  BY IdleRequest DEF Restart
<1>2. \A s \in Slots : Asked(s)' = Nothing
  BY <1>1 DEF Asked, Nothing, Board!Nothing
<1>3. Askeds' = [s \in Slots |-> Nothing]
  BY <1>2 DEF Askeds
<1>4. UNCHANGED <<Inboxes, Readings>>
  BY TablesStill DEF Restart
<1>q. QED
  BY <1>3, <1>4 DEF Board!Leave, Nothing, Inboxes, Readings, Askeds

\* Every step is a step of the inbox, or one its users do not see.
LEMMA StepBoard ==
    IInv /\ [Next]_vars => [Board!InboxNext]_boards
<1> SUFFICES ASSUME IInv, [Next]_vars PROVE Board!InboxNext \/ UNCHANGED boards
  OBVIOUS
<1>1. CASE UNCHANGED <<notifications, reads, requests>>
  <2>1. Askeds' = Askeds
    BY <1>1 DEF Askeds, Asked
  <2>q. QED
    BY <1>1, <2>1, TablesStill DEF boards
<1>2. CASE \E s \in Slots : Uncounted(s) \/ Insert(s)
  BY <1>2, BoardAdd DEF Board!InboxNext
<1>3. CASE \E s \in Slots : MarkOne(s) \/ MarkAll(s)
  BY <1>3, BoardMarkOne, BoardMarkAll DEF Board!InboxNext
<1>4. CASE \E s \in Slots : FindExisting(s) \/ CommitMarks(s)
  BY <1>4, BoardFind, BoardCommit DEF Board!InboxNext
<1>5. CASE Restart \/ \E s \in Slots : Respond(s)
  BY <1>5, BoardRespond, BoardRestart DEF Board!InboxNext
<1>q. QED
  BY <1>1, <1>2, <1>3, <1>4, <1>5, BoardQuiet DEF Next, vars, Midnight

\* The three or four statements of mark-read and mark-all-read, among all others, are one
\* step for the user: all that was asked for, or nothing and a reason.
THEOREM ImplementsInboxHolds == Spec => ImplementsInbox
<1>1. Init => Board!InboxInit
  <2> SUFFICES ASSUME Init PROVE Board!InboxInit
    OBVIOUS
  <2>1. \A u \in Users : Visible(u) = {} /\ ReadBy(u) = {}
    BY DEF Init, Visible, Sent, ReadBy
  <2>2. \A s \in Slots : requests[s].at = "idle"
    BY IdleRequest DEF Init
  <2>3. \A s \in Slots : Asked(s) = Board!Nothing
    BY <2>2 DEF Asked, Board!Nothing
  <2>q. QED
    BY <2>1, <2>3 DEF Board!InboxInit
<1>2. IInv /\ [Next]_vars => [Board!InboxNext]_boards
  BY StepBoard
<1>q. QED
  BY <1>1, <1>2, NotificationsInductive, PTL
  DEF Spec, ImplementsInbox, Board!InboxSpec, boards, Inboxes, Readings, Askeds
=============================================================================

----------------------------- MODULE Notifications -----------------------------
(***************************************************************************)
(* Broadcasts, their daily limit, and who has read them: the notification  *)
(* routes of app/api/routes.py, with app/services/rate_limit.py.           *)
(*                                                                         *)
(* The limiter counts in memory, in three steps and without a lock; marks  *)
(* and lists are several statements each, at READ COMMITTED.  Requests run *)
(* on a pool of threads.  Who a user is does not change here (see          *)
(* Accounts).  A page is long enough for all a list finds.  Messages are   *)
(* left out, and so are deliveries: they are inserted with their           *)
(* notification, as queued, and nothing ever changes them.                 *)
(***************************************************************************)
EXTENDS Integers, FiniteSets

CONSTANTS
    Users,
    Profile,        \* the role and the scope of each user
    Communities,
    Buildings,
    None,
    Absent,         \* no such row
    Slots,          \* threads of the pool
    Listers,        \* bound: the threads that answer lists, and to whom
    Limit,          \* broadcasts a day
    Ids,            \* bound: notifications
    LastDay         \* bound: days

Days == 1..LastDay
Roles == {"ADMIN", "COORDINATOR", "BUILDING_MANAGER", "RESIDENT"}
Filters == {"all", "read", "unread"}

Scope == [community : Communities \union {None}, building : Buildings \union {None}]

\* A notification; counted is the day whose counter it was taken from.
Notification == [scope : Scope, by : Users, counted : Days, created : Days]

ASSUME NotificationAssumption ==
    /\ Profile \in [Users -> [role : Roles, scope : Scope]]
    /\ None \notin Communities \union Buildings
    /\ Absent \notin Notification
    /\ IsFiniteSet(Ids) /\ IsFiniteSet(Slots) /\ Listers \subseteq Slots \X Users
    /\ Limit \in Nat /\ LastDay \in Nat \ {0}

VARIABLES
    counts,         \* BroadcastRateLimiter._counts, by user and day
    notifications,  \* the table notifications: a row for each id, or Absent
    reads,          \* notification_reads: pairs of a notification and a user
    requests,       \* what each thread of the pool is doing
    day,            \* date.today()
    raced           \* history: users and days with checks that overlapped or were forgotten

vars == <<counts, notifications, reads, requests, day, raced>>

Idle == [at |-> "idle"]

\* A request on its way, or answered: "marked" and "listed" are what the client got.
Request ==
    {Idle}
      \union [at : {"increment"}, user : Users, scope : Scope, on : Days, current : 0..Limit]
      \union [at : {"insert"}, user : Users, scope : Scope, on : Days]
      \union [at : {"visible"}, user : Users, wanted : SUBSET Ids]
      \union [at : {"mark"}, user : Users, wanted : SUBSET Ids, missing : SUBSET Ids]
      \union [at : {"marked"}, user : Users, wanted : SUBSET Ids, missing : SUBSET Ids,
              status : {"ok", "conflict"}]
      \union [at : {"rows"}, user : Users, filter : Filters, total : SUBSET Ids]
      \union [at : {"reads"}, user : Users, filter : Filters, total : SUBSET Ids,
              rows : SUBSET Ids]
      \union [at : {"unread"}, user : Users, filter : Filters, total : SUBSET Ids,
              rows : SUBSET Ids, shown : SUBSET Ids]
      \union [at : {"listed"}, user : Users, filter : Filters, total : SUBSET Ids,
              rows : SUBSET Ids, shown : SUBSET Ids, unread : SUBSET Ids]

\* The tables, the counters and the requests keep their types.
TypeOK ==
    /\ counts \in [Users \X Days -> 0..Limit]
    /\ notifications \in [Ids -> Notification \union {Absent}]
    /\ reads \in SUBSET (Ids \X Users)
    /\ requests \in [Slots -> Request]
    /\ day \in Days
    /\ raced \in SUBSET (Users \X Days)

Init ==
    /\ counts = [k \in Users \X Days |-> 0]
    /\ notifications = [n \in Ids |-> Absent]
    /\ reads = {}
    /\ requests = [s \in Slots |-> Idle]
    /\ day = 1
    /\ raced = {}

Free(s) == requests[s].at = "idle"
Go(s, r) == requests' = [requests EXCEPT ![s] = r]

-----------------------------------------------------------------------------
(* Who sees what, and who may send where.                                  *)

Role(u) == Profile[u].role
Own(u) == Profile[u].scope
Sent == {n \in Ids : notifications[n] # Absent}

\* A scope that is not set matches the notifications that have none (IS NULL).
Sees(u, row) ==
    CASE Role(u) = "ADMIN" -> TRUE
      [] Role(u) \in {"COORDINATOR", "RESIDENT"} ->
            row.scope.community = Own(u).community
      [] Role(u) = "BUILDING_MANAGER" -> row.scope.building = Own(u).building

\* _apply_notification_scope.
Visible(u) == {n \in Sent : Sees(u, notifications[n])}

ToCommunity(c) == [community |-> c, building |-> None]
ToBuilding(b) == [community |-> None, building |-> b]

\* The scopes the two routes let a user send to.
Reach(u) ==
    {ToCommunity(c) : c \in {c \in Communities :
        Role(u) = "ADMIN" \/ (Role(u) = "COORDINATOR" /\ Own(u).community = c)}}
      \union
    {ToBuilding(b) : b \in {b \in Buildings :
        Role(u) = "ADMIN" \/ (Role(u) = "BUILDING_MANAGER" /\ Own(u).building = b)}}

\* Mutant of ReadBy: what anyone has read.
ReadByAnyone(u) == {n \in Ids : \E v \in Users : <<n, v>> \in reads}

\* The notifications that have a row of notification_reads for this user.
ReadBy(u) == {n \in Ids : <<n, u>> \in reads}

-----------------------------------------------------------------------------
(* Broadcasts.                                                             *)

\* The row gets the time of its insertion, which may be on the day after counted.
Add(scope, by, counted) ==
    \E n \in Ids \ Sent :
        notifications' = [notifications EXCEPT ![n] =
            [scope |-> scope, by |-> by, counted |-> counted, created |-> day]]

\* An administrator is not counted.
Uncounted(s) ==
    \E u \in Users, scope \in Scope :
        /\ Free(s)
        /\ Role(u) = "ADMIN"
        /\ scope \in Reach(u)
        /\ Add(scope, u, day)
        /\ UNCHANGED <<counts, reads, requests, day, raced>>

\* Mutant of WithinLimit: the count is kept and never tested.
WithinLimitUntested(current) == TRUE

WithinLimit(current) == current < Limit

Checking(t, u, d) ==
    /\ requests[t].at = "increment"
    /\ requests[t].user = u
    /\ requests[t].on = d

\* The key of today, the count under it, and the test.
Check(s) ==
    \E u \in Users, scope \in Scope :
        /\ Free(s)
        /\ Role(u) # "ADMIN"
        /\ scope \in Reach(u)
        /\ WithinLimit(counts[<<u, day>>])
        /\ Go(s, [at |-> "increment", user |-> u, scope |-> scope, on |-> day,
                  current |-> counts[<<u, day>>]])
        /\ raced' = IF \E t \in Slots : Checking(t, u, day)
                    THEN raced \union {<<u, day>>} ELSE raced
        /\ UNCHANGED <<counts, notifications, reads, day>>

\* Mutant of Taken: the count as it is, so that nothing is ever used up.
TakenKeeps(r) == r.current

Taken(r) == r.current + 1

Increment(s) ==
    LET r == requests[s] IN
        /\ r.at = "increment"
        /\ counts' = [counts EXCEPT ![<<r.user, r.on>>] = Taken(r)]
        /\ Go(s, [at |-> "insert", user |-> r.user, scope |-> r.scope, on |-> r.on])
        /\ UNCHANGED <<notifications, reads, day, raced>>

Insert(s) ==
    LET r == requests[s] IN
        /\ r.at = "insert"
        /\ Add(r.scope, r.user, r.on)
        /\ Go(s, Idle)
        /\ UNCHANGED <<counts, reads, day, raced>>

-----------------------------------------------------------------------------
(* Marking.                                                                *)

Marked(u, wanted, missing, status) ==
    [at |-> "marked", user |-> u, wanted |-> wanted, missing |-> missing, status |-> status]

\* With nothing to insert, the answer is ok at once.
ToMark(u, wanted) ==
    LET missing == wanted \ ReadBy(u) IN
        IF missing = {} THEN Marked(u, wanted, {}, "ok")
        ELSE [at |-> "mark", user |-> u, wanted |-> wanted, missing |-> missing]

\* mark_notification_read, up to the search for an existing mark.
MarkOne(s) ==
    \E u \in Users : \E n \in Visible(u) :
        /\ Free(s)
        /\ Go(s, ToMark(u, {n}))
        /\ UNCHANGED <<counts, notifications, reads, day, raced>>

\* mark_all_notifications_read: what is visible,
MarkAll(s) ==
    \E u \in Users :
        /\ Free(s)
        /\ Visible(u) # {}
        /\ Go(s, [at |-> "visible", user |-> u, wanted |-> Visible(u)])
        /\ UNCHANGED <<counts, notifications, reads, day, raced>>

\* and which of them have a mark.
FindExisting(s) ==
    /\ requests[s].at = "visible"
    /\ Go(s, ToMark(requests[s].user, requests[s].wanted))
    /\ UNCHANGED <<counts, notifications, reads, day, raced>>

Marks(r) == r.missing \X {r.user}

\* One commit; a mark that another request has made meanwhile refuses them all.
CommitMarks(s) ==
    LET r == requests[s] IN
        /\ r.at = "mark"
        /\ IF Marks(r) \intersect reads = {}
           THEN /\ reads' = reads \union Marks(r)
                /\ Go(s, Marked(r.user, r.wanted, r.missing, "ok"))
           ELSE /\ Go(s, Marked(r.user, r.wanted, r.missing, "conflict"))
                /\ UNCHANGED reads
        /\ UNCHANGED <<counts, notifications, day, raced>>

-----------------------------------------------------------------------------
(* list_notifications: the count, the rows, the marks of the rows, and the *)
(* count of unread ones.  A count is kept as the set it counts.            *)

Matching(u, filter) ==
    CASE filter = "all" -> Visible(u)
      [] filter = "read" -> Visible(u) \intersect ReadBy(u)
      [] filter = "unread" -> Visible(u) \ ReadBy(u)

List(s) ==
    \E u \in Users, filter \in Filters :
        /\ <<s, u>> \in Listers /\ Free(s)
        /\ Go(s, [at |-> "rows", user |-> u, filter |-> filter, total |-> Matching(u, filter)])
        /\ UNCHANGED <<counts, notifications, reads, day, raced>>

ListRows(s) ==
    LET r == requests[s] IN
        /\ r.at = "rows"
        /\ Go(s, [at |-> "reads", user |-> r.user, filter |-> r.filter, total |-> r.total,
                  rows |-> Matching(r.user, r.filter)])
        /\ UNCHANGED <<counts, notifications, reads, day, raced>>

\* What the answer shows as read.
ListReads(s) ==
    LET r == requests[s] IN
        /\ r.at = "reads"
        /\ Go(s, [at |-> "unread", user |-> r.user, filter |-> r.filter, total |-> r.total,
                  rows |-> r.rows, shown |-> r.rows \intersect ReadBy(r.user)])
        /\ UNCHANGED <<counts, notifications, reads, day, raced>>

CountUnread(s) ==
    LET r == requests[s] IN
        /\ r.at = "unread"
        /\ Go(s, [at |-> "listed", user |-> r.user, filter |-> r.filter, total |-> r.total,
                  rows |-> r.rows, shown |-> r.shown, unread |-> Matching(r.user, "unread")])
        /\ UNCHANGED <<counts, notifications, reads, day, raced>>

-----------------------------------------------------------------------------
(* The rest.                                                               *)

\* The answer is on its way, and the thread is free.
Respond(s) ==
    /\ requests[s].at \in {"marked", "listed"}
    /\ Go(s, Idle)
    /\ UNCHANGED <<counts, notifications, reads, day, raced>>

\* The counters and the requests go; what is committed stays.
Restart ==
    /\ counts' = [k \in Users \X Days |-> 0]
    /\ requests' = [s \in Slots |-> Idle]
    /\ raced' = raced \union {k \in Users \X Days : counts[k] > 0}
    /\ UNCHANGED <<notifications, reads, day>>

Midnight ==
    /\ day < LastDay
    /\ day' = day + 1
    /\ UNCHANGED <<counts, notifications, reads, requests, raced>>

Next ==
    \/ \E s \in Slots :
          \/ Uncounted(s) \/ Check(s) \/ Increment(s) \/ Insert(s)
          \/ MarkOne(s) \/ MarkAll(s) \/ FindExisting(s) \/ CommitMarks(s)
          \/ List(s) \/ ListRows(s) \/ ListReads(s) \/ CountUnread(s)
          \/ Respond(s)
    \/ Restart
    \/ Midnight

Spec == Init /\ [][Next]_vars

-----------------------------------------------------------------------------
(* What the component promises.                                            *)

By(u) == {n \in Sent : notifications[n].by = u}

\* The limit of rate_limit.py holds for the rows: a day has at most Limit broadcasts of a
\* user, unless checks of that day overlapped, a restart forgot its counter, or a
\* broadcast counted on the day before was inserted after midnight.
DailyLimitUnlessRaced ==
    \A u \in Users, d \in Days :
        LET rows == {n \in By(u) : notifications[n].created = d} IN
            Role(u) = "ADMIN" \/ <<u, d>> \in raced
              \/ (\E n \in rows : notifications[n].counted # d)
              \/ Cardinality(rows) <= Limit

\* An ok of mark-read or mark-all-read means that all that was visible when it began is
\* marked, and is from then on; a conflict, which leaves the whole batch out, means that
\* another request of the same user marked one of them in between.
MarkedWhenAnswered ==
    \A s \in Slots :
        LET r == requests[s] IN
            r.at = "marked" =>
                IF r.status = "ok" THEN r.wanted \X {r.user} \subseteq reads
                ELSE Marks(r) \intersect reads # {}

\* The four statements of a list agree as far as marks only being added lets them:
\* nothing is shown as read, or counted as read, that this user has not read; a list of
\* read ones shows them all as read; a list misses nothing that was counted for it,
\* except what was read meanwhile; and unread_count counts nothing shown as read.
ListsTruthful ==
    \A s \in Slots :
        LET r == requests[s] IN
            r.at = "listed" =>
                /\ r.shown \X {r.user} \subseteq reads
                /\ \A n \in r.rows : Sees(r.user, notifications[n])
                /\ r.filter = "read" => r.shown = r.rows
                /\ r.filter # "unread" => r.total \subseteq r.rows
                /\ r.filter = "unread" => r.total \intersect r.unread \subseteq r.rows
                /\ r.unread \intersect r.shown = {}

\* The request to mark that a thread is at, as its user knows it.
Asked(s) ==
    LET r == requests[s]
        Asks(due, status) ==
            [user |-> r.user, wanted |-> r.wanted, due |-> due, status |-> status]
    IN  CASE r.at = "visible" -> Asks(r.wanted, "open")
          [] r.at = "mark" -> Asks(r.missing, "open")
          [] r.at = "marked" -> Asks({}, r.status)
          [] OTHER -> [status |-> "none"]

Board == INSTANCE Inbox WITH
    inbox <- [u \in Users |-> Visible(u)],
    read <- [u \in Users |-> ReadBy(u)],
    asked <- [s \in Slots |-> Asked(s)]

\* A user's marks are made by requests of that user alone, in one step for all that was
\* visible when the request began, or not at all and then only because another request
\* came first; and nothing a user saw, or has read, is ever taken back.
ImplementsInbox == Board!InboxSpec
=============================================================================

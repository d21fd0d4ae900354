-------------------------------- MODULE Inbox ---------------------------------
(***************************************************************************)
(* What the notification routes promise a user, without rows, scopes or    *)
(* commits: an inbox that only grows, and requests that mark all that they *)
(* were asked for in one step, or nothing.                                 *)
(***************************************************************************)
CONSTANTS
    Users,
    Ids,        \* notifications
    Slots       \* threads

VARIABLES
    inbox,      \* what each user sees
    read,       \* what each user has read
    asked       \* the request to mark of each thread, or Nothing

Nothing == [status |-> "none"]

InboxInit ==
    /\ inbox = [u \in Users |-> {}]
    /\ read = [u \in Users |-> {}]
    /\ asked = [s \in Slots |-> Nothing]

\* due is what it is to mark, as far as it has looked.
Request(u, wanted, due, status) ==
    [user |-> u, wanted |-> wanted, due |-> due, status |-> status]

Answer(s, status) ==
    asked' = [asked EXCEPT ![s] = Request(asked[s].user, asked[s].wanted, {}, status)]

\* A notification nobody had before comes to some.
Arrive(n) ==
    /\ \A u \in Users : n \notin inbox[u]
    /\ \E to \in SUBSET Users :
          inbox' = [u \in Users |-> IF u \in to THEN inbox[u] \union {n} ELSE inbox[u]]
    /\ UNCHANGED <<read, asked>>

\* For one of the inbox, or for all of it as it is now.
Ask(s, u) ==
    /\ asked[s].status = "none"
    /\ \E wanted \in {inbox[u]} \union {{n} : n \in inbox[u]} :
          asked' = [asked EXCEPT ![s] =
              IF wanted \subseteq read[u] THEN Request(u, wanted, {}, "ok")
              ELSE Request(u, wanted, wanted \ read[u], "open")]
    /\ UNCHANGED <<inbox, read>>

\* A request for all of it may look later for what is read already.
AskAll(s, u) ==
    /\ asked[s].status = "none"
    /\ asked' = [asked EXCEPT ![s] = Request(u, inbox[u], inbox[u], "open")]
    /\ UNCHANGED <<inbox, read>>

Open(s) == asked[s].status = "open"

Look(s) ==
    LET r == asked[s] IN
        /\ Open(s)
        /\ asked' = [asked EXCEPT ![s] =
              Request(r.user, r.wanted, r.wanted \ read[r.user], "open")]
        /\ UNCHANGED <<inbox, read>>

\* The only step that marks, and it marks for its own user all that was asked for.
Mark(s) ==
    LET r == asked[s] IN
        /\ Open(s)
        /\ read' = [read EXCEPT ![r.user] = @ \union r.wanted]
        /\ Answer(s, "ok")
        /\ UNCHANGED inbox

\* Only when another request has marked some of what was due.
Refuse(s) ==
    /\ Open(s)
    /\ asked[s].due \intersect read[asked[s].user] # {}
    /\ Answer(s, "conflict")
    /\ UNCHANGED <<inbox, read>>

\* Answered requests leave; when the process ends, all do.
Leave ==
    /\ asked' = [s \in Slots |-> Nothing]
         \/ \E s \in Slots : ~Open(s) /\ asked' = [asked EXCEPT ![s] = Nothing]
    /\ UNCHANGED <<inbox, read>>

InboxNext ==
    \/ \E n \in Ids : Arrive(n)
    \/ \E s \in Slots :
          \/ \E u \in Users : Ask(s, u) \/ AskAll(s, u)
          \/ Look(s) \/ Mark(s) \/ Refuse(s)
    \/ Leave

InboxSpec == InboxInit /\ [][InboxNext]_<<inbox, read, asked>>
=============================================================================

--------------------------- MODULE DashboardStream ---------------------------
(***************************************************************************)
(* The realtime dashboard stream: app/services/realtime_ws.py, the two     *)
(* WebSocket routes, and the part of ingest_event that commits a reading   *)
(* and notifies.                                                           *)
(*                                                                         *)
(* Two threads meet here.  The MQTT network thread commits readings and    *)
(* then walks through notify_community_update and notify_unit_update,      *)
(* which look at the connection sets and the pending flags without a lock  *)
(* and hand a broadcast to the event loop.  The event loop runs one        *)
(* coroutine at a time up to its next await: it opens and closes streams   *)
(* and runs the broadcast tasks.  A snapshot is built between two awaits,  *)
(* so no other coroutine runs meanwhile, but it is several queries long    *)
(* and the MQTT thread may commit between them.                            *)
(*                                                                         *)
(* A channel is one stream: the community dashboard, or the dashboard of   *)
(* one of its units; both run the same algorithm.  A snapshot is           *)
(* abstracted to when its queries ran: how many of the channel's readings  *)
(* had been committed when the first of them ran, and when the last did.   *)
(* What they return is no matter here (Dashboards has the figures): the    *)
(* totals leave out readings of deleted units and the load curve those of  *)
(* other weeks, so a later snapshot may well show less.                    *)
(***************************************************************************)
EXTENDS Integers, FiniteSets

CONSTANTS
    Community,      \* the community's channel
    Units,          \* the units, each the channel of its own dashboard
    Sockets,        \* names of WebSocket objects
    ChannelOf,      \* the channel each WebSocket asks for
    Nobody,         \* the event loop is building no snapshot
    MaxReadings,    \* bound: readings committed in a behaviour
    MinInterval,    \* ticks a channel stays quiet after a broadcast
    DbMayFail       \* whether a query of a snapshot may raise

Channels == Units \union {Community}

ASSUME StreamAssumption ==
    /\ Community \notin Units
    /\ Units # {}
    /\ Channels \intersect Sockets = {}
    /\ Nobody \notin Channels \union Sockets
    /\ ChannelOf \in [Sockets -> Channels]
    /\ MaxReadings \in Nat
    /\ MinInterval \in Nat
    /\ DbMayFail \in BOOLEAN

VARIABLES
    stored,     \* how many readings of each channel have been committed
    exists,     \* whether the community or unit row is there
    ingest,     \* where the MQTT thread stands in its notifications
    conns,      \* _connections and _unit_connections
    client,     \* each WebSocket, from its own side
    view,       \* the last snapshot each WebSocket received
    pending,    \* _pending and _pending_unit
    task,       \* the broadcast task of each channel
    cooldown,   \* what is left of the minimum interval since _last_emit
    reading,    \* the snapshot the event loop is in the middle of building
    payload,    \* the snapshot each broadcast task is sending
    toSend,     \* sockets the broadcast task has still to write to
    failed,     \* to_remove: sockets the broadcast could not write to
    missed      \* history: a reading was committed, its notification was
                \* swallowed, and no later broadcast has begun

feedVars == <<stored, exists, ingest>>
socketVars == <<conns, client, view>>
taskVars == <<pending, task, cooldown, payload, toSend, failed>>
vars == <<feedVars, socketVars, taskVars, reading, missed>>

\* The readings committed when a snapshot's first and last query ran.
View == [begun : Nat, ended : Nat]
NoView == [begun |-> 0, ended |-> 0]

NotifySteps == {"idle", "has_connections", "pending", "schedule"}
ClientStates == {"away", "opening", "open", "gone"}
TaskStates == {"none", "queued", "building", "sending"}

TypeOK ==
    /\ stored \in [Channels -> Nat]
    /\ exists \in [Channels -> BOOLEAN]
    /\ ingest \in [at : NotifySteps, ch : Channels, unit : Units]
    /\ conns \in [Channels -> SUBSET Sockets]
    /\ client \in [Sockets -> ClientStates]
    /\ view \in [Sockets -> View]
    /\ pending \in [Channels -> BOOLEAN]
    /\ task \in [Channels -> TaskStates]
    /\ cooldown \in [Channels -> 0..MinInterval]
    /\ reading \in [by : Channels \union Sockets \union {Nobody}, begun : Nat]
    /\ payload \in [Channels -> View]
    /\ toSend \in [Channels -> SUBSET Sockets]
    /\ failed \in [Channels -> SUBSET Sockets]
    /\ missed \in [Channels -> BOOLEAN]

Init ==
    /\ stored = [c \in Channels |-> 0]
    /\ exists \in [Channels -> BOOLEAN]
    /\ (\E u \in Units : exists[u]) => exists[Community]
    /\ \E u \in Units : ingest = [at |-> "idle", ch |-> u, unit |-> u]
    /\ conns = [c \in Channels |-> {}]
    /\ client = [s \in Sockets |-> "away"]
    /\ view = [s \in Sockets |-> NoView]
    /\ pending = [c \in Channels |-> FALSE]
    /\ task = [c \in Channels |-> "none"]
    /\ cooldown = [c \in Channels |-> 0]
    /\ reading = [by |-> Nobody, begun |-> 0]
    /\ payload = [c \in Channels |-> NoView]
    /\ toSend = [c \in Channels |-> {}]
    /\ failed = [c \in Channels |-> {}]
    /\ missed = [c \in Channels |-> FALSE]

-----------------------------------------------------------------------------
(* The MQTT thread: ingest_event commits, then notifies both channels.     *)

\* The commit of ingest_event; it creates the community and unit rows if need be.
Commit(u) ==
    /\ ingest.at = "idle"
    /\ stored[Community] < MaxReadings
    /\ LET counts == {Community, u}
       IN  /\ stored' = [c \in Channels |-> IF c \in counts THEN stored[c] + 1 ELSE stored[c]]
           /\ exists' = [c \in Channels |-> c \in counts \/ exists[c]]
    /\ ingest' = [at |-> "has_connections", ch |-> Community, unit |-> u]
    /\ UNCHANGED <<socketVars, taskVars, reading, missed>>

\* notify_community_update is done, notify_unit_update follows; then the next event.
NotifyReturns ==
    ingest' = IF ingest.ch = Community
              THEN [ingest EXCEPT !.at = "has_connections", !.ch = ingest.unit]
              ELSE [ingest EXCEPT !.at = "idle"]

\* has_connections: nobody is connected, so there is nothing to do.
NotifyNobody ==
    /\ ingest.at = "has_connections"
    /\ conns[ingest.ch] = {}
    /\ NotifyReturns
    /\ UNCHANGED <<stored, exists, socketVars, taskVars, reading, missed>>

\* has_connections: somebody is; the pending flag is looked at next.
NotifySomebody ==
    /\ ingest.at = "has_connections"
    /\ conns[ingest.ch] # {}
    /\ ingest' = [ingest EXCEPT !.at = "pending"]
    /\ UNCHANGED <<stored, exists, socketVars, taskVars, reading, missed>>

\* The flag is up: return.  The reading is missed unless the broadcast the
\* flag stands for has not begun to read yet.
NotifySwallowed ==
    /\ ingest.at = "pending"
    /\ pending[ingest.ch]
    /\ NotifyReturns
    /\ missed' = [missed EXCEPT ![ingest.ch] = @ \/ task[ingest.ch] # "queued"]
    /\ UNCHANGED <<stored, exists, socketVars, taskVars, reading>>

\* Mutant of NotifyFree: the flag is not looked at.
NotifyFreeUnchecked ==
    /\ ingest.at = "pending"
    /\ ingest' = [ingest EXCEPT !.at = "schedule"]
    /\ UNCHANGED <<stored, exists, socketVars, taskVars, reading, missed>>

\* The flag is down: nothing is scheduled for this channel.
NotifyFree ==
    /\ ingest.at = "pending"
    /\ ~pending[ingest.ch]
    /\ ingest' = [ingest EXCEPT !.at = "schedule"]
    /\ UNCHANGED <<stored, exists, socketVars, taskVars, reading, missed>>

\* Raise the flag and hand the coroutine to the loop.
NotifySchedule ==
    /\ ingest.at = "schedule"
    /\ pending' = [pending EXCEPT ![ingest.ch] = TRUE]
    /\ task' = [task EXCEPT ![ingest.ch] = "queued"]
    /\ NotifyReturns
    /\ UNCHANGED <<stored, exists, socketVars, cooldown, payload, toSend,
                   failed, reading, missed>>

Notify == NotifyNobody \/ NotifySomebody \/ NotifySwallowed \/ NotifyFree
              \/ NotifySchedule

-----------------------------------------------------------------------------
(* API threads delete the rows the snapshots start from.                   *)

\* delete_unit: the readings stay, and nobody is notified; an open dashboard shows
\* the unit until the next reading, and lower totals from then on.
DeleteUnit(u) ==
    /\ exists[u]
    /\ exists' = [exists EXCEPT ![u] = FALSE]
    /\ UNCHANGED <<stored, ingest, socketVars, taskVars, reading, missed>>

\* delete_community, refused while it has units.
DeleteCommunity ==
    /\ exists[Community]
    /\ \A u \in Units : ~exists[u]
    /\ exists' = [exists EXCEPT ![Community] = FALSE]
    /\ UNCHANGED <<stored, ingest, socketVars, taskVars, reading, missed>>

-----------------------------------------------------------------------------
(* The event loop: the WebSocket routes.                                   *)

LoopFree == reading.by = Nobody

\* A name stands for one WebSocket object: it may be taken again once no
\* list of a running broadcast holds the object it stood for.
Referenced(s) == \E c \in Channels : s \in toSend[c] \union failed[c]

\* Accepted and registered; the first query of the initial snapshot.
OpenStream(s) ==
    /\ LoopFree
    /\ client[s] = "away"
    /\ ~Referenced(s)
    /\ exists[ChannelOf[s]]
    /\ conns' = [conns EXCEPT ![ChannelOf[s]] = @ \union {s}]
    /\ client' = [client EXCEPT ![s] = "opening"]
    /\ reading' = [by |-> s, begun |-> stored[ChannelOf[s]]]
    /\ UNCHANGED <<feedVars, view, taskVars, missed>>

\* The last query, and the initial snapshot is sent.
InitialSnapshot(s) ==
    /\ reading.by = s
    /\ client' = [client EXCEPT ![s] = "open"]
    /\ view' = [view EXCEPT ![s] = [begun |-> reading.begun,
                                    ended |-> stored[ChannelOf[s]]]]
    /\ reading' = [reading EXCEPT !.by = Nobody]
    /\ UNCHANGED <<feedVars, conns, taskVars, missed>>

\* A query of the initial snapshot raises: the finally block unregisters.
InitialRaises(s) ==
    /\ DbMayFail
    /\ reading.by = s
    /\ conns' = [conns EXCEPT ![ChannelOf[s]] = @ \ {s}]
    /\ client' = [client EXCEPT ![s] = "away"]
    /\ reading' = [reading EXCEPT !.by = Nobody]
    /\ UNCHANGED <<feedVars, view, taskVars, missed>>

\* No such community or unit: registered, told so, closed.
OpenNotFound(s) ==
    /\ LoopFree
    /\ client[s] = "away"
    /\ ~Referenced(s)
    /\ ~exists[ChannelOf[s]]
    /\ conns' = [conns EXCEPT ![ChannelOf[s]] = @ \union {s}]
    /\ client' = [client EXCEPT ![s] = "gone"]
    /\ UNCHANGED <<feedVars, view, taskVars, reading, missed>>

\* The browser closes, or the connection breaks.
ClientLeaves(s) ==
    /\ client[s] = "open"
    /\ client' = [client EXCEPT ![s] = "gone"]
    /\ UNCHANGED <<feedVars, conns, view, taskVars, reading, missed>>

\* The route's finally block: disconnect.
Disconnect(s) ==
    /\ LoopFree
    /\ client[s] = "gone"
    /\ conns' = [conns EXCEPT ![ChannelOf[s]] = @ \ {s}]
    /\ client' = [client EXCEPT ![s] = "away"]
    /\ view' = [view EXCEPT ![s] = NoView]
    /\ UNCHANGED <<feedVars, taskVars, reading, missed>>

-----------------------------------------------------------------------------
(* The event loop: the broadcast tasks.                                    *)

Due(c) ==
    /\ LoopFree
    /\ task[c] = "queued"
    /\ cooldown[c] = 0

\* The end of the debounced coroutine: _last_emit and the flag.
EndTask(c) ==
    /\ task' = [task EXCEPT ![c] = "none"]
    /\ pending' = [pending EXCEPT ![c] = FALSE]
    /\ cooldown' = [cooldown EXCEPT ![c] = MinInterval]

\* Mutant of BroadcastToNobody: inside the interval the broadcast is given up
\* instead of put off.
BroadcastThrottled(c) ==
    /\ LoopFree
    /\ task[c] = "queued"
    /\ conns[c] = {} \/ cooldown[c] > 0
    /\ EndTask(c)
    /\ UNCHANGED <<feedVars, socketVars, payload, toSend, failed, reading, missed>>

\* Everybody has left meanwhile.
BroadcastToNobody(c) ==
    /\ Due(c)
    /\ conns[c] = {}
    /\ EndTask(c)
    /\ UNCHANGED <<feedVars, socketVars, payload, toSend, failed, reading, missed>>

\* The community or unit is gone: the snapshot is None and nobody is told.
BroadcastNotFound(c) ==
    /\ Due(c)
    /\ conns[c] # {}
    /\ ~exists[c]
    /\ EndTask(c)
    /\ missed' = [missed EXCEPT ![c] = TRUE]
    /\ UNCHANGED <<feedVars, socketVars, payload, toSend, failed, reading>>

\* Copy the connections; the first query of the snapshot.
BeginBroadcast(c) ==
    /\ Due(c)
    /\ conns[c] # {}
    /\ exists[c]
    /\ task' = [task EXCEPT ![c] = "building"]
    /\ toSend' = [toSend EXCEPT ![c] = conns[c]]
    /\ reading' = [by |-> c, begun |-> stored[c]]
    /\ missed' = [missed EXCEPT ![c] = FALSE]
    /\ UNCHANGED <<feedVars, socketVars, pending, cooldown, payload, failed>>

\* The last query of the snapshot.
FinishBuild(c) ==
    /\ reading.by = c
    /\ task' = [task EXCEPT ![c] = "sending"]
    /\ payload' = [payload EXCEPT ![c] = [begun |-> reading.begun,
                                          ended |-> stored[c]]]
    /\ reading' = [reading EXCEPT !.by = Nobody]
    /\ UNCHANGED <<feedVars, socketVars, pending, cooldown, toSend, failed, missed>>

\* A query raises: the exception leaves the coroutine before the flag is
\* lowered and before _last_emit is written.
BuildRaises(c) ==
    /\ DbMayFail
    /\ reading.by = c
    /\ task' = [task EXCEPT ![c] = "none"]
    /\ toSend' = [toSend EXCEPT ![c] = {}]
    /\ reading' = [reading EXCEPT !.by = Nobody]
    /\ missed' = [missed EXCEPT ![c] = TRUE]
    /\ UNCHANGED <<feedVars, socketVars, pending, cooldown, payload, failed>>

\* Mutant of Send: writes to the connections of the moment, not to the copy.
SendToCurrent(c, s) ==
    /\ LoopFree
    /\ task[c] = "sending"
    /\ s \in conns[c]
    /\ client[s] = "open"
    /\ view' = [view EXCEPT ![s] = payload[c]]
    /\ toSend' = [toSend EXCEPT ![c] = @ \ {s}]
    /\ UNCHANGED <<feedVars, conns, client, pending, task, cooldown, payload,
                   failed, reading, missed>>

\* send_json to a client that is there.
Send(c, s) ==
    /\ LoopFree
    /\ task[c] = "sending"
    /\ s \in toSend[c]
    /\ client[s] = "open"
    /\ view' = [view EXCEPT ![s] = payload[c]]
    /\ toSend' = [toSend EXCEPT ![c] = @ \ {s}]
    /\ UNCHANGED <<feedVars, conns, client, pending, task, cooldown, payload,
                   failed, reading, missed>>

\* Mutant of SendFails: the first failure ends the loop over the sockets.
SendFailsStops(c, s) ==
    /\ LoopFree
    /\ task[c] = "sending"
    /\ s \in toSend[c]
    /\ client[s] # "open"
    /\ toSend' = [toSend EXCEPT ![c] = {}]
    /\ failed' = [failed EXCEPT ![c] = @ \union {s}]
    /\ UNCHANGED <<feedVars, socketVars, pending, task, cooldown, payload,
                   reading, missed>>

\* send_json to a connection that has ended raises; to a peer that vanished
\* without a close it may also return.
SendFails(c, s) ==
    /\ LoopFree
    /\ task[c] = "sending"
    /\ s \in toSend[c]
    /\ client[s] # "open"
    /\ toSend' = [toSend EXCEPT ![c] = @ \ {s}]
    /\ \/ failed' = [failed EXCEPT ![c] = @ \union {s}]
       \/ client[s] = "gone" /\ UNCHANGED failed
    /\ UNCHANGED <<feedVars, socketVars, pending, task, cooldown, payload,
                   reading, missed>>

\* Mutant of EndBroadcast: one failure drops the whole connection set.
EndBroadcastPops(c) ==
    /\ LoopFree
    /\ task[c] = "sending"
    /\ toSend[c] = {}
    /\ conns' = [conns EXCEPT ![c] = IF failed[c] = {} THEN @ ELSE {}]
    /\ failed' = [failed EXCEPT ![c] = {}]
    /\ EndTask(c)
    /\ UNCHANGED <<feedVars, client, view, payload, toSend, reading, missed>>

\* Drop the sockets that failed, and end the task.
EndBroadcast(c) ==
    /\ LoopFree
    /\ task[c] = "sending"
    /\ toSend[c] = {}
    /\ conns' = [conns EXCEPT ![c] = @ \ failed[c]]
    /\ failed' = [failed EXCEPT ![c] = {}]
    /\ EndTask(c)
    /\ UNCHANGED <<feedVars, client, view, payload, toSend, reading, missed>>

\* Mutant of Tick: the rest of the interval is not cut off at zero.
TickBelowZero ==
    /\ \E c \in Channels : cooldown[c] > 0
    /\ cooldown' = [c \in Channels |-> cooldown[c] - 1]
    /\ UNCHANGED <<feedVars, socketVars, pending, task, payload, toSend,
                   failed, reading, missed>>

\* Time passes; every interval runs at once.
Tick ==
    /\ \E c \in Channels : cooldown[c] > 0
    /\ cooldown' = [c \in Channels |-> IF cooldown[c] > 0 THEN cooldown[c] - 1 ELSE 0]
    /\ UNCHANGED <<feedVars, socketVars, pending, task, payload, toSend,
                   failed, reading, missed>>

-----------------------------------------------------------------------------

Broadcast(c) ==
    \/ BroadcastToNobody(c)
    \/ BroadcastNotFound(c)
    \/ BeginBroadcast(c)
    \/ FinishBuild(c)
    \/ BuildRaises(c)
    \/ \E s \in Sockets : Send(c, s) \/ SendFails(c, s)
    \/ EndBroadcast(c)

Stream(s) ==
    \/ OpenStream(s)
    \/ InitialSnapshot(s)
    \/ InitialRaises(s)
    \/ OpenNotFound(s)
    \/ ClientLeaves(s)
    \/ Disconnect(s)

Next ==
    \/ \E u \in Units : Commit(u) \/ DeleteUnit(u)
    \/ DeleteCommunity
    \/ Notify
    \/ \E s \in Sockets : Stream(s)
    \/ \E c \in Channels : Broadcast(c)
    \/ Tick

Spec == Init /\ [][Next]_vars

\* The MQTT thread and the clock go on.  The loop takes its callbacks from a
\* queue in order, so a task that is ready again and again gets its turn.
\* Nothing makes readings arrive, clients come or go, or queries fail.
Fairness ==
    /\ WF_vars(Notify)
    /\ WF_vars(Tick)
    /\ \A s \in Sockets : WF_vars(InitialSnapshot(s)) /\ SF_vars(Disconnect(s))
    /\ \A c \in Channels : SF_vars(Broadcast(c))

FairSpec == Spec /\ Fairness

-----------------------------------------------------------------------------
(* Properties.                                                             *)

\* A notification for c has still to look at the flag.
OnTheWay(c) ==
    /\ ingest.at # "idle"
    /\ \/ ingest.ch = c
       \/ ingest.ch = Community /\ ingest.unit = c

\* What s is shown was computed after the last commit on its channel.
UpToDate(s) == view[s].begun = stored[ChannelOf[s]]

\* The pending flag does its job: a task, from the moment it is handed to the
\* loop until it ends, has the flag up, so a second broadcast of one channel is
\* never scheduled over a running one (notify_community_update).
OneBroadcast ==
    /\ \A c \in Channels : task[c] # "none" => pending[c]
    /\ ingest.at = "schedule" => task[ingest.ch] = "none"

\* A client that is still there is never dropped from the connection set by a
\* broadcast that cleans up after another socket (_broadcast_snapshot).
NobodyForgotten ==
    \A s \in Sockets : client[s] = "open" => s \in conns[ChannelOf[s]]

\* The one way a client can be left with an old dashboard: a notification
\* swallowed by the pending flag.  With no notification on its way, no broadcast
\* at work and none missed, every open stream shows a snapshot whose queries all
\* ran after the last reading was committed (notify_community_update,
\* _debounced_broadcast).
StaleOnlyIfMissed ==
    \A s \in Sockets :
        LET c == ChannelOf[s]
        IN  client[s] = "open" /\ ~OnTheWay(c) /\ task[c] = "none" /\ ~missed[c]
                => UpToDate(s)

\* What a client is shown is never replaced by something computed earlier, or even
\* while it was being computed: initial snapshots and broadcasts are built and sent
\* by different coroutines, but not two at a time (send_snapshot,
\* _broadcast_snapshot).
ViewsAdvance ==
    [][\A s \in Sockets :
          client[s] = "open" /\ client'[s] = "open" =>
              view'[s] = view[s] \/ view'[s].begun >= view[s].ended]_vars

\* A broadcast that is waiting to begin reaches every client that is open by
\* then and stays, with a snapshot computed after everything committed by then -
\* unless the snapshot fails or the row is gone, which is recorded
\* (_debounced_broadcast).
QueuedReaches ==
    \A s \in Sockets, n \in 1..MaxReadings :
        /\ task[ChannelOf[s]] = "queued"
        /\ client[s] = "open"
        /\ stored[ChannelOf[s]] >= n
        ~> \/ client[s] # "open"
           \/ view[s].begun >= n
           \/ missed[ChannelOf[s]]

\* A snapshot computed after n readings is on its way to s: it is still to be
\* built, is being built, or is being sent.
OnItsWay(s, n) ==
    LET c == ChannelOf[s]
    IN  \/ task[c] = "queued" /\ stored[c] >= n
        \/ task[c] = "building" /\ s \in toSend[c] /\ reading.begun >= n
        \/ task[c] = "sending" /\ s \in toSend[c] /\ payload[c].begun >= n

\* What QueuedReaches needs besides a fair event loop: no step loses the
\* snapshot that is on its way to an open client.  The broadcast does not find
\* the connection set empty, is not begun over, does not skip the client, and
\* is not overwritten by the next notification; it goes on, arrives, or fails
\* on record (_broadcast_snapshot, _debounced_broadcast).
QueuedKept ==
    [][\A s \in Sockets, n \in 1..MaxReadings :
          client[s] = "open" /\ OnItsWay(s, n) =>
              \/ OnItsWay(s, n)'
              \/ client'[s] # "open"
              \/ view'[s].begun >= n
              \/ missed'[ChannelOf[s]]]_vars

\* A raised flag is always lowered again, so the stream of a channel is never
\* muted for good (_debounced_broadcast).
PendingClears == \A c \in Channels : pending[c] ~> ~pending[c]

\* The snapshot a client is looking at; see Closed of DashboardFeed.
Shown == [s \in Sockets |-> IF client[s] = "open" THEN view[s]
                            ELSE [begun |-> -1, ended |-> -1]]

Feed == INSTANCE DashboardFeed WITH latest <- stored, shown <- Shown

\* The stream implements the feed: each client is shown snapshots of its own channel,
\* each begun no earlier than the one before it ended and ended no later than now,
\* while several coroutines build and send them, clients come and go and sends fail
\* (send_snapshot, _broadcast_snapshot).
ImplementsFeed == Feed!FeedSpec
=============================================================================

---------------------------- MODULE DashboardFeed ----------------------------
(***************************************************************************)
(* What a dashboard stream promises to the browsers that watch it, without *)
(* threads, tasks or connection sets: readings are published on channels,  *)
(* and an open stream shows a snapshot of its channel, computed at some    *)
(* time up to now, and only ever replaced by one computed after it.        *)
(***************************************************************************)
EXTENDS Integers

CONSTANTS Channels, Sockets, ChannelOf

VARIABLES
    latest,     \* readings published on each channel
    shown       \* the snapshot shown to each client: the readings published
                \* when its computation began and when it ended

\* Shown to a client whose stream is not open.
Closed == [begun |-> -1, ended |-> -1]

FeedInit ==
    /\ latest = [c \in Channels |-> 0]
    /\ shown = [s \in Sockets |-> Closed]

\* One reading counts for several channels and is published on all at once.
Publish(C) ==
    /\ latest' = [c \in Channels |-> IF c \in C THEN latest[c] + 1 ELSE latest[c]]
    /\ UNCHANGED shown

Show(s) ==
    /\ \E begun, ended \in 0..latest[ChannelOf[s]] :
          /\ shown[s].ended <= begun /\ begun <= ended
          /\ shown' = [shown EXCEPT ![s] = [begun |-> begun, ended |-> ended]]
    /\ UNCHANGED latest

Close(s) ==
    /\ shown' = [shown EXCEPT ![s] = Closed]
    /\ UNCHANGED latest

FeedNext ==
    \/ \E C \in SUBSET Channels : Publish(C)
    \/ \E s \in Sockets : Show(s) \/ Close(s)

FeedSpec == FeedInit /\ [][FeedNext]_<<latest, shown>>
=============================================================================

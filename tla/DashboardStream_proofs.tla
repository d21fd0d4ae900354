----------------------- MODULE DashboardStream_proofs -----------------------
(***************************************************************************)
(* Proofs about the dashboard stream, for every set of units and clients,  *)
(* every number of readings and every interval.                            *)
(***************************************************************************)
EXTENDS DashboardStream, TLAPS

-----------------------------------------------------------------------------
(* The inductive invariant.                                                *)

\* What the loop is building belongs to the one coroutine that builds it.
LoopOwner ==
    /\ \A c \in Channels : task[c] = "building" <=> reading.by = c
    /\ \A s \in Sockets : client[s] = "opening" <=> reading.by = s

\* The lists of a channel hold only its own sockets, and a socket waits to be
\* written to only while a broadcast is at work.
Lists ==
    \A c \in Channels, s \in Sockets :
        /\ s \in conns[c] \union toSend[c] \union failed[c] => ChannelOf[s] = c
        /\ s \in toSend[c] => task[c] \in {"building", "sending"} /\ client[s] # "opening"
        /\ s \in failed[c] => client[s] \notin {"opening", "open"}

Registered ==
    \A s \in Sockets :
        client[s] \in {"opening", "open"} => s \in conns[ChannelOf[s]]

Structure == OneBroadcast /\ LoopOwner /\ Lists /\ Registered

\* No snapshot was computed later than now, and what is about to be sent to a
\* client was begun no earlier than what it is shown was finished.
Ordered ==
    \A s \in Sockets :
        LET c == ChannelOf[s]
        IN  /\ client[s] = "open" => /\ view[s].begun <= view[s].ended
                                     /\ view[s].ended <= stored[c]
            /\ reading.by \in {c, s} => reading.begun <= stored[c]
            /\ task[c] = "sending" => /\ payload[c].begun <= payload[c].ended
                                      /\ payload[c].ended <= stored[c]
            /\ client[s] = "open" /\ s \in toSend[c] =>
                  /\ task[c] = "building" => view[s].ended <= reading.begun
                  /\ task[c] = "sending" => view[s].ended <= payload[c].begun

\* A client that is behind, or is about to be sent a snapshot that is, has a
\* notification on its way, a broadcast waiting, or has been missed.
Accounted(s) ==
    LET c == ChannelOf[s]
        excused == missed[c] \/ OnTheWay(c)
    IN  /\ client[s] = "open" =>
              UpToDate(s) \/ excused \/ task[c] = "queued" \/ s \in toSend[c]
        /\ client[s] = "opening" =>
              reading.begun = stored[c] \/ excused \/ task[c] = "queued"
        /\ client[s] = "open" /\ s \in toSend[c] =>
              /\ task[c] = "building" => reading.begun = stored[c] \/ excused
              /\ task[c] = "sending" => payload[c].begun = stored[c] \/ excused

AllAccounted == \A s \in Sockets : Accounted(s)

IInv == TypeOK /\ Structure /\ Ordered /\ AllAccounted
-----------------------------------------------------------------------------
(* Types.                                                                  *)

LEMMA InitType == Init => TypeOK
  BY StreamAssumption
     DEF Init, TypeOK, View, NoView, NotifySteps, ClientStates, TaskStates, Channels

LEMMA NextType == TypeOK /\ [Next]_vars => TypeOK'
<1> SUFFICES ASSUME TypeOK, [Next]_vars PROVE TypeOK'
  OBVIOUS
<1> USE StreamAssumption DEF TypeOK, View, NotifySteps, ClientStates, TaskStates, Channels,
             feedVars, socketVars, taskVars, NoView
<1>1. ASSUME NEW u \in Units, Commit(u) PROVE TypeOK'
  BY <1>1 DEF Commit
<1>2. ASSUME NEW u \in Units, DeleteUnit(u) PROVE TypeOK'
  BY <1>2 DEF DeleteUnit
<1>3. ASSUME DeleteCommunity PROVE TypeOK'
  BY <1>3 DEF DeleteCommunity
<1>4. ASSUME NotifyNobody PROVE TypeOK'
  BY <1>4 DEF NotifyNobody, NotifyReturns
<1>5. ASSUME NotifySomebody PROVE TypeOK'
  BY <1>5 DEF NotifySomebody
<1>6. ASSUME NotifySwallowed PROVE TypeOK'
  BY <1>6 DEF NotifySwallowed, NotifyReturns
<1>7. ASSUME NotifyFree PROVE TypeOK'
  BY <1>7 DEF NotifyFree
<1>8. ASSUME NotifySchedule PROVE TypeOK'
  BY <1>8 DEF NotifySchedule, NotifyReturns
<1>9. ASSUME NEW s \in Sockets, OpenStream(s) PROVE TypeOK'
  BY <1>9 DEF OpenStream, LoopFree, Referenced
<1>10. ASSUME NEW s \in Sockets, InitialSnapshot(s) PROVE TypeOK'
  BY <1>10 DEF InitialSnapshot
<1>11. ASSUME NEW s \in Sockets, InitialRaises(s) PROVE TypeOK'
  BY <1>11 DEF InitialRaises
<1>12. ASSUME NEW s \in Sockets, OpenNotFound(s) PROVE TypeOK'
  BY <1>12 DEF OpenNotFound, LoopFree, Referenced
<1>13. ASSUME NEW s \in Sockets, ClientLeaves(s) PROVE TypeOK'
  BY <1>13 DEF ClientLeaves
<1>14. ASSUME NEW s \in Sockets, Disconnect(s) PROVE TypeOK'
  BY <1>14 DEF Disconnect, LoopFree
<1>15. ASSUME NEW c \in Channels, BroadcastToNobody(c) PROVE TypeOK'
  BY <1>15 DEF BroadcastToNobody, EndTask, Due, LoopFree
<1>16. ASSUME NEW c \in Channels, BroadcastNotFound(c) PROVE TypeOK'
  BY <1>16 DEF BroadcastNotFound, EndTask, Due, LoopFree
<1>17. ASSUME NEW c \in Channels, BeginBroadcast(c) PROVE TypeOK'
  BY <1>17 DEF BeginBroadcast, Due, LoopFree
<1>18. ASSUME NEW c \in Channels, FinishBuild(c) PROVE TypeOK'
  BY <1>18 DEF FinishBuild
<1>19. ASSUME NEW c \in Channels, BuildRaises(c) PROVE TypeOK'
  BY <1>19 DEF BuildRaises
<1>20. ASSUME NEW c \in Channels, NEW s \in Sockets, Send(c, s) PROVE TypeOK'
  BY <1>20 DEF Send, LoopFree
<1>21. ASSUME NEW c \in Channels, NEW s \in Sockets, SendFails(c, s) PROVE TypeOK'
  BY <1>21 DEF SendFails, LoopFree
<1>22. ASSUME NEW c \in Channels, EndBroadcast(c) PROVE TypeOK'
  BY <1>22 DEF EndBroadcast, EndTask, LoopFree
<1>23. ASSUME Tick PROVE TypeOK'
  BY <1>23 DEF Tick
<1>24. CASE UNCHANGED vars
  BY <1>24 DEF vars
<1>q. QED
  BY <1>1, <1>2, <1>3, <1>4, <1>5, <1>6, <1>7, <1>8, <1>9, <1>10, <1>11, <1>12,
     <1>13, <1>14, <1>15, <1>16, <1>17, <1>18, <1>19, <1>20, <1>21, <1>22, <1>23,
     <1>24 DEF Next, Notify, Stream, Broadcast

-----------------------------------------------------------------------------
(* The structure of tasks, lists and registrations.                        *)

LEMMA NextStructure == TypeOK /\ Structure /\ [Next]_vars => Structure'
<1> SUFFICES ASSUME TypeOK, Structure, [Next]_vars PROVE Structure'
  OBVIOUS
<1> USE StreamAssumption DEF TypeOK, Structure, OneBroadcast, LoopOwner, Lists, Registered,
             Channels, feedVars, socketVars, taskVars
<1>1. ASSUME NEW u \in Units, Commit(u) PROVE Structure'
  BY <1>1 DEF Commit
<1>2. ASSUME NEW u \in Units, DeleteUnit(u) PROVE Structure'
  BY <1>2 DEF DeleteUnit
<1>3. ASSUME DeleteCommunity PROVE Structure'
  BY <1>3 DEF DeleteCommunity
<1>4. ASSUME NotifyNobody PROVE Structure'
  BY <1>4 DEF NotifyNobody, NotifyReturns
<1>5. ASSUME NotifySomebody PROVE Structure'
  BY <1>5 DEF NotifySomebody
<1>6. ASSUME NotifySwallowed PROVE Structure'
  BY <1>6 DEF NotifySwallowed, NotifyReturns
<1>7. ASSUME NotifyFree PROVE Structure'
  BY <1>7 DEF NotifyFree
<1>8. ASSUME NotifySchedule PROVE Structure'
  BY <1>8 DEF NotifySchedule, NotifyReturns
<1>9. ASSUME NEW s \in Sockets, OpenStream(s) PROVE Structure'
  BY <1>9 DEF OpenStream, LoopFree, Referenced
<1>10. ASSUME NEW s \in Sockets, InitialSnapshot(s) PROVE Structure'
  BY <1>10 DEF InitialSnapshot
<1>11. ASSUME NEW s \in Sockets, InitialRaises(s) PROVE Structure'
  BY <1>11 DEF InitialRaises
<1>12. ASSUME NEW s \in Sockets, OpenNotFound(s) PROVE Structure'
  BY <1>12 DEF OpenNotFound, LoopFree, Referenced
<1>13. ASSUME NEW s \in Sockets, ClientLeaves(s) PROVE Structure'
  BY <1>13 DEF ClientLeaves
<1>14. ASSUME NEW s \in Sockets, Disconnect(s) PROVE Structure'
  BY <1>14 DEF Disconnect, LoopFree
<1>15. ASSUME NEW c \in Channels, BroadcastToNobody(c) PROVE Structure'
  BY <1>15 DEF BroadcastToNobody, EndTask, Due, LoopFree
<1>16. ASSUME NEW c \in Channels, BroadcastNotFound(c) PROVE Structure'
  BY <1>16 DEF BroadcastNotFound, EndTask, Due, LoopFree
<1>17. ASSUME NEW c \in Channels, BeginBroadcast(c) PROVE Structure'
  BY <1>17 DEF BeginBroadcast, Due, LoopFree
<1>18. ASSUME NEW c \in Channels, FinishBuild(c) PROVE Structure'
  BY <1>18 DEF FinishBuild
<1>19. ASSUME NEW c \in Channels, BuildRaises(c) PROVE Structure'
  BY <1>19 DEF BuildRaises
<1>20. ASSUME NEW c \in Channels, NEW s \in Sockets, Send(c, s) PROVE Structure'
  BY <1>20 DEF Send, LoopFree
<1>21. ASSUME NEW c \in Channels, NEW s \in Sockets, SendFails(c, s) PROVE Structure'
  BY <1>21 DEF SendFails, LoopFree
<1>22. ASSUME NEW c \in Channels, EndBroadcast(c) PROVE Structure'
  BY <1>22 DEF EndBroadcast, EndTask, LoopFree
<1>23. ASSUME Tick PROVE Structure'
  BY <1>23 DEF Tick
<1>24. CASE UNCHANGED vars
  BY <1>24 DEF vars
<1>q. QED
  BY <1>1, <1>2, <1>3, <1>4, <1>5, <1>6, <1>7, <1>8, <1>9, <1>10, <1>11, <1>12,
     <1>13, <1>14, <1>15, <1>16, <1>17, <1>18, <1>19, <1>20, <1>21, <1>22, <1>23,
     <1>24 DEF Next, Notify, Stream, Broadcast

LEMMA NextOrdered == TypeOK /\ Structure /\ Ordered /\ [Next]_vars => Ordered'
<1> SUFFICES ASSUME TypeOK, Structure, Ordered, [Next]_vars PROVE Ordered'
  OBVIOUS
<1> USE StreamAssumption DEF TypeOK, View, NotifySteps, ClientStates, TaskStates, Channels,
             feedVars, socketVars, taskVars,
             Structure, OneBroadcast, LoopOwner, Lists, Registered, Ordered, NoView
<1>1. ASSUME NEW u \in Units, Commit(u) PROVE Ordered'
  BY <1>1 DEF Commit
<1>2. ASSUME NEW u \in Units, DeleteUnit(u) PROVE Ordered'
  BY <1>2 DEF DeleteUnit
<1>3. ASSUME DeleteCommunity PROVE Ordered'
  BY <1>3 DEF DeleteCommunity
<1>4. ASSUME NotifyNobody PROVE Ordered'
  BY <1>4 DEF NotifyNobody, NotifyReturns
<1>5. ASSUME NotifySomebody PROVE Ordered'
  BY <1>5 DEF NotifySomebody
<1>6. ASSUME NotifySwallowed PROVE Ordered'
  BY <1>6 DEF NotifySwallowed, NotifyReturns
<1>7. ASSUME NotifyFree PROVE Ordered'
  BY <1>7 DEF NotifyFree
<1>8. ASSUME NotifySchedule PROVE Ordered'
  BY <1>8 DEF NotifySchedule, NotifyReturns
<1>9. ASSUME NEW s \in Sockets, OpenStream(s) PROVE Ordered'
  BY <1>9 DEF OpenStream, LoopFree, Referenced
<1>10. ASSUME NEW s \in Sockets, InitialSnapshot(s) PROVE Ordered'
  BY <1>10 DEF InitialSnapshot
<1>11. ASSUME NEW s \in Sockets, InitialRaises(s) PROVE Ordered'
  BY <1>11 DEF InitialRaises
<1>12. ASSUME NEW s \in Sockets, OpenNotFound(s) PROVE Ordered'
  BY <1>12 DEF OpenNotFound, LoopFree, Referenced
<1>13. ASSUME NEW s \in Sockets, ClientLeaves(s) PROVE Ordered'
  BY <1>13 DEF ClientLeaves
<1>14. ASSUME NEW s \in Sockets, Disconnect(s) PROVE Ordered'
  BY <1>14 DEF Disconnect, LoopFree
<1>15. ASSUME NEW c \in Channels, BroadcastToNobody(c) PROVE Ordered'
  BY <1>15 DEF BroadcastToNobody, EndTask, Due, LoopFree
<1>16. ASSUME NEW c \in Channels, BroadcastNotFound(c) PROVE Ordered'
  BY <1>16 DEF BroadcastNotFound, EndTask, Due, LoopFree
<1>17. ASSUME NEW c \in Channels, BeginBroadcast(c) PROVE Ordered'
  BY <1>17 DEF BeginBroadcast, Due, LoopFree
<1>18. ASSUME NEW c \in Channels, FinishBuild(c) PROVE Ordered'
  BY <1>18 DEF FinishBuild
<1>19. ASSUME NEW c \in Channels, BuildRaises(c) PROVE Ordered'
  BY <1>19 DEF BuildRaises
<1>20. ASSUME NEW c \in Channels, NEW s \in Sockets, Send(c, s) PROVE Ordered'
  BY <1>20 DEF Send, LoopFree
<1>21. ASSUME NEW c \in Channels, NEW s \in Sockets, SendFails(c, s) PROVE Ordered'
  BY <1>21 DEF SendFails, LoopFree
<1>22. ASSUME NEW c \in Channels, EndBroadcast(c) PROVE Ordered'
  BY <1>22 DEF EndBroadcast, EndTask, LoopFree
<1>23. ASSUME Tick PROVE Ordered'
  BY <1>23 DEF Tick
<1>24. CASE UNCHANGED vars
  BY <1>24 DEF vars
<1>q. QED
  BY <1>1, <1>2, <1>3, <1>4, <1>5, <1>6, <1>7, <1>8, <1>9, <1>10, <1>11, <1>12,
     <1>13, <1>14, <1>15, <1>16, <1>17, <1>18, <1>19, <1>20, <1>21, <1>22, <1>23,
     <1>24 DEF Next, Notify, Stream, Broadcast

LEMMA NextAccounted == TypeOK /\ Structure /\ Ordered /\ AllAccounted /\ [Next]_vars => AllAccounted'
<1> SUFFICES ASSUME TypeOK, Structure, Ordered, AllAccounted, [Next]_vars PROVE AllAccounted'
  OBVIOUS
<1> USE StreamAssumption DEF TypeOK, View, NotifySteps, ClientStates, TaskStates, Channels,
             feedVars, socketVars, taskVars,
             Structure, OneBroadcast, LoopOwner, Lists, Registered, Ordered, NoView,
             AllAccounted, Accounted, UpToDate, OnTheWay
<1>1. ASSUME NEW u \in Units, Commit(u) PROVE AllAccounted'
  BY <1>1 DEF Commit
<1>2. ASSUME NEW u \in Units, DeleteUnit(u) PROVE AllAccounted'
  BY <1>2 DEF DeleteUnit
<1>3. ASSUME DeleteCommunity PROVE AllAccounted'
  BY <1>3 DEF DeleteCommunity
<1>4. ASSUME NotifyNobody PROVE AllAccounted'
  BY <1>4 DEF NotifyNobody, NotifyReturns
<1>5. ASSUME NotifySomebody PROVE AllAccounted'
  BY <1>5 DEF NotifySomebody
<1>6. ASSUME NotifySwallowed PROVE AllAccounted'
  BY <1>6 DEF NotifySwallowed, NotifyReturns
<1>7. ASSUME NotifyFree PROVE AllAccounted'
  BY <1>7 DEF NotifyFree
<1>8. ASSUME NotifySchedule PROVE AllAccounted'
  BY <1>8 DEF NotifySchedule, NotifyReturns
<1>9. ASSUME NEW s \in Sockets, OpenStream(s) PROVE AllAccounted'
  BY <1>9 DEF OpenStream, LoopFree, Referenced
<1>10. ASSUME NEW s \in Sockets, InitialSnapshot(s) PROVE AllAccounted'
  BY <1>10 DEF InitialSnapshot
<1>11. ASSUME NEW s \in Sockets, InitialRaises(s) PROVE AllAccounted'
  BY <1>11 DEF InitialRaises
<1>12. ASSUME NEW s \in Sockets, OpenNotFound(s) PROVE AllAccounted'
  BY <1>12 DEF OpenNotFound, LoopFree, Referenced
<1>13. ASSUME NEW s \in Sockets, ClientLeaves(s) PROVE AllAccounted'
  BY <1>13 DEF ClientLeaves
<1>14. ASSUME NEW s \in Sockets, Disconnect(s) PROVE AllAccounted'
  BY <1>14 DEF Disconnect, LoopFree
<1>15. ASSUME NEW c \in Channels, BroadcastToNobody(c) PROVE AllAccounted'
  BY <1>15 DEF BroadcastToNobody, EndTask, Due, LoopFree
<1>16. ASSUME NEW c \in Channels, BroadcastNotFound(c) PROVE AllAccounted'
  BY <1>16 DEF BroadcastNotFound, EndTask, Due, LoopFree
<1>17. ASSUME NEW c \in Channels, BeginBroadcast(c) PROVE AllAccounted'
  BY <1>17 DEF BeginBroadcast, Due, LoopFree
<1>18. ASSUME NEW c \in Channels, FinishBuild(c) PROVE AllAccounted'
  BY <1>18 DEF FinishBuild
<1>19. ASSUME NEW c \in Channels, BuildRaises(c) PROVE AllAccounted'
  BY <1>19 DEF BuildRaises
<1>20. ASSUME NEW c \in Channels, NEW s \in Sockets, Send(c, s) PROVE AllAccounted'
  BY <1>20 DEF Send, LoopFree
<1>21. ASSUME NEW c \in Channels, NEW s \in Sockets, SendFails(c, s) PROVE AllAccounted'
  BY <1>21 DEF SendFails, LoopFree
<1>22. ASSUME NEW c \in Channels, EndBroadcast(c) PROVE AllAccounted'
  BY <1>22 DEF EndBroadcast, EndTask, LoopFree
<1>23. ASSUME Tick PROVE AllAccounted'
  BY <1>23 DEF Tick
<1>24. CASE UNCHANGED vars
  BY <1>24 DEF vars
<1>q. QED
  BY <1>1, <1>2, <1>3, <1>4, <1>5, <1>6, <1>7, <1>8, <1>9, <1>10, <1>11, <1>12,
     <1>13, <1>14, <1>15, <1>16, <1>17, <1>18, <1>19, <1>20, <1>21, <1>22, <1>23,
     <1>24 DEF Next, Notify, Stream, Broadcast

-----------------------------------------------------------------------------
(* The invariants.                                                         *)

\* Every variable keeps its type.
THEOREM TypeCorrect == Spec => []TypeOK
  BY InitType, NextType, PTL DEF Spec

\* The conjunction of the parts above is an inductive invariant.
THEOREM InductiveInvariant == Spec => []IInv
<1>1. Init => IInv
  BY InitType, StreamAssumption
     DEF Init, IInv, Structure, OneBroadcast, LoopOwner, Lists, Registered,
         Ordered, AllAccounted, Accounted, Channels
<1>2. IInv /\ [Next]_vars => IInv'
  BY NextType, NextStructure, NextOrdered, NextAccounted DEF IInv
<1>q. QED
  BY <1>1, <1>2, PTL DEF Spec

\* A running broadcast always has its channel's flag up, so no second broadcast
\* of the channel is scheduled over it, whatever the threads do.
THEOREM OneBroadcastHolds == Spec => []OneBroadcast
<1>1. IInv => OneBroadcast
  BY DEF IInv, Structure
<1>q. QED
  BY <1>1, InductiveInvariant, PTL

\* A client that is still there is always in its channel's connection set.
THEOREM NobodyForgottenHolds == Spec => []NobodyForgotten
<1>1. IInv => NobodyForgotten
  BY DEF IInv, Structure, Registered, NobodyForgotten
<1>q. QED
  BY <1>1, InductiveInvariant, PTL

\* A client that is behind with nothing on its way to it was missed: the flag
\* swallowed a notification, a snapshot failed, or the row was deleted.
THEOREM StaleOnlyIfMissedHolds == Spec => []StaleOnlyIfMissed
<1>1. IInv => StaleOnlyIfMissed
  <2> SUFFICES ASSUME IInv, NEW s \in Sockets,
                      client[s] = "open", ~OnTheWay(ChannelOf[s]),
                      task[ChannelOf[s]] = "none", ~missed[ChannelOf[s]]
               PROVE  UpToDate(s)
    BY DEF StaleOnlyIfMissed
  <2>1. s \notin toSend[ChannelOf[s]]
    BY StreamAssumption DEF IInv, Structure, Lists
  <2>q. QED
    BY <2>1 DEF IInv, AllAccounted, Accounted
<1>q. QED
  BY <1>1, InductiveInvariant, PTL

-----------------------------------------------------------------------------
(* Steps.                                                                  *)

\* What one step does to what a client is shown.
ShownAdvances ==
    \A s \in Sockets :
        client[s] = "open" /\ client'[s] = "open" =>
            view'[s] = view[s] \/ view'[s].begun >= view[s].ended

LEMMA StepAdvances == IInv /\ [Next]_vars => ShownAdvances
<1> SUFFICES ASSUME IInv, [Next]_vars PROVE ShownAdvances
  OBVIOUS
<1> USE StreamAssumption DEF IInv, TypeOK, View, NotifySteps, ClientStates, TaskStates, Channels,
             feedVars, socketVars, taskVars,
             Structure, LoopOwner, Lists, Ordered, ShownAdvances
<1>1. ASSUME NEW u \in Units, Commit(u) PROVE ShownAdvances
  BY <1>1 DEF Commit
<1>2. ASSUME NEW u \in Units, DeleteUnit(u) PROVE ShownAdvances
  BY <1>2 DEF DeleteUnit
<1>3. ASSUME DeleteCommunity PROVE ShownAdvances
  BY <1>3 DEF DeleteCommunity
<1>4. ASSUME NotifyNobody PROVE ShownAdvances
  BY <1>4 DEF NotifyNobody, NotifyReturns
<1>5. ASSUME NotifySomebody PROVE ShownAdvances
  BY <1>5 DEF NotifySomebody
<1>6. ASSUME NotifySwallowed PROVE ShownAdvances
  BY <1>6 DEF NotifySwallowed, NotifyReturns
<1>7. ASSUME NotifyFree PROVE ShownAdvances
  BY <1>7 DEF NotifyFree
<1>8. ASSUME NotifySchedule PROVE ShownAdvances
  BY <1>8 DEF NotifySchedule, NotifyReturns
<1>9. ASSUME NEW s \in Sockets, OpenStream(s) PROVE ShownAdvances
  BY <1>9 DEF OpenStream, LoopFree, Referenced
<1>10. ASSUME NEW s \in Sockets, InitialSnapshot(s) PROVE ShownAdvances
  BY <1>10 DEF InitialSnapshot
<1>11. ASSUME NEW s \in Sockets, InitialRaises(s) PROVE ShownAdvances
  BY <1>11 DEF InitialRaises
<1>12. ASSUME NEW s \in Sockets, OpenNotFound(s) PROVE ShownAdvances
  BY <1>12 DEF OpenNotFound, LoopFree, Referenced
<1>13. ASSUME NEW s \in Sockets, ClientLeaves(s) PROVE ShownAdvances
  BY <1>13 DEF ClientLeaves
<1>14. ASSUME NEW s \in Sockets, Disconnect(s) PROVE ShownAdvances
  BY <1>14 DEF Disconnect, LoopFree
<1>15. ASSUME NEW c \in Channels, BroadcastToNobody(c) PROVE ShownAdvances
  BY <1>15 DEF BroadcastToNobody, EndTask, Due, LoopFree
<1>16. ASSUME NEW c \in Channels, BroadcastNotFound(c) PROVE ShownAdvances
  BY <1>16 DEF BroadcastNotFound, EndTask, Due, LoopFree
<1>17. ASSUME NEW c \in Channels, BeginBroadcast(c) PROVE ShownAdvances
  BY <1>17 DEF BeginBroadcast, Due, LoopFree
<1>18. ASSUME NEW c \in Channels, FinishBuild(c) PROVE ShownAdvances
  BY <1>18 DEF FinishBuild
<1>19. ASSUME NEW c \in Channels, BuildRaises(c) PROVE ShownAdvances
  BY <1>19 DEF BuildRaises
<1>20. ASSUME NEW c \in Channels, NEW s \in Sockets, Send(c, s) PROVE ShownAdvances
  BY <1>20 DEF Send, LoopFree
<1>21. ASSUME NEW c \in Channels, NEW s \in Sockets, SendFails(c, s) PROVE ShownAdvances
  BY <1>21 DEF SendFails, LoopFree
<1>22. ASSUME NEW c \in Channels, EndBroadcast(c) PROVE ShownAdvances
  BY <1>22 DEF EndBroadcast, EndTask, LoopFree
<1>23. ASSUME Tick PROVE ShownAdvances
  BY <1>23 DEF Tick
<1>24. CASE UNCHANGED vars
  BY <1>24 DEF vars
<1>q. QED
  BY <1>1, <1>2, <1>3, <1>4, <1>5, <1>6, <1>7, <1>8, <1>9, <1>10, <1>11, <1>12,
     <1>13, <1>14, <1>15, <1>16, <1>17, <1>18, <1>19, <1>20, <1>21, <1>22, <1>23,
     <1>24 DEF Next, Notify, Stream, Broadcast

\* While a stream is open, what its client is shown is only replaced by a snapshot
\* begun after it was finished.
THEOREM ViewsAdvanceHolds == Spec => ViewsAdvance
<1>1. IInv /\ [Next]_vars => [ShownAdvances]_vars
  BY StepAdvances
<1>q. QED
  BY <1>1, InductiveInvariant, PTL DEF Spec, ViewsAdvance, ShownAdvances

-----------------------------------------------------------------------------
(* The stream implements the abstract feed.                                *)

LEMMA StepFeed == IInv /\ [Next]_vars => [Feed!FeedNext]_<<stored, Shown>>
<1> DEFINE Mapped == [Feed!FeedNext]_<<stored, Shown>>
<1> SUFFICES ASSUME IInv, [Next]_vars PROVE Mapped
  OBVIOUS
<1> USE StreamAssumption DEF IInv, TypeOK, View, NotifySteps, ClientStates, TaskStates, Channels,
             feedVars, socketVars, taskVars,
             Structure, LoopOwner, Lists, Ordered, Shown
<1>1. ASSUME NEW u \in Units, Commit(u) PROVE Mapped
  <2>1. Feed!Publish({Community, u})
    BY <1>1 DEF Commit, Feed!Publish
  <2>q. QED
    BY <2>1 DEF Feed!FeedNext
<1>2. ASSUME NEW u \in Units, DeleteUnit(u) PROVE Mapped
  BY <1>2 DEF DeleteUnit
<1>3. ASSUME DeleteCommunity PROVE Mapped
  BY <1>3 DEF DeleteCommunity
<1>4. ASSUME NotifyNobody PROVE Mapped
  BY <1>4 DEF NotifyNobody, NotifyReturns
<1>5. ASSUME NotifySomebody PROVE Mapped
  BY <1>5 DEF NotifySomebody
<1>6. ASSUME NotifySwallowed PROVE Mapped
  BY <1>6 DEF NotifySwallowed, NotifyReturns
<1>7. ASSUME NotifyFree PROVE Mapped
  BY <1>7 DEF NotifyFree
<1>8. ASSUME NotifySchedule PROVE Mapped
  BY <1>8 DEF NotifySchedule, NotifyReturns
<1>9. ASSUME NEW s \in Sockets, OpenStream(s) PROVE Mapped
  BY <1>9 DEF OpenStream, LoopFree, Referenced
<1>10. ASSUME NEW s \in Sockets, InitialSnapshot(s) PROVE Mapped
  <2> DEFINE ended == stored[ChannelOf[s]]
  <2>1. /\ reading.begun \in 0..ended /\ ended \in 0..ended
        /\ Shown[s].ended <= reading.begun /\ reading.begun <= ended
    BY <1>10 DEF InitialSnapshot
  <2>2. Shown' = [Shown EXCEPT ![s] = [begun |-> reading.begun, ended |-> ended]]
        /\ UNCHANGED stored
    BY <1>10 DEF InitialSnapshot
  <2>3. Feed!Show(s)
    BY <2>1, <2>2 DEF Feed!Show
  <2>q. QED
    BY <2>3 DEF Feed!FeedNext
<1>11. ASSUME NEW s \in Sockets, InitialRaises(s) PROVE Mapped
  BY <1>11 DEF InitialRaises
<1>12. ASSUME NEW s \in Sockets, OpenNotFound(s) PROVE Mapped
  BY <1>12 DEF OpenNotFound, LoopFree, Referenced
<1>13. ASSUME NEW s \in Sockets, ClientLeaves(s) PROVE Mapped
  <2>1. Feed!Close(s)
    BY <1>13 DEF ClientLeaves, Feed!Close, Feed!Closed
  <2>q. QED
    BY <2>1 DEF Feed!FeedNext
<1>14. ASSUME NEW s \in Sockets, Disconnect(s) PROVE Mapped
  BY <1>14 DEF Disconnect, LoopFree
<1>15. ASSUME NEW c \in Channels, BroadcastToNobody(c) PROVE Mapped
  BY <1>15 DEF BroadcastToNobody, EndTask, Due, LoopFree
<1>16. ASSUME NEW c \in Channels, BroadcastNotFound(c) PROVE Mapped
  BY <1>16 DEF BroadcastNotFound, EndTask, Due, LoopFree
<1>17. ASSUME NEW c \in Channels, BeginBroadcast(c) PROVE Mapped
  BY <1>17 DEF BeginBroadcast, Due, LoopFree
<1>18. ASSUME NEW c \in Channels, FinishBuild(c) PROVE Mapped
  BY <1>18 DEF FinishBuild
<1>19. ASSUME NEW c \in Channels, BuildRaises(c) PROVE Mapped
  BY <1>19 DEF BuildRaises
<1>20. ASSUME NEW c \in Channels, NEW s \in Sockets, Send(c, s) PROVE Mapped
  <2> DEFINE p == payload[c]
             now == stored[ChannelOf[s]]
  <2>1. /\ p.begun \in 0..now /\ p.ended \in 0..now
        /\ Shown[s].ended <= p.begun /\ p.begun <= p.ended
        /\ p = [begun |-> p.begun, ended |-> p.ended]
    BY <1>20 DEF Send, LoopFree
  <2>2. /\ UNCHANGED <<stored, client>>
        /\ client[s] = "open"
        /\ view' = [view EXCEPT ![s] = p]
    BY <1>20 DEF Send, LoopFree
  <2> HIDE DEF p
  <2>3. Shown' = [Shown EXCEPT ![s] = p]
    <3>1. ASSUME NEW r \in Sockets PROVE Shown'[r] = [Shown EXCEPT ![s] = p][r]
      BY <2>2
    <3>q. QED
      BY <3>1, Zenon DEF Shown
  <2>4. Shown' = [Shown EXCEPT ![s] = [begun |-> p.begun, ended |-> p.ended]]
    BY <2>1, <2>3
  <2>5. UNCHANGED stored /\ ChannelOf[s] \in Channels
    BY <2>2
  <2>6. \E begun, ended \in 0..now :
          /\ Shown[s].ended <= begun /\ begun <= ended
          /\ Shown' = [Shown EXCEPT ![s] = [begun |-> begun, ended |-> ended]]
    <3> HIDE DEF now
    <3>q. QED
      BY <2>1, <2>4, Zenon
  <2>7. Feed!Show(s)
    BY <2>5, <2>6 DEF Feed!Show
  <2>q. QED
    BY <2>7 DEF Feed!FeedNext
<1>21. ASSUME NEW c \in Channels, NEW s \in Sockets, SendFails(c, s) PROVE Mapped
  BY <1>21 DEF SendFails, LoopFree
<1>22. ASSUME NEW c \in Channels, EndBroadcast(c) PROVE Mapped
  BY <1>22 DEF EndBroadcast, EndTask, LoopFree
<1>23. ASSUME Tick PROVE Mapped
  BY <1>23 DEF Tick
<1>24. CASE UNCHANGED vars
  BY <1>24 DEF vars
<1>q. QED
  BY <1>1, <1>2, <1>3, <1>4, <1>5, <1>6, <1>7, <1>8, <1>9, <1>10, <1>11, <1>12,
     <1>13, <1>14, <1>15, <1>16, <1>17, <1>18, <1>19, <1>20, <1>21, <1>22, <1>23,
     <1>24 DEF Next, Notify, Stream, Broadcast

\* What the clients are shown is a behaviour of the abstract feed.
THEOREM ImplementsFeedHolds == Spec => ImplementsFeed
<1>1. Init => Feed!FeedInit
  BY DEF Init, Feed!FeedInit, Feed!Closed, Shown
<1>2. IInv /\ [Next]_vars => [Feed!FeedNext]_<<stored, Shown>>
  BY StepFeed
<1>q. QED
  BY <1>1, <1>2, InductiveInvariant, PTL DEF Spec, ImplementsFeed, Feed!FeedSpec

LEMMA StepQueuedKept ==
    ASSUME IInv, [Next]_vars, NEW s \in Sockets, NEW n \in 1..MaxReadings,
           client[s] = "open", OnItsWay(s, n)
    PROVE  \/ OnItsWay(s, n)'
           \/ client'[s] # "open"
           \/ view'[s].begun >= n
           \/ missed'[ChannelOf[s]]
<1> DEFINE Kept == \/ OnItsWay(s, n)'
                   \/ client'[s] # "open"
                   \/ view'[s].begun >= n
                   \/ missed'[ChannelOf[s]]
<1> SUFFICES Kept
  OBVIOUS
<1> USE StreamAssumption DEF IInv, TypeOK, View, NotifySteps, ClientStates, TaskStates, Channels,
             feedVars, socketVars, taskVars,
             Structure, OneBroadcast, LoopOwner, Lists, Registered, OnItsWay
<1>1. ASSUME NEW u \in Units, Commit(u) PROVE Kept
  BY <1>1 DEF Commit
<1>2. ASSUME NEW u \in Units, DeleteUnit(u) PROVE Kept
  BY <1>2 DEF DeleteUnit
<1>3. ASSUME DeleteCommunity PROVE Kept
  BY <1>3 DEF DeleteCommunity
<1>4. ASSUME NotifyNobody PROVE Kept
  BY <1>4 DEF NotifyNobody, NotifyReturns
<1>5. ASSUME NotifySomebody PROVE Kept
  BY <1>5 DEF NotifySomebody
<1>6. ASSUME NotifySwallowed PROVE Kept
  BY <1>6 DEF NotifySwallowed, NotifyReturns
<1>7. ASSUME NotifyFree PROVE Kept
  BY <1>7 DEF NotifyFree
<1>8. ASSUME NotifySchedule PROVE Kept
  BY <1>8 DEF NotifySchedule, NotifyReturns
<1>9. ASSUME NEW t \in Sockets, OpenStream(t) PROVE Kept
  BY <1>9 DEF OpenStream, LoopFree, Referenced
<1>10. ASSUME NEW t \in Sockets, InitialSnapshot(t) PROVE Kept
  BY <1>10 DEF InitialSnapshot
<1>11. ASSUME NEW t \in Sockets, InitialRaises(t) PROVE Kept
  BY <1>11 DEF InitialRaises
<1>12. ASSUME NEW t \in Sockets, OpenNotFound(t) PROVE Kept
  BY <1>12 DEF OpenNotFound, LoopFree, Referenced
<1>13. ASSUME NEW t \in Sockets, ClientLeaves(t) PROVE Kept
  BY <1>13 DEF ClientLeaves
<1>14. ASSUME NEW t \in Sockets, Disconnect(t) PROVE Kept
  BY <1>14 DEF Disconnect, LoopFree
<1>15. ASSUME NEW c \in Channels, BroadcastToNobody(c) PROVE Kept
  BY <1>15 DEF BroadcastToNobody, EndTask, Due, LoopFree
<1>16. ASSUME NEW c \in Channels, BroadcastNotFound(c) PROVE Kept
  BY <1>16 DEF BroadcastNotFound, EndTask, Due, LoopFree
<1>17. ASSUME NEW c \in Channels, BeginBroadcast(c) PROVE Kept
  BY <1>17 DEF BeginBroadcast, Due, LoopFree
<1>18. ASSUME NEW c \in Channels, FinishBuild(c) PROVE Kept
  BY <1>18 DEF FinishBuild
<1>19. ASSUME NEW c \in Channels, BuildRaises(c) PROVE Kept
  BY <1>19 DEF BuildRaises
<1>20. ASSUME NEW c \in Channels, NEW t \in Sockets, Send(c, t) PROVE Kept
  BY <1>20 DEF Send, LoopFree
<1>21. ASSUME NEW c \in Channels, NEW t \in Sockets, SendFails(c, t) PROVE Kept
  BY <1>21 DEF SendFails, LoopFree
<1>22. ASSUME NEW c \in Channels, EndBroadcast(c) PROVE Kept
  BY <1>22 DEF EndBroadcast, EndTask, LoopFree
<1>23. ASSUME Tick PROVE Kept
  BY <1>23 DEF Tick
<1>24. CASE UNCHANGED vars
  BY <1>24 DEF vars
<1>q. QED
  BY <1>1, <1>2, <1>3, <1>4, <1>5, <1>6, <1>7, <1>8, <1>9, <1>10, <1>11, <1>12,
     <1>13, <1>14, <1>15, <1>16, <1>17, <1>18, <1>19, <1>20, <1>21, <1>22, <1>23,
     <1>24 DEF Next, Notify, Stream, Broadcast

\* QueuedKept: no step of the MQTT thread, of a stream or of another broadcast
\* loses a snapshot that is on its way to an open client.
THEOREM QueuedKeptHolds == Spec => QueuedKept
<1> DEFINE Kept ==
        \A s \in Sockets, n \in 1..MaxReadings :
            client[s] = "open" /\ OnItsWay(s, n) =>
                \/ OnItsWay(s, n)'
                \/ client'[s] # "open"
                \/ view'[s].begun >= n
                \/ missed'[ChannelOf[s]]
<1>1. IInv /\ [Next]_vars => Kept
  BY StepQueuedKept
<1>2. IInv /\ [Next]_vars => [Kept]_vars
  BY <1>1
<1>q. QED
  BY <1>2, InductiveInvariant, PTL DEF Spec, QueuedKept

=============================================================================

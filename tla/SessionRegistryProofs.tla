------------------------ MODULE SessionRegistryProofs ------------------------
(* Theorems about SessionRegistry, for every set of processes, connections  *)
(* and users.                                                               *)
EXTENDS SessionRegistry, TLAPS

USE DEF vars, link, attrs, chanVars, regVars, scanVars, history
(***************************************************************************)
(* Type correctness.                                                       *)
(***************************************************************************)

LEMMA TypeInit == ASSUME Init PROVE TypeOK
  BY ConstantsAssumption DEF Init, TypeOK, HandlerPc

LEMMA TypeStep == ASSUME TypeOK, [Next]_vars PROVE TypeOK'
<1> USE ConstantsAssumption
<1>1. ASSUME NEW c \in Channels, CheckHandshaker(c) PROVE TypeOK'
  BY <1>1 DEF CheckHandshaker, Goto, TypeOK, HandlerPc
<1>2. ASSUME NEW c \in Channels, AddOnline(c) PROVE TypeOK'
  BY <1>2 DEF AddOnline, Goto, MarkUp, Overlapping, TypeOK, HandlerPc
<1>3. ASSUME NEW c \in Channels, AddOnlineFails(c) PROVE TypeOK'
  <2>1. CASE MarkUp(c) BY <1>3, <2>1 DEF AddOnlineFails, Goto, MarkUp, Overlapping, TypeOK, HandlerPc
  <2>2. CASE UNCHANGED <<online, history>> BY <1>3, <2>2 DEF AddOnlineFails, Goto, MarkUp, Overlapping, TypeOK, HandlerPc
  <2> QED BY <1>3, <2>1, <2>2 DEF AddOnlineFails
<1>4. ASSUME NEW c \in Channels, Handshake(c) PROVE TypeOK'
  <2>1. CASE CloseNow(c) BY <1>4, <2>1 DEF Handshake, Goto, SetAttributes, CloseNow, TypeOK, HandlerPc
  <2>2. CASE UNCHANGED <<conn, closeReq, channelGroup>> BY <1>4, <2>2 DEF Handshake, Goto, SetAttributes, CloseNow, TypeOK, HandlerPc
  <2> QED BY <1>4, <2>1, <2>2 DEF Handshake
<1>5. ASSUME NEW c \in Channels, HandshakeFails(c) PROVE TypeOK'
  BY <1>5 DEF HandshakeFails, Goto, SetAttributes, TypeOK, HandlerPc
<1>6. ASSUME NEW c \in Channels, JoinGroup(c) PROVE TypeOK'
  BY <1>6 DEF JoinGroup, Goto, TypeOK, HandlerPc
<1>7. ASSUME NEW c \in Channels, PutMap(c) PROVE TypeOK'
  BY <1>7 DEF PutMap, Goto, TypeOK, HandlerPc
<1>8. ASSUME NEW c \in Channels, ChannelInactive(c) PROVE TypeOK'
  BY <1>8 DEF ChannelInactive, Goto, TypeOK, HandlerPc
<1>9. ASSUME NEW c \in Channels, ClearOnline(c) PROVE TypeOK'
  BY <1>9 DEF ClearOnline, Goto, RemoveOnline, TypeOK, HandlerPc
<1>10. ASSUME NEW c \in Channels, ClearOnlineFails(c) PROVE TypeOK'
  <2>1. CASE RemoveOnline(c) BY <1>10, <2>1 DEF ClearOnlineFails, Goto, RemoveOnline, CloseNow, TypeOK, HandlerPc
  <2>2. CASE UNCHANGED <<online, session>> BY <1>10, <2>2 DEF ClearOnlineFails, Goto, RemoveOnline, CloseNow, TypeOK, HandlerPc
  <2> QED BY <1>10, <2>1, <2>2 DEF ClearOnlineFails
<1>11. ASSUME NEW c \in Channels, ClearGroup(c) PROVE TypeOK'
  BY <1>11 DEF ClearGroup, Goto, TypeOK, HandlerPc
<1>12. ASSUME NEW c \in Channels, ClearMap(c) PROVE TypeOK'
  <2>1. CASE userId[c] = NoUser
    <3>1. CloseNow(c) /\ UNCHANGED channelMap
      BY <1>12, <2>1 DEF ClearMap
    <3> QED BY <1>12, <3>1 DEF ClearMap, Goto, CloseNow, TypeOK, HandlerPc
  <2>2. CASE userId[c] # NoUser
    <3>1. /\ channelMap' = [channelMap EXCEPT ![NodeOf[c]][userId[c]] = NoChannel]
          /\ UNCHANGED <<conn, closeReq, channelGroup>>
      BY <1>12, <2>2 DEF ClearMap
    <3> QED BY <1>12, <3>1 DEF ClearMap, Goto, TypeOK, HandlerPc
  <2> QED BY <1>12, <2>1, <2>2 DEF ClearMap
<1>13. ASSUME NEW c \in Channels, Accept(c) PROVE TypeOK'
  BY <1>13 DEF Accept, TypeOK, HandlerPc
<1>14. ASSUME NEW c \in Channels, PeerClose(c) PROVE TypeOK'
  BY <1>14 DEF PeerClose, CloseNow, TypeOK, HandlerPc
<1>15. ASSUME NEW c \in Channels, GoStale(c) PROVE TypeOK'
  BY <1>15 DEF GoStale, TypeOK, HandlerPc
<1>16. ASSUME NEW c \in Channels, PlainRequest(c) PROVE TypeOK'
  BY <1>16 DEF PlainRequest, CloseSoon, TypeOK, HandlerPc
<1>17. ASSUME NEW c \in Channels, NEW v \in Versions, NewHandshaker(c, v) PROVE TypeOK'
  BY <1>17 DEF NewHandshaker, Goto, Receives, TypeOK, HandlerPc
<1>18. ASSUME NEW c \in Channels, Pong(c) PROVE TypeOK'
  BY <1>18 DEF Pong, TypeOK, HandlerPc
<1>19. ASSUME NEW c \in Channels, CloseFrame(c) PROVE TypeOK'
  <2>1. CASE CloseNow(c) BY <1>19, <2>1 DEF CloseFrame, Goto, CloseNow, CloseSoon, TypeOK, HandlerPc
  <2>2. CASE CloseSoon(c) /\ UNCHANGED <<conn, channelGroup>> BY <1>19, <2>2 DEF CloseFrame, Goto, CloseNow, CloseSoon, TypeOK, HandlerPc
  <2> QED BY <1>19, <2>1, <2>2 DEF CloseFrame
<1>20. ASSUME NEW c \in Channels, FrameThrows(c) PROVE TypeOK'
  BY <1>20 DEF FrameThrows, CloseNow, TypeOK, HandlerPc
<1>21. ASSUME NEW n \in Nodes, ScanStart(n) PROVE TypeOK'
  BY <1>21 DEF ScanStart, TypeOK, HandlerPc
<1>22. ASSUME NEW n \in Nodes, ScanNext(n) PROVE TypeOK'
  <2>1. PICK u \in scanTodo[n] :
          /\ scanTodo' = [scanTodo EXCEPT ![n] = @ \ {u}]
          /\ IF channelMap[n][u] = NoChannel
             THEN UNCHANGED <<scanPc, scanCur>>
             ELSE /\ scanCur' = [scanCur EXCEPT ![n] = channelMap[n][u]]
                  /\ scanPc' = [scanPc EXCEPT ![n] = "check"]
    BY <1>22 DEF ScanNext
  <2>2. u \in Users /\ channelMap[n][u] \in Channels \cup {NoChannel}
    BY <2>1 DEF TypeOK
  <2>3. CASE channelMap[n][u] = NoChannel
    <3>1. UNCHANGED <<scanPc, scanCur>>
      BY <2>1, <2>3
    <3> QED BY <1>22, <2>1, <3>1 DEF ScanNext, TypeOK, HandlerPc
  <2>4. CASE channelMap[n][u] # NoChannel
    <3>1. /\ scanCur' = [scanCur EXCEPT ![n] = channelMap[n][u]]
          /\ scanPc' = [scanPc EXCEPT ![n] = "check"]
      BY <2>1, <2>4
    <3> QED BY <1>22, <2>1, <2>2, <3>1 DEF ScanNext, TypeOK, HandlerPc
  <2> QED BY <2>3, <2>4
<1>23. ASSUME NEW n \in Nodes, ScanEnd(n) PROVE TypeOK'
  BY <1>23 DEF ScanEnd, TypeOK, HandlerPc
<1>24. ASSUME NEW n \in Nodes, ScanCheck(n) PROVE TypeOK'
  BY <1>24 DEF ScanCheck, Inactive, TypeOK, HandlerPc
<1>25. ASSUME NEW n \in Nodes, ScanDrop(n) PROVE TypeOK'
  BY <1>25 DEF ScanDrop, TypeOK, HandlerPc
<1>26. ASSUME NEW n \in Nodes, ScanClose(n) PROVE TypeOK'
  BY <1>26 DEF ScanClose, CloseSoon, TypeOK, HandlerPc
<1>27. ASSUME NEW n \in Nodes, Crash(n) PROVE TypeOK'
  BY <1>27 DEF Crash, TypeOK, HandlerPc
<1>28. ASSUME UNCHANGED vars PROVE TypeOK'
  BY <1>28 DEF TypeOK
<1> QED
  BY <1>1, <1>2, <1>3, <1>4, <1>5, <1>6, <1>7, <1>8, <1>9, <1>10, <1>11, <1>12, <1>13, <1>14, <1>15, <1>16, <1>17, <1>18, <1>19, <1>20, <1>21, <1>22, <1>23, <1>24, <1>25, <1>26, <1>27, <1>28 DEF Next, Step, Event, Scan, RunClose

\* Type correctness of every reachable state (ChatChannelManage's three
\* structures, the attributes, the scan's locals).
THEOREM TypeCorrect == Spec => []TypeOK
<1>1. Init => TypeOK BY TypeInit
<1>2. TypeOK /\ [Next]_vars => TypeOK' BY TypeStep
<1> QED BY <1>1, <1>2, PTL DEF Spec

(***************************************************************************)
(* The inductive invariant.                                                *)
(***************************************************************************)

\* Where a handler stands tells what it has done, and what can have happened to
\* its channel meanwhile.
HandlerInv ==
    \A c \in Channels :
        /\ userId[c] \in {NoUser, UserOf[c]}
        /\ conn[c] \in {"new", "lost"} => pc[c] = "ready"
        /\ conn[c] = "new" => session[c] = "none" /\ proto[c] = "http"
        /\ conn[c] = "gone" => pc[c] = "ready" \/ pc[c] \in Clearing
        /\ pc[c] \in {"check", "online", "shake"} => proto[c] = "http"
        /\ pc[c] \in {"group", "map"} => /\ userId[c] = UserOf[c]
                                         /\ beat[c] # "none"
        /\ pc[c] \in {"shake", "group", "map"} => session[c] # "none"
        /\ pc[c] \in Clearing => conn[c] = "gone" \/ proto[c] = "closing"
        /\ userId[c] # NoUser => session[c] # "none"

\* Every channel the scan has taken from the map was sound when it was taken.
ScanInv ==
    \A n \in Nodes : scanPc[n] \in {"check", "drop", "close"} =>
        /\ scanCur[n] \in Channels
        /\ NodeOf[scanCur[n]] = n
        /\ beat[scanCur[n]] # "none"

EntryInv ==
    \A n \in Nodes, u \in Users :
        LET c == channelMap[n][u] IN
        c # NoChannel => /\ NodeOf[c] = n /\ UserOf[c] = u
                         /\ userId[c] = u /\ beat[c] # "none"

\* While Redis answers, an entry outlives its channel only during clearSession.
DanglingInv ==
    ~RedisFails => \A n \in Nodes, u \in Users :
        channelMap[n][u] # NoChannel =>
            /\ conn[channelMap[n][u]] # "lost"
            /\ conn[channelMap[n][u]] = "gone" => pc[channelMap[n][u]] \in Clearing

\* While Redis answers and nothing crashes, whoever is listed was added by a
\* channel that will still remove him.
OnlineInv ==
    ~RedisFails /\ ~Crashes =>
        /\ \A u \in online : \E c \in Channels : UserOf[c] = u /\ session[c] = "up"
        /\ \A c \in Channels :
             /\ conn[c] # "lost"
             /\ session[c] = "up" => userId[c] = UserOf[c] \/ pc[c] = "shake"
             /\ session[c] = "up" /\ conn[c] = "gone" => pc[c] = "clrOnline"

\* Two sessions of one user that are both under way know of each other.
RivalInv ==
    \A c, d \in Channels :
        /\ c # d /\ UserOf[c] = UserOf[d]
        /\ session[c] # "none" /\ session[d] # "none"
        /\ ~Over(c) /\ ~Over(d)
        => c \in rivals /\ d \in rivals

Sole(c) == c \notin rivals /\ session[c] = "up" /\ ~Over(c) /\ UserOf[c] # NoUser

InGroup(c) == \/ c \in channelGroup
              \/ closeReq[c]
              \/ scanPc[NodeOf[c]] = "close" /\ scanCur[NodeOf[c]] = c

\* What the connect handler of a session without rivals has done stays done.
SoleInv ==
    \A c \in Channels : Sole(c) =>
        /\ UserOf[c] \in online
        /\ conn[c] = "open" /\ proto[c] = "websocket" =>
             /\ pc[c] \in {"group", "map", "ready"}
             /\ pc[c] = "ready" => Mapped(c)
             /\ pc[c] # "group" => InGroup(c)

IInv == /\ TypeOK /\ HandlerInv /\ ScanInv /\ EntryInv /\ DanglingInv
        /\ OnlineInv /\ RivalInv /\ SoleInv

\* Every handler step keeps HandlerInv.
LEMMA HandlerStep ==
  ASSUME TypeOK, HandlerInv, [Next]_vars PROVE HandlerInv'
<1> USE ConstantsAssumption
<1>1. ASSUME NEW c \in Channels, CheckHandshaker(c) PROVE HandlerInv'
  BY <1>1 DEF CheckHandshaker, Goto, HandlerInv, Clearing, TypeOK, HandlerPc
<1>2. ASSUME NEW c \in Channels, AddOnline(c) PROVE HandlerInv'
  BY <1>2 DEF AddOnline, Goto, MarkUp, HandlerInv, Clearing, TypeOK, HandlerPc
<1>3. ASSUME NEW c \in Channels, AddOnlineFails(c) PROVE HandlerInv'
  <2>1. CASE MarkUp(c)
    BY <1>3, <2>1 DEF AddOnlineFails, Goto, MarkUp, HandlerInv, Clearing, TypeOK, HandlerPc
  <2>2. CASE UNCHANGED <<online, history>>
    BY <1>3, <2>2 DEF AddOnlineFails, Goto, MarkUp, HandlerInv, Clearing, TypeOK, HandlerPc
  <2> QED BY <1>3, <2>1, <2>2 DEF AddOnlineFails
<1>4. ASSUME NEW c \in Channels, Handshake(c) PROVE HandlerInv'
  <2>1. CASE CloseNow(c)
    BY <1>4, <2>1 DEF Handshake, Goto, SetAttributes, CloseNow, HandlerInv, Clearing, TypeOK, HandlerPc
  <2>2. CASE UNCHANGED <<conn, closeReq, channelGroup>>
    BY <1>4, <2>2 DEF Handshake, Goto, SetAttributes, CloseNow, HandlerInv, Clearing, TypeOK, HandlerPc
  <2> QED BY <1>4, <2>1, <2>2 DEF Handshake
<1>5. ASSUME NEW c \in Channels, HandshakeFails(c) PROVE HandlerInv'
  BY <1>5 DEF HandshakeFails, Goto, SetAttributes, HandlerInv, Clearing, TypeOK, HandlerPc
<1>6. ASSUME NEW c \in Channels, JoinGroup(c) PROVE HandlerInv'
  BY <1>6 DEF JoinGroup, Goto, HandlerInv, Clearing, TypeOK, HandlerPc
<1>7. ASSUME NEW c \in Channels, PutMap(c) PROVE HandlerInv'
  BY <1>7 DEF PutMap, Goto, HandlerInv, Clearing, TypeOK, HandlerPc
<1>8. ASSUME NEW c \in Channels, ChannelInactive(c) PROVE HandlerInv'
  BY <1>8 DEF ChannelInactive, Goto, HandlerInv, Clearing, TypeOK, HandlerPc
<1>9. ASSUME NEW c \in Channels, ClearOnline(c) PROVE HandlerInv'
  BY <1>9 DEF ClearOnline, Goto, RemoveOnline, HandlerInv, Clearing, TypeOK, HandlerPc
<1>10. ASSUME NEW c \in Channels, ClearOnlineFails(c) PROVE HandlerInv'
  <2>1. CASE RemoveOnline(c)
    BY <1>10, <2>1 DEF ClearOnlineFails, Goto, RemoveOnline, CloseNow, HandlerInv, Clearing, TypeOK, HandlerPc
  <2>2. CASE UNCHANGED <<online, session>>
    BY <1>10, <2>2 DEF ClearOnlineFails, Goto, RemoveOnline, CloseNow, HandlerInv, Clearing, TypeOK, HandlerPc
  <2> QED BY <1>10, <2>1, <2>2 DEF ClearOnlineFails
<1>11. ASSUME NEW c \in Channels, ClearGroup(c) PROVE HandlerInv'
  BY <1>11 DEF ClearGroup, Goto, HandlerInv, Clearing, TypeOK, HandlerPc
<1>12. ASSUME NEW c \in Channels, ClearMap(c) PROVE HandlerInv'
  <2>1. CASE userId[c] = NoUser
    <3>1. CloseNow(c) /\ UNCHANGED channelMap
      BY <1>12, <2>1 DEF ClearMap
    <3> QED BY <1>12, <2>1, <3>1 DEF ClearMap, Goto, CloseNow, HandlerInv, Clearing, TypeOK, HandlerPc
  <2>2. CASE userId[c] # NoUser
    <3>1. /\ channelMap' = [channelMap EXCEPT ![NodeOf[c]][userId[c]] = NoChannel]
          /\ UNCHANGED <<conn, closeReq, channelGroup>>
      BY <1>12, <2>2 DEF ClearMap
    <3> QED BY <1>12, <2>2, <3>1 DEF ClearMap, Goto, CloseNow, HandlerInv, Clearing, TypeOK, HandlerPc
  <2> QED BY <1>12, <2>1, <2>2 DEF ClearMap
<1>13. ASSUME NEW c \in Channels, Accept(c) PROVE HandlerInv'
  BY <1>13 DEF Accept, HandlerInv, Clearing, TypeOK, HandlerPc
<1>14. ASSUME NEW c \in Channels, PeerClose(c) PROVE HandlerInv'
  BY <1>14 DEF PeerClose, CloseNow, HandlerInv, Clearing, TypeOK, HandlerPc
<1>15. ASSUME NEW c \in Channels, GoStale(c) PROVE HandlerInv'
  BY <1>15 DEF GoStale, HandlerInv, Clearing, TypeOK, HandlerPc
<1>16. ASSUME NEW c \in Channels, PlainRequest(c) PROVE HandlerInv'
  BY <1>16 DEF PlainRequest, CloseSoon, Receives, HandlerInv, Clearing, TypeOK, HandlerPc
<1>17. ASSUME NEW c \in Channels, NEW v \in Versions, NewHandshaker(c, v) PROVE HandlerInv'
  BY <1>17 DEF NewHandshaker, Goto, Receives, HandlerInv, Clearing, TypeOK, HandlerPc
<1>18. ASSUME NEW c \in Channels, Pong(c) PROVE HandlerInv'
  BY <1>18 DEF Pong, Receives, HandlerInv, Clearing, TypeOK, HandlerPc
<1>19. ASSUME NEW c \in Channels, CloseFrame(c) PROVE HandlerInv'
  <2>1. CASE CloseNow(c)
    BY <1>19, <2>1 DEF CloseFrame, Goto, CloseNow, CloseSoon, Receives, HandlerInv, Clearing, TypeOK, HandlerPc
  <2>2. CASE CloseSoon(c) /\ UNCHANGED <<conn, channelGroup>>
    BY <1>19, <2>2 DEF CloseFrame, Goto, CloseNow, CloseSoon, Receives, HandlerInv, Clearing, TypeOK, HandlerPc
  <2> QED BY <1>19, <2>1, <2>2 DEF CloseFrame
<1>20. ASSUME NEW c \in Channels, FrameThrows(c) PROVE HandlerInv'
  BY <1>20 DEF FrameThrows, CloseNow, Receives, HandlerInv, Clearing, TypeOK, HandlerPc
<1>21. ASSUME NEW n \in Nodes, ScanStart(n) PROVE HandlerInv'
  BY <1>21 DEF ScanStart, HandlerInv, Clearing, TypeOK, HandlerPc
<1>22. ASSUME NEW n \in Nodes, ScanNext(n) PROVE HandlerInv'
  <2>1. PICK u \in scanTodo[n] :
          /\ scanTodo' = [scanTodo EXCEPT ![n] = @ \ {u}]
          /\ IF channelMap[n][u] = NoChannel
             THEN UNCHANGED <<scanPc, scanCur>>
             ELSE /\ scanCur' = [scanCur EXCEPT ![n] = channelMap[n][u]]
                  /\ scanPc' = [scanPc EXCEPT ![n] = "check"]
    BY <1>22 DEF ScanNext
  <2>2. u \in Users /\ channelMap[n][u] \in Channels \cup {NoChannel}
    BY <2>1 DEF TypeOK
  <2>3. CASE channelMap[n][u] = NoChannel
    <3>1. UNCHANGED <<scanPc, scanCur>>
      BY <2>1, <2>3
    <3> QED BY <1>22, <2>1, <3>1 DEF ScanNext, HandlerInv, Clearing, TypeOK, HandlerPc
  <2>4. CASE channelMap[n][u] # NoChannel
    <3>1. /\ scanCur' = [scanCur EXCEPT ![n] = channelMap[n][u]]
          /\ scanPc' = [scanPc EXCEPT ![n] = "check"]
      BY <2>1, <2>4
    <3> QED BY <1>22, <2>1, <2>2, <2>4, <3>1 DEF ScanNext, HandlerInv, Clearing, TypeOK, HandlerPc
  <2> QED BY <2>3, <2>4
<1>23. ASSUME NEW n \in Nodes, ScanEnd(n) PROVE HandlerInv'
  BY <1>23 DEF ScanEnd, HandlerInv, Clearing, TypeOK, HandlerPc
<1>24. ASSUME NEW n \in Nodes, ScanCheck(n) PROVE HandlerInv'
  BY <1>24 DEF ScanCheck, Inactive, HandlerInv, Clearing, TypeOK, HandlerPc
<1>25. ASSUME NEW n \in Nodes, ScanDrop(n) PROVE HandlerInv'
  BY <1>25 DEF ScanDrop, HandlerInv, Clearing, TypeOK, HandlerPc
<1>26. ASSUME NEW n \in Nodes, ScanClose(n) PROVE HandlerInv'
  BY <1>26 DEF ScanClose, CloseSoon, HandlerInv, Clearing, TypeOK, HandlerPc
<1>27. ASSUME NEW n \in Nodes, Crash(n) PROVE HandlerInv'
  BY <1>27 DEF Crash, HandlerInv, Clearing, TypeOK, HandlerPc
<1>28. CASE UNCHANGED vars
  BY <1>28 DEF HandlerInv, Clearing, TypeOK, HandlerPc
<1> QED
  BY <1>1, <1>2, <1>3, <1>4, <1>5, <1>6, <1>7, <1>8, <1>9, <1>10, <1>11, <1>12, <1>13, <1>14, <1>15, <1>16, <1>17, <1>18, <1>19, <1>20, <1>21, <1>22, <1>23, <1>24, <1>25, <1>26, <1>27, <1>28 DEF Next, Step, Event, Scan, RunClose

\* The scan's current channel stays sound: beat is never reset, the map sound.
LEMMA ScanStep ==
  ASSUME TypeOK, ScanInv, EntryInv, [Next]_vars PROVE ScanInv'
<1> USE ConstantsAssumption
<1>1. ASSUME NEW c \in Channels, CheckHandshaker(c) PROVE ScanInv'
  BY <1>1 DEF CheckHandshaker, Goto, ScanInv, EntryInv, TypeOK, HandlerPc
<1>2. ASSUME NEW c \in Channels, AddOnline(c) PROVE ScanInv'
  BY <1>2 DEF AddOnline, Goto, MarkUp, ScanInv, EntryInv, TypeOK, HandlerPc
<1>3. ASSUME NEW c \in Channels, AddOnlineFails(c) PROVE ScanInv'
  <2>1. CASE MarkUp(c)
    BY <1>3, <2>1 DEF AddOnlineFails, Goto, MarkUp, ScanInv, EntryInv, TypeOK, HandlerPc
  <2>2. CASE UNCHANGED <<online, history>>
    BY <1>3, <2>2 DEF AddOnlineFails, Goto, MarkUp, ScanInv, EntryInv, TypeOK, HandlerPc
  <2> QED BY <1>3, <2>1, <2>2 DEF AddOnlineFails
<1>4. ASSUME NEW c \in Channels, Handshake(c) PROVE ScanInv'
  <2>1. CASE CloseNow(c)
    BY <1>4, <2>1 DEF Handshake, Goto, SetAttributes, CloseNow, ScanInv, EntryInv, TypeOK, HandlerPc
  <2>2. CASE UNCHANGED <<conn, closeReq, channelGroup>>
    BY <1>4, <2>2 DEF Handshake, Goto, SetAttributes, CloseNow, ScanInv, EntryInv, TypeOK, HandlerPc
  <2> QED BY <1>4, <2>1, <2>2 DEF Handshake
<1>5. ASSUME NEW c \in Channels, HandshakeFails(c) PROVE ScanInv'
  BY <1>5 DEF HandshakeFails, Goto, SetAttributes, ScanInv, EntryInv, TypeOK, HandlerPc
<1>6. ASSUME NEW c \in Channels, JoinGroup(c) PROVE ScanInv'
  BY <1>6 DEF JoinGroup, Goto, ScanInv, EntryInv, TypeOK, HandlerPc
<1>7. ASSUME NEW c \in Channels, PutMap(c) PROVE ScanInv'
  BY <1>7 DEF PutMap, Goto, ScanInv, EntryInv, TypeOK, HandlerPc
<1>8. ASSUME NEW c \in Channels, ChannelInactive(c) PROVE ScanInv'
  BY <1>8 DEF ChannelInactive, Goto, ScanInv, EntryInv, TypeOK, HandlerPc
<1>9. ASSUME NEW c \in Channels, ClearOnline(c) PROVE ScanInv'
  BY <1>9 DEF ClearOnline, Goto, RemoveOnline, ScanInv, EntryInv, TypeOK, HandlerPc
<1>10. ASSUME NEW c \in Channels, ClearOnlineFails(c) PROVE ScanInv'
  <2>1. CASE RemoveOnline(c)
    BY <1>10, <2>1 DEF ClearOnlineFails, Goto, RemoveOnline, CloseNow, ScanInv, EntryInv, TypeOK, HandlerPc
  <2>2. CASE UNCHANGED <<online, session>>
    BY <1>10, <2>2 DEF ClearOnlineFails, Goto, RemoveOnline, CloseNow, ScanInv, EntryInv, TypeOK, HandlerPc
  <2> QED BY <1>10, <2>1, <2>2 DEF ClearOnlineFails
<1>11. ASSUME NEW c \in Channels, ClearGroup(c) PROVE ScanInv'
  BY <1>11 DEF ClearGroup, Goto, ScanInv, EntryInv, TypeOK, HandlerPc
<1>12. ASSUME NEW c \in Channels, ClearMap(c) PROVE ScanInv'
  <2>1. CASE userId[c] = NoUser
    <3>1. CloseNow(c) /\ UNCHANGED channelMap
      BY <1>12, <2>1 DEF ClearMap
    <3> QED BY <1>12, <2>1, <3>1 DEF ClearMap, Goto, CloseNow, ScanInv, EntryInv, TypeOK, HandlerPc
  <2>2. CASE userId[c] # NoUser
    <3>1. /\ channelMap' = [channelMap EXCEPT ![NodeOf[c]][userId[c]] = NoChannel]
          /\ UNCHANGED <<conn, closeReq, channelGroup>>
      BY <1>12, <2>2 DEF ClearMap
    <3> QED BY <1>12, <2>2, <3>1 DEF ClearMap, Goto, CloseNow, ScanInv, EntryInv, TypeOK, HandlerPc
  <2> QED BY <1>12, <2>1, <2>2 DEF ClearMap
<1>13. ASSUME NEW c \in Channels, Accept(c) PROVE ScanInv'
  BY <1>13 DEF Accept, ScanInv, EntryInv, TypeOK, HandlerPc
<1>14. ASSUME NEW c \in Channels, PeerClose(c) PROVE ScanInv'
  BY <1>14 DEF PeerClose, CloseNow, ScanInv, EntryInv, TypeOK, HandlerPc
<1>15. ASSUME NEW c \in Channels, GoStale(c) PROVE ScanInv'
  BY <1>15 DEF GoStale, ScanInv, EntryInv, TypeOK, HandlerPc
<1>16. ASSUME NEW c \in Channels, PlainRequest(c) PROVE ScanInv'
  BY <1>16 DEF PlainRequest, CloseSoon, Receives, ScanInv, EntryInv, TypeOK, HandlerPc
<1>17. ASSUME NEW c \in Channels, NEW v \in Versions, NewHandshaker(c, v) PROVE ScanInv'
  BY <1>17 DEF NewHandshaker, Goto, Receives, ScanInv, EntryInv, TypeOK, HandlerPc
<1>18. ASSUME NEW c \in Channels, Pong(c) PROVE ScanInv'
  BY <1>18 DEF Pong, Receives, ScanInv, EntryInv, TypeOK, HandlerPc
<1>19. ASSUME NEW c \in Channels, CloseFrame(c) PROVE ScanInv'
  <2>1. CASE CloseNow(c)
    BY <1>19, <2>1 DEF CloseFrame, Goto, CloseNow, CloseSoon, Receives, ScanInv, EntryInv, TypeOK, HandlerPc
  <2>2. CASE CloseSoon(c) /\ UNCHANGED <<conn, channelGroup>>
    BY <1>19, <2>2 DEF CloseFrame, Goto, CloseNow, CloseSoon, Receives, ScanInv, EntryInv, TypeOK, HandlerPc
  <2> QED BY <1>19, <2>1, <2>2 DEF CloseFrame
<1>20. ASSUME NEW c \in Channels, FrameThrows(c) PROVE ScanInv'
  BY <1>20 DEF FrameThrows, CloseNow, Receives, ScanInv, EntryInv, TypeOK, HandlerPc
<1>21. ASSUME NEW n \in Nodes, ScanStart(n) PROVE ScanInv'
  BY <1>21 DEF ScanStart, ScanInv, EntryInv, TypeOK, HandlerPc
<1>22. ASSUME NEW n \in Nodes, ScanNext(n) PROVE ScanInv'
  <2>1. PICK u \in scanTodo[n] :
          /\ scanTodo' = [scanTodo EXCEPT ![n] = @ \ {u}]
          /\ IF channelMap[n][u] = NoChannel
             THEN UNCHANGED <<scanPc, scanCur>>
             ELSE /\ scanCur' = [scanCur EXCEPT ![n] = channelMap[n][u]]
                  /\ scanPc' = [scanPc EXCEPT ![n] = "check"]
    BY <1>22 DEF ScanNext
  <2>2. u \in Users /\ channelMap[n][u] \in Channels \cup {NoChannel}
    BY <2>1 DEF TypeOK
  <2>3. CASE channelMap[n][u] = NoChannel
    <3>1. UNCHANGED <<scanPc, scanCur>>
      BY <2>1, <2>3
    <3> QED BY <1>22, <2>1, <3>1 DEF ScanNext, ScanInv, EntryInv, TypeOK, HandlerPc
  <2>4. CASE channelMap[n][u] # NoChannel
    <3>1. /\ scanCur' = [scanCur EXCEPT ![n] = channelMap[n][u]]
          /\ scanPc' = [scanPc EXCEPT ![n] = "check"]
      BY <2>1, <2>4
    <3> QED BY <1>22, <2>1, <2>2, <2>4, <3>1 DEF ScanNext, ScanInv, EntryInv, TypeOK, HandlerPc
  <2> QED BY <2>3, <2>4
<1>23. ASSUME NEW n \in Nodes, ScanEnd(n) PROVE ScanInv'
  BY <1>23 DEF ScanEnd, ScanInv, EntryInv, TypeOK, HandlerPc
<1>24. ASSUME NEW n \in Nodes, ScanCheck(n) PROVE ScanInv'
  BY <1>24 DEF ScanCheck, Inactive, ScanInv, EntryInv, TypeOK, HandlerPc
<1>25. ASSUME NEW n \in Nodes, ScanDrop(n) PROVE ScanInv'
  BY <1>25 DEF ScanDrop, ScanInv, EntryInv, TypeOK, HandlerPc
<1>26. ASSUME NEW n \in Nodes, ScanClose(n) PROVE ScanInv'
  BY <1>26 DEF ScanClose, CloseSoon, ScanInv, EntryInv, TypeOK, HandlerPc
<1>27. ASSUME NEW n \in Nodes, Crash(n) PROVE ScanInv'
  BY <1>27 DEF Crash, ScanInv, EntryInv, TypeOK, HandlerPc
<1>28. CASE UNCHANGED vars
  BY <1>28 DEF ScanInv, EntryInv, TypeOK, HandlerPc
<1> QED
  BY <1>1, <1>2, <1>3, <1>4, <1>5, <1>6, <1>7, <1>8, <1>9, <1>10, <1>11, <1>12, <1>13, <1>14, <1>15, <1>16, <1>17, <1>18, <1>19, <1>20, <1>21, <1>22, <1>23, <1>24, <1>25, <1>26, <1>27, <1>28 DEF Next, Step, Event, Scan, RunClose

\* Entries are put by the channel they name, after its attributes are set.
LEMMA EntryStep ==
  ASSUME TypeOK, EntryInv, HandlerInv, [Next]_vars PROVE EntryInv'
<1> USE ConstantsAssumption
<1>1. ASSUME NEW c \in Channels, CheckHandshaker(c) PROVE EntryInv'
  BY <1>1 DEF CheckHandshaker, Goto, EntryInv, HandlerInv, TypeOK, HandlerPc
<1>2. ASSUME NEW c \in Channels, AddOnline(c) PROVE EntryInv'
  BY <1>2 DEF AddOnline, Goto, MarkUp, EntryInv, HandlerInv, TypeOK, HandlerPc
<1>3. ASSUME NEW c \in Channels, AddOnlineFails(c) PROVE EntryInv'
  <2>1. CASE MarkUp(c)
    BY <1>3, <2>1 DEF AddOnlineFails, Goto, MarkUp, EntryInv, HandlerInv, TypeOK, HandlerPc
  <2>2. CASE UNCHANGED <<online, history>>
    BY <1>3, <2>2 DEF AddOnlineFails, Goto, MarkUp, EntryInv, HandlerInv, TypeOK, HandlerPc
  <2> QED BY <1>3, <2>1, <2>2 DEF AddOnlineFails
<1>4. ASSUME NEW c \in Channels, Handshake(c) PROVE EntryInv'
  <2>1. CASE CloseNow(c)
    BY <1>4, <2>1 DEF Handshake, Goto, SetAttributes, CloseNow, EntryInv, HandlerInv, TypeOK, HandlerPc
  <2>2. CASE UNCHANGED <<conn, closeReq, channelGroup>>
    BY <1>4, <2>2 DEF Handshake, Goto, SetAttributes, CloseNow, EntryInv, HandlerInv, TypeOK, HandlerPc
  <2> QED BY <1>4, <2>1, <2>2 DEF Handshake
<1>5. ASSUME NEW c \in Channels, HandshakeFails(c) PROVE EntryInv'
  BY <1>5 DEF HandshakeFails, Goto, SetAttributes, EntryInv, HandlerInv, TypeOK, HandlerPc
<1>6. ASSUME NEW c \in Channels, JoinGroup(c) PROVE EntryInv'
  BY <1>6 DEF JoinGroup, Goto, EntryInv, HandlerInv, TypeOK, HandlerPc
<1>7. ASSUME NEW c \in Channels, PutMap(c) PROVE EntryInv'
  BY <1>7 DEF PutMap, Goto, EntryInv, HandlerInv, TypeOK, HandlerPc
<1>8. ASSUME NEW c \in Channels, ChannelInactive(c) PROVE EntryInv'
  BY <1>8 DEF ChannelInactive, Goto, EntryInv, HandlerInv, TypeOK, HandlerPc
<1>9. ASSUME NEW c \in Channels, ClearOnline(c) PROVE EntryInv'
  BY <1>9 DEF ClearOnline, Goto, RemoveOnline, EntryInv, HandlerInv, TypeOK, HandlerPc
<1>10. ASSUME NEW c \in Channels, ClearOnlineFails(c) PROVE EntryInv'
  <2>1. CASE RemoveOnline(c)
    BY <1>10, <2>1 DEF ClearOnlineFails, Goto, RemoveOnline, CloseNow, EntryInv, HandlerInv, TypeOK, HandlerPc
  <2>2. CASE UNCHANGED <<online, session>>
    BY <1>10, <2>2 DEF ClearOnlineFails, Goto, RemoveOnline, CloseNow, EntryInv, HandlerInv, TypeOK, HandlerPc
  <2> QED BY <1>10, <2>1, <2>2 DEF ClearOnlineFails
<1>11. ASSUME NEW c \in Channels, ClearGroup(c) PROVE EntryInv'
  BY <1>11 DEF ClearGroup, Goto, EntryInv, HandlerInv, TypeOK, HandlerPc
<1>12. ASSUME NEW c \in Channels, ClearMap(c) PROVE EntryInv'
  <2>1. CASE userId[c] = NoUser
    <3>1. CloseNow(c) /\ UNCHANGED channelMap
      BY <1>12, <2>1 DEF ClearMap
    <3> QED BY <1>12, <2>1, <3>1 DEF ClearMap, Goto, CloseNow, EntryInv, HandlerInv, TypeOK, HandlerPc
  <2>2. CASE userId[c] # NoUser
    <3>1. /\ channelMap' = [channelMap EXCEPT ![NodeOf[c]][userId[c]] = NoChannel]
          /\ UNCHANGED <<conn, closeReq, channelGroup>>
      BY <1>12, <2>2 DEF ClearMap
    <3> QED BY <1>12, <2>2, <3>1 DEF ClearMap, Goto, CloseNow, EntryInv, HandlerInv, TypeOK, HandlerPc
  <2> QED BY <1>12, <2>1, <2>2 DEF ClearMap
<1>13. ASSUME NEW c \in Channels, Accept(c) PROVE EntryInv'
  BY <1>13 DEF Accept, EntryInv, HandlerInv, TypeOK, HandlerPc
<1>14. ASSUME NEW c \in Channels, PeerClose(c) PROVE EntryInv'
  BY <1>14 DEF PeerClose, CloseNow, EntryInv, HandlerInv, TypeOK, HandlerPc
<1>15. ASSUME NEW c \in Channels, GoStale(c) PROVE EntryInv'
  BY <1>15 DEF GoStale, EntryInv, HandlerInv, TypeOK, HandlerPc
<1>16. ASSUME NEW c \in Channels, PlainRequest(c) PROVE EntryInv'
  BY <1>16 DEF PlainRequest, CloseSoon, Receives, EntryInv, HandlerInv, TypeOK, HandlerPc
<1>17. ASSUME NEW c \in Channels, NEW v \in Versions, NewHandshaker(c, v) PROVE EntryInv'
  BY <1>17 DEF NewHandshaker, Goto, Receives, EntryInv, HandlerInv, TypeOK, HandlerPc
<1>18. ASSUME NEW c \in Channels, Pong(c) PROVE EntryInv'
  BY <1>18 DEF Pong, Receives, EntryInv, HandlerInv, TypeOK, HandlerPc
<1>19. ASSUME NEW c \in Channels, CloseFrame(c) PROVE EntryInv'
  <2>1. CASE CloseNow(c)
    BY <1>19, <2>1 DEF CloseFrame, Goto, CloseNow, CloseSoon, Receives, EntryInv, HandlerInv, TypeOK, HandlerPc
  <2>2. CASE CloseSoon(c) /\ UNCHANGED <<conn, channelGroup>>
    BY <1>19, <2>2 DEF CloseFrame, Goto, CloseNow, CloseSoon, Receives, EntryInv, HandlerInv, TypeOK, HandlerPc
  <2> QED BY <1>19, <2>1, <2>2 DEF CloseFrame
<1>20. ASSUME NEW c \in Channels, FrameThrows(c) PROVE EntryInv'
  BY <1>20 DEF FrameThrows, CloseNow, Receives, EntryInv, HandlerInv, TypeOK, HandlerPc
<1>21. ASSUME NEW n \in Nodes, ScanStart(n) PROVE EntryInv'
  BY <1>21 DEF ScanStart, EntryInv, HandlerInv, TypeOK, HandlerPc
<1>22. ASSUME NEW n \in Nodes, ScanNext(n) PROVE EntryInv'
  <2>1. PICK u \in scanTodo[n] :
          /\ scanTodo' = [scanTodo EXCEPT ![n] = @ \ {u}]
          /\ IF channelMap[n][u] = NoChannel
             THEN UNCHANGED <<scanPc, scanCur>>
             ELSE /\ scanCur' = [scanCur EXCEPT ![n] = channelMap[n][u]]
                  /\ scanPc' = [scanPc EXCEPT ![n] = "check"]
    BY <1>22 DEF ScanNext
  <2>2. u \in Users /\ channelMap[n][u] \in Channels \cup {NoChannel}
    BY <2>1 DEF TypeOK
  <2>3. CASE channelMap[n][u] = NoChannel
    <3>1. UNCHANGED <<scanPc, scanCur>>
      BY <2>1, <2>3
    <3> QED BY <1>22, <2>1, <3>1 DEF ScanNext, EntryInv, HandlerInv, TypeOK, HandlerPc
  <2>4. CASE channelMap[n][u] # NoChannel
    <3>1. /\ scanCur' = [scanCur EXCEPT ![n] = channelMap[n][u]]
          /\ scanPc' = [scanPc EXCEPT ![n] = "check"]
      BY <2>1, <2>4
    <3> QED BY <1>22, <2>1, <2>2, <2>4, <3>1 DEF ScanNext, EntryInv, HandlerInv, TypeOK, HandlerPc
  <2> QED BY <2>3, <2>4
<1>23. ASSUME NEW n \in Nodes, ScanEnd(n) PROVE EntryInv'
  BY <1>23 DEF ScanEnd, EntryInv, HandlerInv, TypeOK, HandlerPc
<1>24. ASSUME NEW n \in Nodes, ScanCheck(n) PROVE EntryInv'
  BY <1>24 DEF ScanCheck, Inactive, EntryInv, HandlerInv, TypeOK, HandlerPc
<1>25. ASSUME NEW n \in Nodes, ScanDrop(n) PROVE EntryInv'
  BY <1>25 DEF ScanDrop, EntryInv, HandlerInv, TypeOK, HandlerPc
<1>26. ASSUME NEW n \in Nodes, ScanClose(n) PROVE EntryInv'
  BY <1>26 DEF ScanClose, CloseSoon, EntryInv, HandlerInv, TypeOK, HandlerPc
<1>27. ASSUME NEW n \in Nodes, Crash(n) PROVE EntryInv'
  BY <1>27 DEF Crash, EntryInv, HandlerInv, TypeOK, HandlerPc
<1>28. CASE UNCHANGED vars
  BY <1>28 DEF EntryInv, HandlerInv, TypeOK, HandlerPc
<1> QED
  BY <1>1, <1>2, <1>3, <1>4, <1>5, <1>6, <1>7, <1>8, <1>9, <1>10, <1>11, <1>12, <1>13, <1>14, <1>15, <1>16, <1>17, <1>18, <1>19, <1>20, <1>21, <1>22, <1>23, <1>24, <1>25, <1>26, <1>27, <1>28 DEF Next, Step, Event, Scan, RunClose

\* clearSession, when it runs to its end, removes the entry of its channel.
LEMMA DanglingStep ==
  ASSUME TypeOK, EntryInv, HandlerInv, DanglingInv, [Next]_vars PROVE DanglingInv'
<1> USE ConstantsAssumption
<1>1. ASSUME NEW c \in Channels, CheckHandshaker(c) PROVE DanglingInv'
  BY <1>1 DEF CheckHandshaker, Goto, DanglingInv, EntryInv, HandlerInv, Clearing, TypeOK, HandlerPc
<1>2. ASSUME NEW c \in Channels, AddOnline(c) PROVE DanglingInv'
  BY <1>2 DEF AddOnline, Goto, MarkUp, DanglingInv, EntryInv, HandlerInv, Clearing, TypeOK, HandlerPc
<1>3. ASSUME NEW c \in Channels, AddOnlineFails(c) PROVE DanglingInv'
  <2>1. CASE MarkUp(c)
    BY <1>3, <2>1 DEF AddOnlineFails, Goto, MarkUp, DanglingInv, EntryInv, HandlerInv, Clearing, TypeOK, HandlerPc
  <2>2. CASE UNCHANGED <<online, history>>
    BY <1>3, <2>2 DEF AddOnlineFails, Goto, MarkUp, DanglingInv, EntryInv, HandlerInv, Clearing, TypeOK, HandlerPc
  <2> QED BY <1>3, <2>1, <2>2 DEF AddOnlineFails
<1>4. ASSUME NEW c \in Channels, Handshake(c) PROVE DanglingInv'
  <2>1. CASE CloseNow(c)
    BY <1>4, <2>1 DEF Handshake, Goto, SetAttributes, CloseNow, DanglingInv, EntryInv, HandlerInv, Clearing, TypeOK, HandlerPc
  <2>2. CASE UNCHANGED <<conn, closeReq, channelGroup>>
    BY <1>4, <2>2 DEF Handshake, Goto, SetAttributes, CloseNow, DanglingInv, EntryInv, HandlerInv, Clearing, TypeOK, HandlerPc
  <2> QED BY <1>4, <2>1, <2>2 DEF Handshake
<1>5. ASSUME NEW c \in Channels, HandshakeFails(c) PROVE DanglingInv'
  BY <1>5 DEF HandshakeFails, Goto, SetAttributes, DanglingInv, EntryInv, HandlerInv, Clearing, TypeOK, HandlerPc
<1>6. ASSUME NEW c \in Channels, JoinGroup(c) PROVE DanglingInv'
  BY <1>6 DEF JoinGroup, Goto, DanglingInv, EntryInv, HandlerInv, Clearing, TypeOK, HandlerPc
<1>7. ASSUME NEW c \in Channels, PutMap(c) PROVE DanglingInv'
  BY <1>7 DEF PutMap, Goto, DanglingInv, EntryInv, HandlerInv, Clearing, TypeOK, HandlerPc
<1>8. ASSUME NEW c \in Channels, ChannelInactive(c) PROVE DanglingInv'
  BY <1>8 DEF ChannelInactive, Goto, DanglingInv, EntryInv, HandlerInv, Clearing, TypeOK, HandlerPc
<1>9. ASSUME NEW c \in Channels, ClearOnline(c) PROVE DanglingInv'
  BY <1>9 DEF ClearOnline, Goto, RemoveOnline, DanglingInv, EntryInv, HandlerInv, Clearing, TypeOK, HandlerPc
<1>10. ASSUME NEW c \in Channels, ClearOnlineFails(c) PROVE DanglingInv'
  <2>1. CASE RemoveOnline(c)
    BY <1>10, <2>1 DEF ClearOnlineFails, Goto, RemoveOnline, CloseNow, DanglingInv, EntryInv, HandlerInv, Clearing, TypeOK, HandlerPc
  <2>2. CASE UNCHANGED <<online, session>>
    BY <1>10, <2>2 DEF ClearOnlineFails, Goto, RemoveOnline, CloseNow, DanglingInv, EntryInv, HandlerInv, Clearing, TypeOK, HandlerPc
  <2> QED BY <1>10, <2>1, <2>2 DEF ClearOnlineFails
<1>11. ASSUME NEW c \in Channels, ClearGroup(c) PROVE DanglingInv'
  BY <1>11 DEF ClearGroup, Goto, DanglingInv, EntryInv, HandlerInv, Clearing, TypeOK, HandlerPc
<1>12. ASSUME NEW c \in Channels, ClearMap(c) PROVE DanglingInv'
  <2>1. CASE userId[c] = NoUser
    <3>1. CloseNow(c) /\ UNCHANGED channelMap
      BY <1>12, <2>1 DEF ClearMap
    <3> QED BY <1>12, <2>1, <3>1 DEF ClearMap, Goto, CloseNow, DanglingInv, EntryInv, HandlerInv, Clearing, TypeOK, HandlerPc
  <2>2. CASE userId[c] # NoUser
    <3>1. /\ channelMap' = [channelMap EXCEPT ![NodeOf[c]][userId[c]] = NoChannel]
          /\ UNCHANGED <<conn, closeReq, channelGroup>>
      BY <1>12, <2>2 DEF ClearMap
    <3> QED BY <1>12, <2>2, <3>1 DEF ClearMap, Goto, CloseNow, DanglingInv, EntryInv, HandlerInv, Clearing, TypeOK, HandlerPc
  <2> QED BY <1>12, <2>1, <2>2 DEF ClearMap
<1>13. ASSUME NEW c \in Channels, Accept(c) PROVE DanglingInv'
  BY <1>13 DEF Accept, DanglingInv, EntryInv, HandlerInv, Clearing, TypeOK, HandlerPc
<1>14. ASSUME NEW c \in Channels, PeerClose(c) PROVE DanglingInv'
  BY <1>14 DEF PeerClose, CloseNow, DanglingInv, EntryInv, HandlerInv, Clearing, TypeOK, HandlerPc
<1>15. ASSUME NEW c \in Channels, GoStale(c) PROVE DanglingInv'
  BY <1>15 DEF GoStale, DanglingInv, EntryInv, HandlerInv, Clearing, TypeOK, HandlerPc
<1>16. ASSUME NEW c \in Channels, PlainRequest(c) PROVE DanglingInv'
  BY <1>16 DEF PlainRequest, CloseSoon, Receives, DanglingInv, EntryInv, HandlerInv, Clearing, TypeOK, HandlerPc
<1>17. ASSUME NEW c \in Channels, NEW v \in Versions, NewHandshaker(c, v) PROVE DanglingInv'
  BY <1>17 DEF NewHandshaker, Goto, Receives, DanglingInv, EntryInv, HandlerInv, Clearing, TypeOK, HandlerPc
<1>18. ASSUME NEW c \in Channels, Pong(c) PROVE DanglingInv'
  BY <1>18 DEF Pong, Receives, DanglingInv, EntryInv, HandlerInv, Clearing, TypeOK, HandlerPc
<1>19. ASSUME NEW c \in Channels, CloseFrame(c) PROVE DanglingInv'
  <2>1. CASE CloseNow(c)
    BY <1>19, <2>1 DEF CloseFrame, Goto, CloseNow, CloseSoon, Receives, DanglingInv, EntryInv, HandlerInv, Clearing, TypeOK, HandlerPc
  <2>2. CASE CloseSoon(c) /\ UNCHANGED <<conn, channelGroup>>
    BY <1>19, <2>2 DEF CloseFrame, Goto, CloseNow, CloseSoon, Receives, DanglingInv, EntryInv, HandlerInv, Clearing, TypeOK, HandlerPc
  <2> QED BY <1>19, <2>1, <2>2 DEF CloseFrame
<1>20. ASSUME NEW c \in Channels, FrameThrows(c) PROVE DanglingInv'
  BY <1>20 DEF FrameThrows, CloseNow, Receives, DanglingInv, EntryInv, HandlerInv, Clearing, TypeOK, HandlerPc
<1>21. ASSUME NEW n \in Nodes, ScanStart(n) PROVE DanglingInv'
  BY <1>21 DEF ScanStart, DanglingInv, EntryInv, HandlerInv, Clearing, TypeOK, HandlerPc
<1>22. ASSUME NEW n \in Nodes, ScanNext(n) PROVE DanglingInv'
  <2>1. PICK u \in scanTodo[n] :
          /\ scanTodo' = [scanTodo EXCEPT ![n] = @ \ {u}]
          /\ IF channelMap[n][u] = NoChannel
             THEN UNCHANGED <<scanPc, scanCur>>
             ELSE /\ scanCur' = [scanCur EXCEPT ![n] = channelMap[n][u]]
                  /\ scanPc' = [scanPc EXCEPT ![n] = "check"]
    BY <1>22 DEF ScanNext
  <2>2. u \in Users /\ channelMap[n][u] \in Channels \cup {NoChannel}
    BY <2>1 DEF TypeOK
  <2>3. CASE channelMap[n][u] = NoChannel
    <3>1. UNCHANGED <<scanPc, scanCur>>
      BY <2>1, <2>3
    <3> QED BY <1>22, <2>1, <3>1 DEF ScanNext, DanglingInv, EntryInv, HandlerInv, Clearing, TypeOK, HandlerPc
  <2>4. CASE channelMap[n][u] # NoChannel
    <3>1. /\ scanCur' = [scanCur EXCEPT ![n] = channelMap[n][u]]
          /\ scanPc' = [scanPc EXCEPT ![n] = "check"]
      BY <2>1, <2>4
    <3> QED BY <1>22, <2>1, <2>2, <2>4, <3>1 DEF ScanNext, DanglingInv, EntryInv, HandlerInv, Clearing, TypeOK, HandlerPc
  <2> QED BY <2>3, <2>4
<1>23. ASSUME NEW n \in Nodes, ScanEnd(n) PROVE DanglingInv'
  BY <1>23 DEF ScanEnd, DanglingInv, EntryInv, HandlerInv, Clearing, TypeOK, HandlerPc
<1>24. ASSUME NEW n \in Nodes, ScanCheck(n) PROVE DanglingInv'
  BY <1>24 DEF ScanCheck, Inactive, DanglingInv, EntryInv, HandlerInv, Clearing, TypeOK, HandlerPc
<1>25. ASSUME NEW n \in Nodes, ScanDrop(n) PROVE DanglingInv'
  BY <1>25 DEF ScanDrop, DanglingInv, EntryInv, HandlerInv, Clearing, TypeOK, HandlerPc
<1>26. ASSUME NEW n \in Nodes, ScanClose(n) PROVE DanglingInv'
  BY <1>26 DEF ScanClose, CloseSoon, DanglingInv, EntryInv, HandlerInv, Clearing, TypeOK, HandlerPc
<1>27. ASSUME NEW n \in Nodes, Crash(n) PROVE DanglingInv'
  BY <1>27 DEF Crash, DanglingInv, EntryInv, HandlerInv, Clearing, TypeOK, HandlerPc
<1>28. CASE UNCHANGED vars
  BY <1>28 DEF DanglingInv, EntryInv, HandlerInv, Clearing, TypeOK, HandlerPc
<1> QED
  BY <1>1, <1>2, <1>3, <1>4, <1>5, <1>6, <1>7, <1>8, <1>9, <1>10, <1>11, <1>12, <1>13, <1>14, <1>15, <1>16, <1>17, <1>18, <1>19, <1>20, <1>21, <1>22, <1>23, <1>24, <1>25, <1>26, <1>27, <1>28 DEF Next, Step, Event, Scan, RunClose

\* Every add to the online set is matched by a removal still to come.
LEMMA OnlineStep ==
  ASSUME TypeOK, HandlerInv, OnlineInv, [Next]_vars PROVE OnlineInv'
<1> USE ConstantsAssumption
<1>1. ASSUME NEW c \in Channels, CheckHandshaker(c) PROVE OnlineInv'
  BY <1>1 DEF CheckHandshaker, Goto, OnlineInv, HandlerInv, Clearing, TypeOK, HandlerPc
<1>2. ASSUME NEW c \in Channels, AddOnline(c) PROVE OnlineInv'
  <2>1. SUFFICES ASSUME ~RedisFails, ~Crashes PROVE OnlineInv'
    BY DEF OnlineInv
  <2>2. \A u \in online' : \E d \in Channels : UserOf[d] = u /\ session'[d] = "up"
    <3>1. TAKE u \in online'
    <3>2. CASE u = UserOf[c]
      BY <1>2, <3>2 DEF AddOnline, MarkUp, TypeOK
    <3>3. CASE u # UserOf[c]
      <4>1. u \in online
        BY <1>2, <3>1, <3>3 DEF AddOnline, MarkUp
      <4>2. PICK d \in Channels : UserOf[d] = u /\ session[d] = "up"
        BY <2>1, <4>1 DEF OnlineInv
      <4>3. session'[d] = "up"
        BY <1>2, <3>3, <4>2 DEF AddOnline, MarkUp, TypeOK
      <4> QED BY <4>2, <4>3
    <3> QED BY <3>2, <3>3
  <2>3. \A d \in Channels :
          /\ conn'[d] # "lost"
          /\ session'[d] = "up" => userId'[d] = UserOf[d] \/ pc'[d] = "shake"
          /\ session'[d] = "up" /\ conn'[d] = "gone" => pc'[d] = "clrOnline"
    BY <1>2, <2>1 DEF AddOnline, Goto, MarkUp, OnlineInv, HandlerInv, Clearing, TypeOK, HandlerPc
  <2> QED BY <2>2, <2>3 DEF OnlineInv
<1>3. ASSUME NEW c \in Channels, AddOnlineFails(c) PROVE OnlineInv'
  <2>1. CASE MarkUp(c)
    BY <1>3, <2>1 DEF AddOnlineFails, Goto, MarkUp, OnlineInv, HandlerInv, Clearing, TypeOK, HandlerPc
  <2>2. CASE UNCHANGED <<online, history>>
    BY <1>3, <2>2 DEF AddOnlineFails, Goto, MarkUp, OnlineInv, HandlerInv, Clearing, TypeOK, HandlerPc
  <2> QED BY <1>3, <2>1, <2>2 DEF AddOnlineFails
<1>4. ASSUME NEW c \in Channels, Handshake(c) PROVE OnlineInv'
  <2>1. CASE CloseNow(c)
    BY <1>4, <2>1 DEF Handshake, Goto, SetAttributes, CloseNow, OnlineInv, HandlerInv, Clearing, TypeOK, HandlerPc
  <2>2. CASE UNCHANGED <<conn, closeReq, channelGroup>>
    BY <1>4, <2>2 DEF Handshake, Goto, SetAttributes, CloseNow, OnlineInv, HandlerInv, Clearing, TypeOK, HandlerPc
  <2> QED BY <1>4, <2>1, <2>2 DEF Handshake
<1>5. ASSUME NEW c \in Channels, HandshakeFails(c) PROVE OnlineInv'
  BY <1>5 DEF HandshakeFails, Goto, SetAttributes, OnlineInv, HandlerInv, Clearing, TypeOK, HandlerPc
<1>6. ASSUME NEW c \in Channels, JoinGroup(c) PROVE OnlineInv'
  BY <1>6 DEF JoinGroup, Goto, OnlineInv, HandlerInv, Clearing, TypeOK, HandlerPc
<1>7. ASSUME NEW c \in Channels, PutMap(c) PROVE OnlineInv'
  BY <1>7 DEF PutMap, Goto, OnlineInv, HandlerInv, Clearing, TypeOK, HandlerPc
<1>8. ASSUME NEW c \in Channels, ChannelInactive(c) PROVE OnlineInv'
  BY <1>8 DEF ChannelInactive, Goto, OnlineInv, HandlerInv, Clearing, TypeOK, HandlerPc
<1>9. ASSUME NEW c \in Channels, ClearOnline(c) PROVE OnlineInv'
  BY <1>9 DEF ClearOnline, Goto, RemoveOnline, OnlineInv, HandlerInv, Clearing, TypeOK, HandlerPc
<1>10. ASSUME NEW c \in Channels, ClearOnlineFails(c) PROVE OnlineInv'
  <2>1. CASE RemoveOnline(c)
    BY <1>10, <2>1 DEF ClearOnlineFails, Goto, RemoveOnline, CloseNow, OnlineInv, HandlerInv, Clearing, TypeOK, HandlerPc
  <2>2. CASE UNCHANGED <<online, session>>
    BY <1>10, <2>2 DEF ClearOnlineFails, Goto, RemoveOnline, CloseNow, OnlineInv, HandlerInv, Clearing, TypeOK, HandlerPc
  <2> QED BY <1>10, <2>1, <2>2 DEF ClearOnlineFails
<1>11. ASSUME NEW c \in Channels, ClearGroup(c) PROVE OnlineInv'
  BY <1>11 DEF ClearGroup, Goto, OnlineInv, HandlerInv, Clearing, TypeOK, HandlerPc
<1>12. ASSUME NEW c \in Channels, ClearMap(c) PROVE OnlineInv'
  <2>1. CASE userId[c] = NoUser
    <3>1. CloseNow(c) /\ UNCHANGED channelMap
      BY <1>12, <2>1 DEF ClearMap
    <3> QED BY <1>12, <2>1, <3>1 DEF ClearMap, Goto, CloseNow, OnlineInv, HandlerInv, Clearing, TypeOK, HandlerPc
  <2>2. CASE userId[c] # NoUser
    <3>1. /\ channelMap' = [channelMap EXCEPT ![NodeOf[c]][userId[c]] = NoChannel]
          /\ UNCHANGED <<conn, closeReq, channelGroup>>
      BY <1>12, <2>2 DEF ClearMap
    <3> QED BY <1>12, <2>2, <3>1 DEF ClearMap, Goto, CloseNow, OnlineInv, HandlerInv, Clearing, TypeOK, HandlerPc
  <2> QED BY <1>12, <2>1, <2>2 DEF ClearMap
<1>13. ASSUME NEW c \in Channels, Accept(c) PROVE OnlineInv'
  BY <1>13 DEF Accept, OnlineInv, HandlerInv, Clearing, TypeOK, HandlerPc
<1>14. ASSUME NEW c \in Channels, PeerClose(c) PROVE OnlineInv'
  BY <1>14 DEF PeerClose, CloseNow, OnlineInv, HandlerInv, Clearing, TypeOK, HandlerPc
<1>15. ASSUME NEW c \in Channels, GoStale(c) PROVE OnlineInv'
  BY <1>15 DEF GoStale, OnlineInv, HandlerInv, Clearing, TypeOK, HandlerPc
<1>16. ASSUME NEW c \in Channels, PlainRequest(c) PROVE OnlineInv'
  BY <1>16 DEF PlainRequest, CloseSoon, Receives, OnlineInv, HandlerInv, Clearing, TypeOK, HandlerPc
<1>17. ASSUME NEW c \in Channels, NEW v \in Versions, NewHandshaker(c, v) PROVE OnlineInv'
  BY <1>17 DEF NewHandshaker, Goto, Receives, OnlineInv, HandlerInv, Clearing, TypeOK, HandlerPc
<1>18. ASSUME NEW c \in Channels, Pong(c) PROVE OnlineInv'
  BY <1>18 DEF Pong, Receives, OnlineInv, HandlerInv, Clearing, TypeOK, HandlerPc
<1>19. ASSUME NEW c \in Channels, CloseFrame(c) PROVE OnlineInv'
  <2>1. CASE CloseNow(c)
    BY <1>19, <2>1 DEF CloseFrame, Goto, CloseNow, CloseSoon, Receives, OnlineInv, HandlerInv, Clearing, TypeOK, HandlerPc
  <2>2. CASE CloseSoon(c) /\ UNCHANGED <<conn, channelGroup>>
    BY <1>19, <2>2 DEF CloseFrame, Goto, CloseNow, CloseSoon, Receives, OnlineInv, HandlerInv, Clearing, TypeOK, HandlerPc
  <2> QED BY <1>19, <2>1, <2>2 DEF CloseFrame
<1>20. ASSUME NEW c \in Channels, FrameThrows(c) PROVE OnlineInv'
  BY <1>20 DEF FrameThrows, CloseNow, Receives, OnlineInv, HandlerInv, Clearing, TypeOK, HandlerPc
<1>21. ASSUME NEW n \in Nodes, ScanStart(n) PROVE OnlineInv'
  BY <1>21 DEF ScanStart, OnlineInv, HandlerInv, Clearing, TypeOK, HandlerPc
<1>22. ASSUME NEW n \in Nodes, ScanNext(n) PROVE OnlineInv'
  <2>1. PICK u \in scanTodo[n] :
          /\ scanTodo' = [scanTodo EXCEPT ![n] = @ \ {u}]
          /\ IF channelMap[n][u] = NoChannel
             THEN UNCHANGED <<scanPc, scanCur>>
             ELSE /\ scanCur' = [scanCur EXCEPT ![n] = channelMap[n][u]]
                  /\ scanPc' = [scanPc EXCEPT ![n] = "check"]
    BY <1>22 DEF ScanNext
  <2>2. u \in Users /\ channelMap[n][u] \in Channels \cup {NoChannel}
    BY <2>1 DEF TypeOK
  <2>3. CASE channelMap[n][u] = NoChannel
    <3>1. UNCHANGED <<scanPc, scanCur>>
      BY <2>1, <2>3
    <3> QED BY <1>22, <2>1, <3>1 DEF ScanNext, OnlineInv, HandlerInv, Clearing, TypeOK, HandlerPc
  <2>4. CASE channelMap[n][u] # NoChannel
    <3>1. /\ scanCur' = [scanCur EXCEPT ![n] = channelMap[n][u]]
          /\ scanPc' = [scanPc EXCEPT ![n] = "check"]
      BY <2>1, <2>4
    <3> QED BY <1>22, <2>1, <2>2, <2>4, <3>1 DEF ScanNext, OnlineInv, HandlerInv, Clearing, TypeOK, HandlerPc
  <2> QED BY <2>3, <2>4
<1>23. ASSUME NEW n \in Nodes, ScanEnd(n) PROVE OnlineInv'
  BY <1>23 DEF ScanEnd, OnlineInv, HandlerInv, Clearing, TypeOK, HandlerPc
<1>24. ASSUME NEW n \in Nodes, ScanCheck(n) PROVE OnlineInv'
  BY <1>24 DEF ScanCheck, Inactive, OnlineInv, HandlerInv, Clearing, TypeOK, HandlerPc
<1>25. ASSUME NEW n \in Nodes, ScanDrop(n) PROVE OnlineInv'
  BY <1>25 DEF ScanDrop, OnlineInv, HandlerInv, Clearing, TypeOK, HandlerPc
<1>26. ASSUME NEW n \in Nodes, ScanClose(n) PROVE OnlineInv'
  BY <1>26 DEF ScanClose, CloseSoon, OnlineInv, HandlerInv, Clearing, TypeOK, HandlerPc
<1>27. ASSUME NEW n \in Nodes, Crash(n) PROVE OnlineInv'
  BY <1>27 DEF Crash, OnlineInv, HandlerInv, Clearing, TypeOK, HandlerPc
<1>28. CASE UNCHANGED vars
  BY <1>28 DEF OnlineInv, HandlerInv, Clearing, TypeOK, HandlerPc
<1> QED
  BY <1>1, <1>2, <1>3, <1>4, <1>5, <1>6, <1>7, <1>8, <1>9, <1>10, <1>11, <1>12, <1>13, <1>14, <1>15, <1>16, <1>17, <1>18, <1>19, <1>20, <1>21, <1>22, <1>23, <1>24, <1>25, <1>26, <1>27, <1>28 DEF Next, Step, Event, Scan, RunClose

\* AddOnline marks both sides of an overlap.
LEMMA RivalStep ==
  ASSUME TypeOK, HandlerInv, RivalInv, [Next]_vars PROVE RivalInv'
<1> USE ConstantsAssumption
<1>1. ASSUME NEW c \in Channels, CheckHandshaker(c) PROVE RivalInv'
  BY <1>1 DEF CheckHandshaker, Goto, RivalInv, HandlerInv, Clearing, Over, Overlapping, TypeOK, HandlerPc
<1>2. ASSUME NEW c \in Channels, AddOnline(c) PROVE RivalInv'
  BY <1>2 DEF AddOnline, Goto, MarkUp, RivalInv, HandlerInv, Clearing, Over, Overlapping, TypeOK, HandlerPc
<1>3. ASSUME NEW c \in Channels, AddOnlineFails(c) PROVE RivalInv'
  <2>1. CASE MarkUp(c)
    BY <1>3, <2>1 DEF AddOnlineFails, Goto, MarkUp, RivalInv, HandlerInv, Clearing, Over, Overlapping, TypeOK, HandlerPc
  <2>2. CASE UNCHANGED <<online, history>>
    BY <1>3, <2>2 DEF AddOnlineFails, Goto, MarkUp, RivalInv, HandlerInv, Clearing, Over, Overlapping, TypeOK, HandlerPc
  <2> QED BY <1>3, <2>1, <2>2 DEF AddOnlineFails
<1>4. ASSUME NEW c \in Channels, Handshake(c) PROVE RivalInv'
  <2>1. CASE CloseNow(c)
    BY <1>4, <2>1 DEF Handshake, Goto, SetAttributes, CloseNow, RivalInv, HandlerInv, Clearing, Over, Overlapping, TypeOK, HandlerPc
  <2>2. CASE UNCHANGED <<conn, closeReq, channelGroup>>
    BY <1>4, <2>2 DEF Handshake, Goto, SetAttributes, CloseNow, RivalInv, HandlerInv, Clearing, Over, Overlapping, TypeOK, HandlerPc
  <2> QED BY <1>4, <2>1, <2>2 DEF Handshake
<1>5. ASSUME NEW c \in Channels, HandshakeFails(c) PROVE RivalInv'
  BY <1>5 DEF HandshakeFails, Goto, SetAttributes, RivalInv, HandlerInv, Clearing, Over, Overlapping, TypeOK, HandlerPc
<1>6. ASSUME NEW c \in Channels, JoinGroup(c) PROVE RivalInv'
  BY <1>6 DEF JoinGroup, Goto, RivalInv, HandlerInv, Clearing, Over, Overlapping, TypeOK, HandlerPc
<1>7. ASSUME NEW c \in Channels, PutMap(c) PROVE RivalInv'
  BY <1>7 DEF PutMap, Goto, RivalInv, HandlerInv, Clearing, Over, Overlapping, TypeOK, HandlerPc
<1>8. ASSUME NEW c \in Channels, ChannelInactive(c) PROVE RivalInv'
  BY <1>8 DEF ChannelInactive, Goto, RivalInv, HandlerInv, Clearing, Over, Overlapping, TypeOK, HandlerPc
<1>9. ASSUME NEW c \in Channels, ClearOnline(c) PROVE RivalInv'
  BY <1>9 DEF ClearOnline, Goto, RemoveOnline, RivalInv, HandlerInv, Clearing, Over, Overlapping, TypeOK, HandlerPc
<1>10. ASSUME NEW c \in Channels, ClearOnlineFails(c) PROVE RivalInv'
  <2>1. CASE RemoveOnline(c)
    BY <1>10, <2>1 DEF ClearOnlineFails, Goto, RemoveOnline, CloseNow, RivalInv, HandlerInv, Clearing, Over, Overlapping, TypeOK, HandlerPc
  <2>2. CASE UNCHANGED <<online, session>>
    BY <1>10, <2>2 DEF ClearOnlineFails, Goto, RemoveOnline, CloseNow, RivalInv, HandlerInv, Clearing, Over, Overlapping, TypeOK, HandlerPc
  <2> QED BY <1>10, <2>1, <2>2 DEF ClearOnlineFails
<1>11. ASSUME NEW c \in Channels, ClearGroup(c) PROVE RivalInv'
  BY <1>11 DEF ClearGroup, Goto, RivalInv, HandlerInv, Clearing, Over, Overlapping, TypeOK, HandlerPc
<1>12. ASSUME NEW c \in Channels, ClearMap(c) PROVE RivalInv'
  <2>1. CASE userId[c] = NoUser
    <3>1. CloseNow(c) /\ UNCHANGED channelMap
      BY <1>12, <2>1 DEF ClearMap
    <3> QED BY <1>12, <2>1, <3>1 DEF ClearMap, Goto, CloseNow, RivalInv, HandlerInv, Clearing, Over, Overlapping, TypeOK, HandlerPc
  <2>2. CASE userId[c] # NoUser
    <3>1. /\ channelMap' = [channelMap EXCEPT ![NodeOf[c]][userId[c]] = NoChannel]
          /\ UNCHANGED <<conn, closeReq, channelGroup>>
      BY <1>12, <2>2 DEF ClearMap
    <3> QED BY <1>12, <2>2, <3>1 DEF ClearMap, Goto, CloseNow, RivalInv, HandlerInv, Clearing, Over, Overlapping, TypeOK, HandlerPc
  <2> QED BY <1>12, <2>1, <2>2 DEF ClearMap
<1>13. ASSUME NEW c \in Channels, Accept(c) PROVE RivalInv'
  BY <1>13 DEF Accept, RivalInv, HandlerInv, Clearing, Over, Overlapping, TypeOK, HandlerPc
<1>14. ASSUME NEW c \in Channels, PeerClose(c) PROVE RivalInv'
  BY <1>14 DEF PeerClose, CloseNow, RivalInv, HandlerInv, Clearing, Over, Overlapping, TypeOK, HandlerPc
<1>15. ASSUME NEW c \in Channels, GoStale(c) PROVE RivalInv'
  BY <1>15 DEF GoStale, RivalInv, HandlerInv, Clearing, Over, Overlapping, TypeOK, HandlerPc
<1>16. ASSUME NEW c \in Channels, PlainRequest(c) PROVE RivalInv'
  BY <1>16 DEF PlainRequest, CloseSoon, Receives, RivalInv, HandlerInv, Clearing, Over, Overlapping, TypeOK, HandlerPc
<1>17. ASSUME NEW c \in Channels, NEW v \in Versions, NewHandshaker(c, v) PROVE RivalInv'
  BY <1>17 DEF NewHandshaker, Goto, Receives, RivalInv, HandlerInv, Clearing, Over, Overlapping, TypeOK, HandlerPc
<1>18. ASSUME NEW c \in Channels, Pong(c) PROVE RivalInv'
  BY <1>18 DEF Pong, Receives, RivalInv, HandlerInv, Clearing, Over, Overlapping, TypeOK, HandlerPc
<1>19. ASSUME NEW c \in Channels, CloseFrame(c) PROVE RivalInv'
  <2>1. CASE CloseNow(c)
    BY <1>19, <2>1 DEF CloseFrame, Goto, CloseNow, CloseSoon, Receives, RivalInv, HandlerInv, Clearing, Over, Overlapping, TypeOK, HandlerPc
  <2>2. CASE CloseSoon(c) /\ UNCHANGED <<conn, channelGroup>>
    BY <1>19, <2>2 DEF CloseFrame, Goto, CloseNow, CloseSoon, Receives, RivalInv, HandlerInv, Clearing, Over, Overlapping, TypeOK, HandlerPc
  <2> QED BY <1>19, <2>1, <2>2 DEF CloseFrame
<1>20. ASSUME NEW c \in Channels, FrameThrows(c) PROVE RivalInv'
  BY <1>20 DEF FrameThrows, CloseNow, Receives, RivalInv, HandlerInv, Clearing, Over, Overlapping, TypeOK, HandlerPc
<1>21. ASSUME NEW n \in Nodes, ScanStart(n) PROVE RivalInv'
  BY <1>21 DEF ScanStart, RivalInv, HandlerInv, Clearing, Over, Overlapping, TypeOK, HandlerPc
<1>22. ASSUME NEW n \in Nodes, ScanNext(n) PROVE RivalInv'
  <2>1. PICK u \in scanTodo[n] :
          /\ scanTodo' = [scanTodo EXCEPT ![n] = @ \ {u}]
          /\ IF channelMap[n][u] = NoChannel
             THEN UNCHANGED <<scanPc, scanCur>>
             ELSE /\ scanCur' = [scanCur EXCEPT ![n] = channelMap[n][u]]
                  /\ scanPc' = [scanPc EXCEPT ![n] = "check"]
    BY <1>22 DEF ScanNext
  <2>2. u \in Users /\ channelMap[n][u] \in Channels \cup {NoChannel}
    BY <2>1 DEF TypeOK
  <2>3. CASE channelMap[n][u] = NoChannel
    <3>1. UNCHANGED <<scanPc, scanCur>>
      BY <2>1, <2>3
    <3> QED BY <1>22, <2>1, <3>1 DEF ScanNext, RivalInv, HandlerInv, Clearing, Over, Overlapping, TypeOK, HandlerPc
  <2>4. CASE channelMap[n][u] # NoChannel
    <3>1. /\ scanCur' = [scanCur EXCEPT ![n] = channelMap[n][u]]
          /\ scanPc' = [scanPc EXCEPT ![n] = "check"]
      BY <2>1, <2>4
    <3> QED BY <1>22, <2>1, <2>2, <2>4, <3>1 DEF ScanNext, RivalInv, HandlerInv, Clearing, Over, Overlapping, TypeOK, HandlerPc
  <2> QED BY <2>3, <2>4
<1>23. ASSUME NEW n \in Nodes, ScanEnd(n) PROVE RivalInv'
  BY <1>23 DEF ScanEnd, RivalInv, HandlerInv, Clearing, Over, Overlapping, TypeOK, HandlerPc
<1>24. ASSUME NEW n \in Nodes, ScanCheck(n) PROVE RivalInv'
  BY <1>24 DEF ScanCheck, Inactive, RivalInv, HandlerInv, Clearing, Over, Overlapping, TypeOK, HandlerPc
<1>25. ASSUME NEW n \in Nodes, ScanDrop(n) PROVE RivalInv'
  BY <1>25 DEF ScanDrop, RivalInv, HandlerInv, Clearing, Over, Overlapping, TypeOK, HandlerPc
<1>26. ASSUME NEW n \in Nodes, ScanClose(n) PROVE RivalInv'
  BY <1>26 DEF ScanClose, CloseSoon, RivalInv, HandlerInv, Clearing, Over, Overlapping, TypeOK, HandlerPc
<1>27. ASSUME NEW n \in Nodes, Crash(n) PROVE RivalInv'
  BY <1>27 DEF Crash, RivalInv, HandlerInv, Clearing, Over, Overlapping, TypeOK, HandlerPc
<1>28. CASE UNCHANGED vars
  BY <1>28 DEF RivalInv, HandlerInv, Clearing, Over, Overlapping, TypeOK, HandlerPc
<1> QED
  BY <1>1, <1>2, <1>3, <1>4, <1>5, <1>6, <1>7, <1>8, <1>9, <1>10, <1>11, <1>12, <1>13, <1>14, <1>15, <1>16, <1>17, <1>18, <1>19, <1>20, <1>21, <1>22, <1>23, <1>24, <1>25, <1>26, <1>27, <1>28 DEF Next, Step, Event, Scan, RunClose

\* Only a rival's teardown or login could undo a session, and it has none.
LEMMA SoleStep ==
  ASSUME TypeOK, HandlerInv, ScanInv, EntryInv, RivalInv, SoleInv, [Next]_vars PROVE SoleInv'
<1> USE ConstantsAssumption
<1>1. ASSUME NEW c \in Channels, CheckHandshaker(c) PROVE SoleInv'
  BY <1>1 DEF CheckHandshaker, Goto, SoleInv, Sole, InGroup, Mapped, HandlerInv, ScanInv, EntryInv, RivalInv, Clearing, Over, Overlapping, TypeOK, HandlerPc
<1>2. ASSUME NEW c \in Channels, AddOnline(c) PROVE SoleInv'
  BY <1>2 DEF AddOnline, Goto, MarkUp, SoleInv, Sole, InGroup, Mapped, HandlerInv, ScanInv, EntryInv, RivalInv, Clearing, Over, Overlapping, TypeOK, HandlerPc
<1>3. ASSUME NEW c \in Channels, AddOnlineFails(c) PROVE SoleInv'
  <2>1. CASE MarkUp(c)
    BY <1>3, <2>1 DEF AddOnlineFails, Goto, MarkUp, SoleInv, Sole, InGroup, Mapped, HandlerInv, ScanInv, EntryInv, RivalInv, Clearing, Over, Overlapping, TypeOK, HandlerPc
  <2>2. CASE UNCHANGED <<online, history>>
    BY <1>3, <2>2 DEF AddOnlineFails, Goto, MarkUp, SoleInv, Sole, InGroup, Mapped, HandlerInv, ScanInv, EntryInv, RivalInv, Clearing, Over, Overlapping, TypeOK, HandlerPc
  <2> QED BY <1>3, <2>1, <2>2 DEF AddOnlineFails
<1>4. ASSUME NEW c \in Channels, Handshake(c) PROVE SoleInv'
  <2>1. CASE CloseNow(c)
    BY <1>4, <2>1 DEF Handshake, Goto, SetAttributes, CloseNow, SoleInv, Sole, InGroup, Mapped, HandlerInv, ScanInv, EntryInv, RivalInv, Clearing, Over, Overlapping, TypeOK, HandlerPc
  <2>2. CASE UNCHANGED <<conn, closeReq, channelGroup>>
    BY <1>4, <2>2 DEF Handshake, Goto, SetAttributes, CloseNow, SoleInv, Sole, InGroup, Mapped, HandlerInv, ScanInv, EntryInv, RivalInv, Clearing, Over, Overlapping, TypeOK, HandlerPc
  <2> QED BY <1>4, <2>1, <2>2 DEF Handshake
<1>5. ASSUME NEW c \in Channels, HandshakeFails(c) PROVE SoleInv'
  BY <1>5 DEF HandshakeFails, Goto, SetAttributes, SoleInv, Sole, InGroup, Mapped, HandlerInv, ScanInv, EntryInv, RivalInv, Clearing, Over, Overlapping, TypeOK, HandlerPc
<1>6. ASSUME NEW c \in Channels, JoinGroup(c) PROVE SoleInv'
  BY <1>6 DEF JoinGroup, Goto, SoleInv, Sole, InGroup, Mapped, HandlerInv, ScanInv, EntryInv, RivalInv, Clearing, Over, Overlapping, TypeOK, HandlerPc
<1>7. ASSUME NEW c \in Channels, PutMap(c) PROVE SoleInv'
  BY <1>7 DEF PutMap, Goto, SoleInv, Sole, InGroup, Mapped, HandlerInv, ScanInv, EntryInv, RivalInv, Clearing, Over, Overlapping, TypeOK, HandlerPc
<1>8. ASSUME NEW c \in Channels, ChannelInactive(c) PROVE SoleInv'
  BY <1>8 DEF ChannelInactive, Goto, SoleInv, Sole, InGroup, Mapped, HandlerInv, ScanInv, EntryInv, RivalInv, Clearing, Over, Overlapping, TypeOK, HandlerPc
<1>9. ASSUME NEW c \in Channels, ClearOnline(c) PROVE SoleInv'
  <2>1. pc[c] = "clrOnline" /\ ~Over(c)
    BY <1>9 DEF ClearOnline, HandlerInv, Over
  <2>2. ASSUME NEW d \in Channels, d # c, Sole(d) PROVE UserOf[d] # userId[c]
    BY <2>1, <2>2 DEF Sole, RivalInv, HandlerInv, TypeOK
  <2>3. ASSUME NEW d \in Channels, d # c, Sole(d)' PROVE Sole(d)
    BY <1>9, <2>3 DEF ClearOnline, Goto, RemoveOnline, Sole, Over, TypeOK
  <2> QED BY <1>9, <2>1, <2>2, <2>3 DEF ClearOnline, Goto, RemoveOnline, SoleInv, Sole, InGroup, Mapped, HandlerInv, ScanInv, EntryInv, RivalInv, Clearing, Over, Overlapping, TypeOK, HandlerPc
<1>10. ASSUME NEW c \in Channels, ClearOnlineFails(c) PROVE SoleInv'
  <2>1. pc[c] = "clrOnline" /\ ~Over(c)
    BY <1>10 DEF ClearOnlineFails, HandlerInv, Over
  <2>2. ASSUME NEW d \in Channels, d # c, Sole(d) PROVE UserOf[d] # userId[c]
    BY <2>1, <2>2 DEF Sole, RivalInv, HandlerInv, TypeOK
  <2>3. ASSUME NEW d \in Channels, d # c, Sole(d)' PROVE Sole(d)
    <3>1. CASE RemoveOnline(c)
      BY <1>10, <2>3, <3>1 DEF ClearOnlineFails, Goto, RemoveOnline, CloseNow, Sole, Over, TypeOK
    <3>2. CASE UNCHANGED <<online, session>>
      BY <1>10, <2>3, <3>2 DEF ClearOnlineFails, Goto, CloseNow, Sole, Over, TypeOK
    <3> QED BY <1>10, <3>1, <3>2 DEF ClearOnlineFails
  <2>4. CASE RemoveOnline(c)
    BY <1>10, <2>1, <2>2, <2>3, <2>4 DEF ClearOnlineFails, Goto, RemoveOnline, CloseNow, SoleInv, Sole, InGroup, Mapped, HandlerInv, ScanInv, EntryInv, RivalInv, Clearing, Over, Overlapping, TypeOK, HandlerPc
  <2>5. CASE UNCHANGED <<online, session>>
    BY <1>10, <2>1, <2>2, <2>3, <2>5 DEF ClearOnlineFails, Goto, RemoveOnline, CloseNow, SoleInv, Sole, InGroup, Mapped, HandlerInv, ScanInv, EntryInv, RivalInv, Clearing, Over, Overlapping, TypeOK, HandlerPc
  <2> QED BY <1>10, <2>4, <2>5 DEF ClearOnlineFails
<1>11. ASSUME NEW c \in Channels, ClearGroup(c) PROVE SoleInv'
  BY <1>11 DEF ClearGroup, Goto, SoleInv, Sole, InGroup, Mapped, HandlerInv, ScanInv, EntryInv, RivalInv, Clearing, Over, Overlapping, TypeOK, HandlerPc
<1>12. ASSUME NEW c \in Channels, ClearMap(c) PROVE SoleInv'
  <2>1. CASE userId[c] = NoUser
    <3>1. CloseNow(c) /\ UNCHANGED channelMap
      BY <1>12, <2>1 DEF ClearMap
    <3> QED BY <1>12, <2>1, <3>1 DEF ClearMap, Goto, CloseNow, SoleInv, Sole, InGroup, Mapped, HandlerInv, ScanInv, EntryInv, RivalInv, Clearing, Over, Overlapping, TypeOK, HandlerPc
  <2>2. CASE userId[c] # NoUser
    <3>1. /\ channelMap' = [channelMap EXCEPT ![NodeOf[c]][userId[c]] = NoChannel]
          /\ UNCHANGED <<conn, closeReq, channelGroup>>
      BY <1>12, <2>2 DEF ClearMap
    <3> QED BY <1>12, <2>2, <3>1 DEF ClearMap, Goto, CloseNow, SoleInv, Sole, InGroup, Mapped, HandlerInv, ScanInv, EntryInv, RivalInv, Clearing, Over, Overlapping, TypeOK, HandlerPc
  <2> QED BY <1>12, <2>1, <2>2 DEF ClearMap
<1>13. ASSUME NEW c \in Channels, Accept(c) PROVE SoleInv'
  BY <1>13 DEF Accept, SoleInv, Sole, InGroup, Mapped, HandlerInv, ScanInv, EntryInv, RivalInv, Clearing, Over, Overlapping, TypeOK, HandlerPc
<1>14. ASSUME NEW c \in Channels, PeerClose(c) PROVE SoleInv'
  BY <1>14 DEF PeerClose, CloseNow, SoleInv, Sole, InGroup, Mapped, HandlerInv, ScanInv, EntryInv, RivalInv, Clearing, Over, Overlapping, TypeOK, HandlerPc
<1>15. ASSUME NEW c \in Channels, GoStale(c) PROVE SoleInv'
  BY <1>15 DEF GoStale, SoleInv, Sole, InGroup, Mapped, HandlerInv, ScanInv, EntryInv, RivalInv, Clearing, Over, Overlapping, TypeOK, HandlerPc
<1>16. ASSUME NEW c \in Channels, PlainRequest(c) PROVE SoleInv'
  BY <1>16 DEF PlainRequest, CloseSoon, Receives, SoleInv, Sole, InGroup, Mapped, HandlerInv, ScanInv, EntryInv, RivalInv, Clearing, Over, Overlapping, TypeOK, HandlerPc
<1>17. ASSUME NEW c \in Channels, NEW v \in Versions, NewHandshaker(c, v) PROVE SoleInv'
  BY <1>17 DEF NewHandshaker, Goto, Receives, SoleInv, Sole, InGroup, Mapped, HandlerInv, ScanInv, EntryInv, RivalInv, Clearing, Over, Overlapping, TypeOK, HandlerPc
<1>18. ASSUME NEW c \in Channels, Pong(c) PROVE SoleInv'
  BY <1>18 DEF Pong, Receives, SoleInv, Sole, InGroup, Mapped, HandlerInv, ScanInv, EntryInv, RivalInv, Clearing, Over, Overlapping, TypeOK, HandlerPc
<1>19. ASSUME NEW c \in Channels, CloseFrame(c) PROVE SoleInv'
  <2>1. CASE CloseNow(c)
    BY <1>19, <2>1 DEF CloseFrame, Goto, CloseNow, CloseSoon, Receives, SoleInv, Sole, InGroup, Mapped, HandlerInv, ScanInv, EntryInv, RivalInv, Clearing, Over, Overlapping, TypeOK, HandlerPc
  <2>2. CASE CloseSoon(c) /\ UNCHANGED <<conn, channelGroup>>
    BY <1>19, <2>2 DEF CloseFrame, Goto, CloseNow, CloseSoon, Receives, SoleInv, Sole, InGroup, Mapped, HandlerInv, ScanInv, EntryInv, RivalInv, Clearing, Over, Overlapping, TypeOK, HandlerPc
  <2> QED BY <1>19, <2>1, <2>2 DEF CloseFrame
<1>20. ASSUME NEW c \in Channels, FrameThrows(c) PROVE SoleInv'
  BY <1>20 DEF FrameThrows, CloseNow, Receives, SoleInv, Sole, InGroup, Mapped, HandlerInv, ScanInv, EntryInv, RivalInv, Clearing, Over, Overlapping, TypeOK, HandlerPc
<1>21. ASSUME NEW n \in Nodes, ScanStart(n) PROVE SoleInv'
  BY <1>21 DEF ScanStart, SoleInv, Sole, InGroup, Mapped, HandlerInv, ScanInv, EntryInv, RivalInv, Clearing, Over, Overlapping, TypeOK, HandlerPc
<1>22. ASSUME NEW n \in Nodes, ScanNext(n) PROVE SoleInv'
  <2>1. PICK u \in scanTodo[n] :
          /\ scanTodo' = [scanTodo EXCEPT ![n] = @ \ {u}]
          /\ IF channelMap[n][u] = NoChannel
             THEN UNCHANGED <<scanPc, scanCur>>
             ELSE /\ scanCur' = [scanCur EXCEPT ![n] = channelMap[n][u]]
                  /\ scanPc' = [scanPc EXCEPT ![n] = "check"]
    BY <1>22 DEF ScanNext
  <2>2. u \in Users /\ channelMap[n][u] \in Channels \cup {NoChannel}
    BY <2>1 DEF TypeOK
  <2>3. CASE channelMap[n][u] = NoChannel
    <3>1. UNCHANGED <<scanPc, scanCur>>
      BY <2>1, <2>3
    <3> QED BY <1>22, <2>1, <3>1 DEF ScanNext, SoleInv, Sole, InGroup, Mapped, HandlerInv, ScanInv, EntryInv, RivalInv, Clearing, Over, Overlapping, TypeOK, HandlerPc
  <2>4. CASE channelMap[n][u] # NoChannel
    <3>1. /\ scanCur' = [scanCur EXCEPT ![n] = channelMap[n][u]]
          /\ scanPc' = [scanPc EXCEPT ![n] = "check"]
      BY <2>1, <2>4
    <3> QED BY <1>22, <2>1, <2>2, <2>4, <3>1 DEF ScanNext, SoleInv, Sole, InGroup, Mapped, HandlerInv, ScanInv, EntryInv, RivalInv, Clearing, Over, Overlapping, TypeOK, HandlerPc
  <2> QED BY <2>3, <2>4
<1>23. ASSUME NEW n \in Nodes, ScanEnd(n) PROVE SoleInv'
  BY <1>23 DEF ScanEnd, SoleInv, Sole, InGroup, Mapped, HandlerInv, ScanInv, EntryInv, RivalInv, Clearing, Over, Overlapping, TypeOK, HandlerPc
<1>24. ASSUME NEW n \in Nodes, ScanCheck(n) PROVE SoleInv'
  BY <1>24 DEF ScanCheck, Inactive, SoleInv, Sole, InGroup, Mapped, HandlerInv, ScanInv, EntryInv, RivalInv, Clearing, Over, Overlapping, TypeOK, HandlerPc
<1>25. ASSUME NEW n \in Nodes, ScanDrop(n) PROVE SoleInv'
  BY <1>25 DEF ScanDrop, SoleInv, Sole, InGroup, Mapped, HandlerInv, ScanInv, EntryInv, RivalInv, Clearing, Over, Overlapping, TypeOK, HandlerPc
<1>26. ASSUME NEW n \in Nodes, ScanClose(n) PROVE SoleInv'
  <2>1. /\ scanCur[n] \in Channels /\ NodeOf[scanCur[n]] = n
        /\ closeReq' = IF conn[scanCur[n]] = "open"
                       THEN [closeReq EXCEPT ![scanCur[n]] = TRUE] ELSE closeReq
        /\ scanPc' = [scanPc EXCEPT ![n] = "next"]
        /\ scanCur' = [scanCur EXCEPT ![n] = NoChannel]
        /\ UNCHANGED <<conn, pc, proto, channelMap, channelGroup, online, session, rivals>>
    BY <1>26 DEF ScanClose, CloseSoon, ScanInv
  <2>2. ASSUME NEW d \in Channels, conn[d] = "open", InGroup(d) PROVE InGroup(d)'
    <3>1. CASE d = scanCur[n]
      <4>1. closeReq' = [closeReq EXCEPT ![d] = TRUE]
        BY <2>1, <2>2, <3>1
      <4> QED BY <4>1 DEF InGroup, TypeOK
    <3>2. CASE d # scanCur[n]
      BY <2>1, <2>2, <3>2 DEF InGroup, TypeOK
    <3> QED BY <3>1, <3>2
  <2>3. ASSUME NEW d \in Channels, Sole(d)' PROVE Sole(d) /\ (Mapped(d) => Mapped(d)')
    BY <2>1, <2>3 DEF Sole, Over, Mapped
  <2> QED BY <2>1, <2>2, <2>3 DEF SoleInv
<1>27. ASSUME NEW n \in Nodes, Crash(n) PROVE SoleInv'
  BY <1>27 DEF Crash, SoleInv, Sole, InGroup, Mapped, HandlerInv, ScanInv, EntryInv, RivalInv, Clearing, Over, Overlapping, TypeOK, HandlerPc
<1>28. CASE UNCHANGED vars
  BY <1>28 DEF SoleInv, Sole, InGroup, Mapped, HandlerInv, ScanInv, EntryInv, RivalInv, Clearing, Over, Overlapping, TypeOK, HandlerPc
<1> QED
  BY <1>1, <1>2, <1>3, <1>4, <1>5, <1>6, <1>7, <1>8, <1>9, <1>10, <1>11, <1>12, <1>13, <1>14, <1>15, <1>16, <1>17, <1>18, <1>19, <1>20, <1>21, <1>22, <1>23, <1>24, <1>25, <1>26, <1>27, <1>28 DEF Next, Step, Event, Scan, RunClose

\* The whole invariant, from the first state on.
THEOREM Invariance == Spec => []IInv
<1>1. Init => IInv
  <2> SUFFICES ASSUME Init PROVE IInv
    OBVIOUS
  <2>1. TypeOK
    BY TypeInit
  <2>2. HandlerInv /\ ScanInv /\ EntryInv /\ DanglingInv
    BY ConstantsAssumption DEF Init, HandlerInv, ScanInv, EntryInv, DanglingInv, Clearing
  <2>3. OnlineInv /\ RivalInv /\ SoleInv
    BY ConstantsAssumption DEF Init, OnlineInv, RivalInv, SoleInv, Sole
  <2> QED BY <2>1, <2>2, <2>3 DEF IInv
<1>2. IInv /\ [Next]_vars => IInv'
  <2> SUFFICES ASSUME IInv, [Next]_vars PROVE IInv'
    OBVIOUS
  <2>1. TypeOK' /\ HandlerInv' /\ ScanInv' /\ EntryInv'
    BY TypeStep, HandlerStep, ScanStep, EntryStep DEF IInv
  <2>2. DanglingInv' /\ OnlineInv' /\ RivalInv' /\ SoleInv'
    BY DanglingStep, OnlineStep, RivalStep, SoleStep DEF IInv
  <2> QED BY <2>1, <2>2 DEF IInv
<1> QED BY <1>1, <1>2, PTL DEF Spec

\* channelMap's entries are sound, and scheduledScanNotActiveChannel never returns
\* early for want of a heartbeat (ChannelSessionServiceImpl:99-101), with any
\* number of users, processes, crashes and Redis failures.
THEOREM ScanNeverGivesUp == Spec => []MapSound
<1>1. IInv => MapSound
  BY DEF IInv, EntryInv, ScanInv, MapSound
<1> QED BY <1>1, Invariance, PTL

\* While Redis answers, no entry of channelMap outlives its channel's teardown.
THEOREM NoDanglingEntry == Spec => []NoDangling
<1>1. IInv => NoDangling
  BY DEF IInv, DanglingInv, NoDangling, Over, Clearing
<1> QED BY <1>1, Invariance, PTL

\* While Redis answers and no process dies, the online set never lists a user
\* whose connections are all over.
THEOREM OnlineAccurate == Spec => []OnlineIsLive
<1>1. IInv => OnlineIsLive
  <2> SUFFICES ASSUME IInv, ~RedisFails, ~Crashes, NEW u \in online
               PROVE \E c \in Channels : UserOf[c] = u /\ session[c] = "up" /\ ~Over(c)
    BY DEF OnlineIsLive
  <2>1. PICK c \in Channels : UserOf[c] = u /\ session[c] = "up"
    BY DEF IInv, OnlineInv
  <2>2. ~Over(c)
    BY <2>1 DEF IInv, OnlineInv, Over
  <2> QED BY <2>1, <2>2
<1> QED BY <1>1, Invariance, PTL

\* A session that never overlapped another one of its user stays reachable as long
\* as it stands, whatever the other connections, processes and Redis do.
THEOREM SoleSessionStaysReachable == Spec => []SoleSessionReachable
<1>1. IInv => SoleSessionReachable
  <2> SUFFICES ASSUME IInv, NEW c \in Channels \ rivals, Established(c)
               PROVE /\ Mapped(c)
                     /\ UserOf[c] \in online
                     /\ \/ c \in channelGroup
                        \/ closeReq[c]
                        \/ scanPc[NodeOf[c]] = "close" /\ scanCur[NodeOf[c]] = c
    BY DEF SoleSessionReachable
  <2>1. Sole(c)
    BY DEF Sole, Established, Over
  <2> QED BY <2>1 DEF IInv, SoleInv, Established, InGroup
<1> QED BY <1>1, Invariance, PTL
=============================================================================

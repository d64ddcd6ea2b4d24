--------------------------- MODULE SessionRegistry ---------------------------
(***************************************************************************)
(* The session registry of the chat server: the life of a client channel   *)
(* from accept to channelInactive, and the four shared structures its       *)
(* handlers write: channelMap and channelGroup (ChatChannelManage), the     *)
(* Redis set of online members, and the `handshaker' field of the singleton *)
(* WebSocketServiceImpl.  The scheduled scan of silent channels runs beside *)
(* them.                                                                    *)
(*                                                                          *)
(* Every channel is served by one event loop, so its handlers never overlap *)
(* each other; handlers of two channels, and the scan, interleave between   *)
(* any two accesses to a shared structure.  pc[c] is the access the handler *)
(* running on c performs next ("ready": no handler runs on c).              *)
(***************************************************************************)
EXTENDS Naturals

CONSTANTS Nodes,        \* server processes sharing one Redis
          Channels,     \* client connections over the whole run
          Users,        \* values of the userId query parameter
          NoUser,       \* the parameter is absent (a null String)
          NoChannel,    \* no entry in channelMap
          NodeOf,       \* the process a connection is made to
          UserOf,       \* the userId a connection presents
          Versions,     \* WebSocket versions the clients ask for
          RedisFails,   \* TRUE: a Redis call may throw, applied or not
          Crashes       \* TRUE: a server process may die and be restarted

ASSUME ConstantsAssumption ==
    /\ NodeOf \in [Channels -> Nodes]
    /\ UserOf \in [Channels -> Users \cup {NoUser}]
    /\ NoUser \notin Users
    /\ NoChannel \notin Channels
    /\ Versions \subseteq {"supported", "unsupported"}
    /\ RedisFails \in BOOLEAN
    /\ Crashes \in BOOLEAN

VARIABLES
    conn,          \* "new", "open", "closed" (channelInactive still to run),
                   \* "gone" (channelInactive has been called), "lost" (crash)
    pc,            \* next step of the handler running on the channel
    version,       \* WebSocket version of the upgrade request that the handler
                   \* is about to accept or refuse ("none" otherwise)
    userId,        \* channel attribute userId
    beat,          \* channel attribute lastHeartBeatTime, against the 90 s
    proto,         \* what the pipeline decodes: "http", "websocket", or
                   \* "closing" (nothing: a close frame has been read)
    closeReq,      \* a close of the channel is queued on its event loop
    channelMap,    \* per process: userId -> channel
    channelGroup,  \* the channels in each process's channelGroup
    online,        \* the Redis set ONLINE_MEMBER_LIST_KEY
    handshaker,    \* per process: the shared field, "none" when null
    scanPc, scanTodo, scanCur,   \* per process: the scheduled scan
    session,       \* history: "none", "up" once c's user was added to
                   \* online, "down" once c removed it again
    rivals         \* history: channels whose session overlapped another
                   \* session of the same user

link     == <<conn, closeReq>>
attrs    == <<userId, beat, proto>>
chanVars == <<link, pc, version, attrs>>
regVars  == <<channelMap, channelGroup, online, handshaker>>
scanVars == <<scanPc, scanTodo, scanCur>>
history  == <<session, rivals>>
vars     == <<chanVars, regVars, scanVars, history>>

HandlerPc == {"ready", "check", "online", "shake", "group", "map",
              "clrOnline", "clrGroup", "clrMap"}
Clearing  == {"clrOnline", "clrGroup", "clrMap"}

TypeOK ==
    /\ conn \in [Channels -> {"new", "open", "closed", "gone", "lost"}]
    /\ pc \in [Channels -> HandlerPc]
    /\ version \in [Channels -> {"none", "supported", "unsupported"}]
    /\ userId \in [Channels -> Users \cup {NoUser}]
    /\ beat \in [Channels -> {"none", "fresh", "stale"}]
    /\ proto \in [Channels -> {"http", "websocket", "closing"}]
    /\ closeReq \in [Channels -> BOOLEAN]
    /\ channelMap \in [Nodes -> [Users -> Channels \cup {NoChannel}]]
    /\ channelGroup \in SUBSET Channels
    /\ online \in SUBSET (Users \cup {NoUser})
    /\ handshaker \in [Nodes -> {"none", "some"}]
    /\ scanPc \in [Nodes -> {"idle", "next", "check", "drop", "close"}]
    /\ scanTodo \in [Nodes -> SUBSET Users]
    /\ scanCur \in [Nodes -> Channels \cup {NoChannel}]
    /\ session \in [Channels -> {"none", "up", "down"}]
    /\ rivals \in SUBSET Channels

Init ==
    /\ conn = [c \in Channels |-> "new"]
    /\ pc = [c \in Channels |-> "ready"]
    /\ version = [c \in Channels |-> "none"]
    /\ userId = [c \in Channels |-> NoUser]
    /\ beat = [c \in Channels |-> "none"]
    /\ proto = [c \in Channels |-> "http"]
    /\ closeReq = [c \in Channels |-> FALSE]
    /\ channelMap = [n \in Nodes |-> [u \in Users |-> NoChannel]]
    /\ channelGroup = {}
    /\ online = {}
    /\ handshaker = [n \in Nodes |-> "none"]
    /\ scanPc = [n \in Nodes |-> "idle"]
    /\ scanTodo = [n \in Nodes |-> {}]
    /\ scanCur = [n \in Nodes |-> NoChannel]
    /\ session = [c \in Channels |-> "none"]
    /\ rivals = {}

-----------------------------------------------------------------------------
(* The connection, as Netty runs it.                                       *)

Goto(c, step) == pc' = [pc EXCEPT ![c] = step]

\* A close queued on the event loop of c.
CloseSoon(c) == closeReq' = IF conn[c] = "open"
                            THEN [closeReq EXCEPT ![c] = TRUE] ELSE closeReq

\* Closing an open channel: its group drops it at once (the close listener of
\* DefaultChannelGroup), a queued close has nothing left to do, channelInactive
\* follows as a task of its own.
CloseNow(c) ==
    /\ conn' = IF conn[c] = "open" THEN [conn EXCEPT ![c] = "closed"] ELSE conn
    /\ closeReq' = [closeReq EXCEPT ![c] = FALSE]
    /\ channelGroup' = channelGroup \ {c}

\* No handler will run on c again.
Over(c) == conn[c] = "lost" \/ (conn[c] = "gone" /\ pc[c] = "ready")

\* The event loop of c is free to hand the next decoded message to the handler;
\* messages decoded before a close are still delivered after it.
Receives(c) == conn[c] \in {"open", "closed"} /\ pc[c] = "ready"

Accept(c) ==
    /\ conn[c] = "new"
    /\ conn' = [conn EXCEPT ![c] = "open"]
    /\ UNCHANGED <<pc, version, attrs, closeReq, regVars, scanVars, history>>

\* The peer goes away, or a write fails.
PeerClose(c) ==
    /\ conn[c] = "open" /\ pc[c] = "ready"
    /\ CloseNow(c)
    /\ UNCHANGED <<pc, version, attrs, channelMap, online, handshaker,
                   scanVars, history>>

\* A queued close (another thread's close(), or a CLOSE listener) takes effect.
RunClose(c) == closeReq[c] /\ PeerClose(c)

\* 90 s pass since the last heartbeat that was recorded.
GoStale(c) ==
    /\ beat[c] = "fresh"
    /\ conn[c] = "open"
    /\ beat' = [beat EXCEPT ![c] = "stale"]
    /\ UNCHANGED <<link, pc, version, userId, proto, regVars, scanVars,
                   history>>

-----------------------------------------------------------------------------
(* handleWebSocketConnect and addChannel                                   *)

\* A request that is no upgrade: 400, and close when the response is written.
PlainRequest(c) ==
    /\ Receives(c) /\ proto[c] = "http"
    /\ CloseSoon(c)
    /\ UNCHANGED <<conn, pc, version, attrs, regVars, scanVars, history>>

\* handshaker = factory.newHandshaker(request): null for an unknown version.
NewHandshaker(c, v) ==
    /\ Receives(c) /\ proto[c] = "http"
    /\ version' = [version EXCEPT ![c] = v]
    /\ handshaker' = [handshaker EXCEPT ![NodeOf[c]] =
                        IF v = "supported" THEN "some" ELSE "none"]
    /\ Goto(c, "check")
    /\ UNCHANGED <<link, attrs, channelMap, channelGroup, online, scanVars,
                   history>>

\* if (handshaker == null) reads the field again.
CheckHandshaker(c) ==
    /\ pc[c] = "check"
    /\ version' = [version EXCEPT ![c] = "none"]
    /\ Goto(c, IF handshaker[NodeOf[c]] = "none" THEN "ready" ELSE "online")
    /\ UNCHANGED <<link, attrs, regVars, scanVars, history>>

Overlapping(c) ==
    {d \in Channels \ {c} : /\ UserOf[d] = UserOf[c]
                            /\ session[d] # "none"
                            /\ ~Over(d)}

MarkUp(c) ==
    /\ online' = online \cup {UserOf[c]}
    /\ session' = [session EXCEPT ![c] = "up"]
    /\ rivals' = IF Overlapping(c) = {} THEN rivals
                 ELSE rivals \cup Overlapping(c) \cup {c}

AddOnline(c) ==
    /\ pc[c] = "online"
    /\ MarkUp(c)
    /\ Goto(c, "shake")
    /\ UNCHANGED <<link, version, attrs, channelMap, channelGroup, handshaker,
                   scanVars>>


\* Variant: setUserId called before the Redis call.
AddOnlineFailsAttrFirst(c) ==
    /\ RedisFails
    /\ pc[c] = "online"
    /\ MarkUp(c) \/ UNCHANGED <<online, history>>
    /\ userId' = [userId EXCEPT ![c] = UserOf[c]]
    /\ Goto(c, "ready")
    /\ UNCHANGED <<link, version, beat, proto, channelMap, channelGroup,
                   handshaker, scanVars>>

\* The call throws, having reached Redis or not; the catch block ends the
\* handler and the channel stays as it is.
AddOnlineFails(c) ==
    /\ RedisFails
    /\ pc[c] = "online"
    /\ MarkUp(c) \/ UNCHANGED <<online, history>>
    /\ Goto(c, "ready")
    /\ UNCHANGED <<link, version, attrs, channelMap, channelGroup, handshaker,
                   scanVars>>


\* Variants: the channel stored for the user id; no first heartbeat.
SetAttributesChannel(c) ==
    /\ userId' = [userId EXCEPT ![c] = c]
    /\ beat' = [beat EXCEPT ![c] = "fresh"]

SetAttributesNoBeat(c) ==
    /\ userId' = [userId EXCEPT ![c] = UserOf[c]]
    /\ UNCHANGED beat


SetAttributes(c) ==
    /\ userId' = [userId EXCEPT ![c] = UserOf[c]]
    /\ beat' = [beat EXCEPT ![c] = "fresh"]

\* setUserId, refreshLastHeartBeatTime, handshaker.handshake.  The write of the
\* response may find the connection reset, which closes it under the handler.
Handshake(c) ==
    /\ pc[c] = "shake"
    /\ handshaker[NodeOf[c]] = "some"
    /\ SetAttributes(c)
    /\ proto' = [proto EXCEPT ![c] = "websocket"]
    /\ Goto(c, "group")
    /\ CloseNow(c) \/ UNCHANGED <<conn, closeReq, channelGroup>>
    /\ UNCHANGED <<version, channelMap, online, handshaker, scanVars,
                   history>>


\* Variant: the attributes set after handshaker.handshake.
HandshakeFailsNoAttr(c) ==
    /\ pc[c] = "shake"
    /\ Goto(c, "ready")
    /\ UNCHANGED <<link, version, attrs, regVars, scanVars, history>>

\* The field has become null (NullPointerException), or the request is not a
\* proper handshake: caught, and the handler ends without addChannel.
HandshakeFails(c) ==
    /\ pc[c] = "shake"
    /\ SetAttributes(c)
    /\ Goto(c, "ready")
    /\ UNCHANGED <<link, version, proto, regVars, scanVars, history>>

\* channelGroup.add(channel): a channel already closed is dropped again.
JoinGroup(c) ==
    /\ pc[c] = "group"
    /\ channelGroup' = IF conn[c] = "open" THEN channelGroup \cup {c}
                                           ELSE channelGroup
    /\ Goto(c, "map")
    /\ UNCHANGED <<link, version, attrs, channelMap, online, handshaker,
                   scanVars, history>>

\* channelMap.put(userId, channel); with a null userId the map throws.
PutMap(c) ==
    /\ pc[c] = "map"
    /\ channelMap' = IF UserOf[c] = NoUser THEN channelMap
                     ELSE [channelMap EXCEPT ![NodeOf[c]][UserOf[c]] = c]
    /\ Goto(c, "ready")
    /\ UNCHANGED <<link, version, attrs, channelGroup, online, handshaker,
                   scanVars, history>>

-----------------------------------------------------------------------------
(* handleWebSocketWork: heartbeat answer, close frame, unusable frame       *)

Pong(c) ==
    /\ Receives(c) /\ proto[c] = "websocket"
    /\ beat' = [beat EXCEPT ![c] = "fresh"]
    /\ UNCHANGED <<link, pc, version, userId, proto, regVars, scanVars,
                   history>>

\* The close frame is answered through the shared field; the close itself
\* follows the write, at once or later.  Then clearSession runs.
CloseFrame(c) ==
    /\ Receives(c) /\ proto[c] = "websocket"
    /\ handshaker[NodeOf[c]] = "some"
    /\ proto' = [proto EXCEPT ![c] = "closing"]
    /\ Goto(c, "clrOnline")
    /\ \/ CloseNow(c)
       \/ CloseSoon(c) /\ UNCHANGED <<conn, channelGroup>>
    /\ UNCHANGED <<version, userId, beat, channelMap, online, handshaker,
                   scanVars, history>>

\* A handler throws (a binary frame, a text that is not JSON, a close frame
\* while the field is null): exceptionCaught closes the channel.
FrameThrows(c) ==
    /\ Receives(c) /\ proto[c] = "websocket"
    /\ CloseNow(c)
    /\ UNCHANGED <<pc, version, attrs, channelMap, online, handshaker,
                   scanVars, history>>

-----------------------------------------------------------------------------
(* channelInactive and clearSession                                        *)

ChannelInactive(c) ==
    /\ conn[c] = "closed" /\ pc[c] = "ready"
    /\ conn' = [conn EXCEPT ![c] = "gone"]
    /\ Goto(c, "clrOnline")
    /\ UNCHANGED <<version, attrs, closeReq, regVars, scanVars, history>>

RemoveOnline(c) ==
    /\ online' = online \ {userId[c]}
    /\ session' = IF session[c] = "up" /\ userId[c] = UserOf[c]
                  THEN [session EXCEPT ![c] = "down"] ELSE session

ClearOnline(c) ==
    /\ pc[c] = "clrOnline"
    /\ RemoveOnline(c)
    /\ Goto(c, "clrGroup")
    /\ UNCHANGED <<link, version, attrs, channelMap, channelGroup, handshaker,
                   scanVars, rivals>>

\* The Redis call throws: the rest of clearSession is skipped and
\* exceptionCaught closes the channel.
ClearOnlineFails(c) ==
    /\ RedisFails
    /\ pc[c] = "clrOnline"
    /\ RemoveOnline(c) \/ UNCHANGED <<online, session>>
    /\ CloseNow(c)
    /\ Goto(c, "ready")
    /\ UNCHANGED <<version, attrs, channelMap, handshaker, scanVars, rivals>>

ClearGroup(c) ==
    /\ pc[c] = "clrGroup"
    /\ channelGroup' = channelGroup \ {c}
    /\ Goto(c, "clrMap")
    /\ UNCHANGED <<link, version, attrs, channelMap, online, handshaker,
                   scanVars, history>>


\* Variant: channelMap.remove(channel), as in the scan.
ClearMapByChannel(c) ==
    /\ pc[c] = "clrMap"
    /\ Goto(c, "ready")
    /\ UNCHANGED <<link, version, attrs, regVars, scanVars, history>>

\* channelMap.remove(userId), whichever channel the entry holds.  A null userId
\* makes the map throw, and exceptionCaught closes the channel.
ClearMap(c) ==
    /\ pc[c] = "clrMap"
    /\ IF userId[c] = NoUser
       THEN CloseNow(c) /\ UNCHANGED channelMap
       ELSE /\ channelMap' = [channelMap EXCEPT ![NodeOf[c]][userId[c]] = NoChannel]
            /\ UNCHANGED <<link, channelGroup>>
    /\ Goto(c, "ready")
    /\ UNCHANGED <<version, attrs, online, handshaker, scanVars, history>>

-----------------------------------------------------------------------------
(* scheduledScanNotActiveChannel: one run iterates over channelMap.values() *)
(* while handlers keep changing the map.                                    *)

ScanStart(n) ==
    /\ scanPc[n] = "idle"
    /\ \E u \in Users : channelMap[n][u] # NoChannel
    /\ scanPc' = [scanPc EXCEPT ![n] = "next"]
    /\ scanTodo' = [scanTodo EXCEPT ![n] = Users]
    /\ UNCHANGED <<scanCur, chanVars, regVars, history>>

\* The iterator yields the value an entry holds when it is reached; the entry
\* may change before the body of the loop looks at the channel.
ScanNext(n) ==
    /\ scanPc[n] = "next"
    /\ \E u \in scanTodo[n] :
         /\ scanTodo' = [scanTodo EXCEPT ![n] = @ \ {u}]
         /\ IF channelMap[n][u] = NoChannel
            THEN UNCHANGED <<scanPc, scanCur>>
            ELSE /\ scanCur' = [scanCur EXCEPT ![n] = channelMap[n][u]]
                 /\ scanPc' = [scanPc EXCEPT ![n] = "check"]
    /\ UNCHANGED <<chanVars, regVars, history>>

ScanEnd(n) ==
    /\ scanPc[n] = "next" /\ scanTodo[n] = {}
    /\ scanPc' = [scanPc EXCEPT ![n] = "idle"]
    /\ UNCHANGED <<scanTodo, scanCur, chanVars, regVars, history>>

Inactive(c) == conn[c] # "open" \/ beat[c] = "stale"


\* Variant: only closed channels are dropped.
ScanCheckClosedOnly(n) ==
    /\ scanPc[n] = "check"
    /\ scanPc' = [scanPc EXCEPT ![n] =
                    IF conn[scanCur[n]] # "open" THEN "drop" ELSE "next"]
    /\ scanCur' = IF scanPc'[n] = "drop" THEN scanCur
                  ELSE [scanCur EXCEPT ![n] = NoChannel]
    /\ UNCHANGED <<scanTodo, chanVars, regVars, history>>

\* A channel without a heartbeat attribute makes the method return, whatever
\* channels are still to be visited.
ScanCheck(n) ==
    /\ scanPc[n] = "check"
    /\ scanPc' = [scanPc EXCEPT ![n] =
                    IF beat[scanCur[n]] = "none" THEN "idle"
                    ELSE IF Inactive(scanCur[n]) THEN "drop" ELSE "next"]
    /\ scanCur' = IF scanPc'[n] = "drop" THEN scanCur
                  ELSE [scanCur EXCEPT ![n] = NoChannel]
    /\ UNCHANGED <<scanTodo, chanVars, regVars, history>>

\* channelMap.remove(channel) looks the channel up among the String keys and
\* removes nothing; channelGroup.remove(channel) does.
ScanDrop(n) ==
    /\ scanPc[n] = "drop"
    /\ channelGroup' = channelGroup \ {scanCur[n]}
    /\ scanPc' = [scanPc EXCEPT ![n] = "close"]
    /\ UNCHANGED <<scanTodo, scanCur, chanVars, channelMap, online,
                   handshaker, history>>

\* close() from the scheduler thread is a task for the channel's event loop.
ScanClose(n) ==
    /\ scanPc[n] = "close"
    /\ CloseSoon(scanCur[n])
    /\ scanPc' = [scanPc EXCEPT ![n] = "next"]
    /\ scanCur' = [scanCur EXCEPT ![n] = NoChannel]
    /\ UNCHANGED <<scanTodo, conn, pc, version, attrs, regVars, history>>

-----------------------------------------------------------------------------
\* The process dies and is started again: what it held in memory is gone, the
\* online set in Redis is not.
Crash(n) ==
    LET On(c) == NodeOf[c] = n /\ conn[c] # "new" IN
    /\ Crashes
    /\ \E c \in Channels : On(c) /\ conn[c] # "lost"
    /\ conn' = [c \in Channels |-> IF On(c) THEN "lost" ELSE conn[c]]
    /\ pc' = [c \in Channels |-> IF On(c) THEN "ready" ELSE pc[c]]
    /\ channelMap' = [channelMap EXCEPT ![n] = [u \in Users |-> NoChannel]]
    /\ channelGroup' = {c \in channelGroup : NodeOf[c] # n}
    /\ handshaker' = [handshaker EXCEPT ![n] = "none"]
    /\ scanPc' = [scanPc EXCEPT ![n] = "idle"]
    /\ scanTodo' = [scanTodo EXCEPT ![n] = {}]
    /\ scanCur' = [scanCur EXCEPT ![n] = NoChannel]
    /\ UNCHANGED <<version, attrs, closeReq, online, history>>

Step(c) == \* the rest of a handler that has started, and queued events
    \/ RunClose(c)
    \/ CheckHandshaker(c) \/ AddOnline(c) \/ AddOnlineFails(c)
    \/ Handshake(c) \/ HandshakeFails(c) \/ JoinGroup(c) \/ PutMap(c)
    \/ ChannelInactive(c)
    \/ ClearOnline(c) \/ ClearOnlineFails(c) \/ ClearGroup(c) \/ ClearMap(c)

Scan(n) == \/ ScanStart(n) \/ ScanNext(n) \/ ScanEnd(n)
           \/ ScanCheck(n) \/ ScanDrop(n) \/ ScanClose(n)

Event(c) == \* what the client, the network or the clock does
    \/ Accept(c) \/ PeerClose(c) \/ GoStale(c)
    \/ PlainRequest(c) \/ \E v \in Versions : NewHandshaker(c, v)
    \/ Pong(c) \/ CloseFrame(c) \/ FrameThrows(c)

Next == \/ \E c \in Channels : Step(c) \/ Event(c)
        \/ \E n \in Nodes : Scan(n) \/ Crash(n)

Spec == Init /\ [][Next]_vars

\* An event loop runs a handler it has started to its end, and gets to the tasks
\* queued on it (strong fairness: between messages still to be delivered); the
\* scheduler runs the scan every minute.  Clients and clock owe nothing.
Fairness == /\ \A c \in Channels : WF_vars(Step(c))
            /\ \A c \in Channels : SF_vars(RunClose(c)) /\ SF_vars(ChannelInactive(c))
            /\ \A n \in Nodes : WF_vars(Scan(n))

FairSpec == Spec /\ Fairness

-----------------------------------------------------------------------------
(* Safety                                                                  *)

Mapped(c) == UserOf[c] # NoUser /\ channelMap[NodeOf[c]][UserOf[c]] = c

\* c's connect handler went through addChannel and no teardown has begun.
Established(c) ==
    /\ conn[c] = "open" /\ pc[c] = "ready"
    /\ proto[c] = "websocket" /\ session[c] = "up" /\ UserOf[c] # NoUser

\* An entry of channelMap holds a channel of that process, of that user, whose
\* attributes were set by its own handshake: setUserId and the first heartbeat
\* precede addChannel, so a scan never meets a channel without a heartbeat and
\* never returns with channels unvisited (lines 99-101).
MapSound ==
    /\ \A n \in Nodes, u \in Users :
         LET c == channelMap[n][u] IN
         c # NoChannel => /\ NodeOf[c] = n /\ UserOf[c] = u
                          /\ userId[c] = u /\ beat[c] # "none"
    /\ \A n \in Nodes : scanPc[n] = "check" => beat[scanCur[n]] # "none"

\* channelMap never keeps a channel whose last handler has run, however the
\* double clearSession (close frame, then channelInactive), a second login or a
\* crash interleave: senders who find an entry find a channel that still has
\* its teardown ahead.  Holds while Redis answers.
NoDangling ==
    ~RedisFails => \A n \in Nodes, u \in Users :
        channelMap[n][u] # NoChannel => ~Over(channelMap[n][u])

\* A user in the Redis set has a connection that is not over: every path that
\* adds a user (a handshake that fails afterwards included) is undone at the
\* latest by channelInactive.  Holds while Redis answers and no process dies.
OnlineIsLive ==
    ~RedisFails /\ ~Crashes => \A u \in online :
        \E c \in Channels : UserOf[c] = u /\ session[c] = "up" /\ ~Over(c)

\* A session that never overlapped another one of its user is reachable as long
\* as it stands: mapped, listed online, and in channelGroup unless the scan has
\* just dropped it and is about to close it.  No teardown of another channel,
\* on this process or another, not even a crash or a failing Redis, undoes it.
SoleSessionReachable ==
    \A c \in Channels \ rivals : Established(c) =>
        /\ Mapped(c)
        /\ UserOf[c] \in online
        /\ \/ c \in channelGroup
           \/ closeReq[c]
           \/ scanPc[NodeOf[c]] = "close" /\ scanCur[NodeOf[c]] = c

\* What ChatChannelManage:24-26 says of channelMap, without the exception for
\* overlapping sessions: an established channel can be found by its user.
SessionReachable ==
    \A c \in Channels : Established(c) =>
        channelMap[NodeOf[c]][UserOf[c]] # NoChannel

(* Action properties                                                       *)

\* The "unsupported version" answer (line 85) goes to a request whose own
\* version is unsupported.
RejectsOnlyUnsupported ==
    [][\A c \in Channels : pc[c] = "check" /\ pc'[c] = "ready" /\ conn'[c] # "lost"
          => version[c] = "unsupported"]_vars

(* Liveness                                                                *)

\* Once a connection has closed its teardown runs to the end and leaves neither
\* a map entry of its own nor, unless another session of the user was added
\* after it, the user in the online set.
TornDown(c) == Over(c) /\ c \notin channelGroup /\ ~Mapped(c) /\ session[c] # "up"
CloseIsCleared ==
    \A c \in Channels : conn[c] = "closed" ~> TornDown(c)

\* The scan ends every silent session it can see: a mapped channel that stays
\* silent is closed, unless it answers or loses its map entry first.
SilentMappedEnds ==
    \A c \in Channels : (conn[c] = "open" /\ Mapped(c) /\ beat[c] = "stale")
                           ~> (conn[c] # "open" \/ ~Mapped(c) \/ beat[c] = "fresh")
=============================================================================

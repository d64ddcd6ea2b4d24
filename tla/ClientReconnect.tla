---------------------------- MODULE ClientReconnect ----------------------------
(***************************************************************************)
(* How the page of templates/ keeps its connection (chat.js): websocket()     *)
(* makes the page's socket, onclose asks for a new one in five seconds,       *)
(* reconnect() lets one such request through at a time, and heartCheck's      *)
(* interval makes a new socket by itself when it finds the page's one not     *)
(* open.  Handlers and timers of a page run one at a time.                    *)
(***************************************************************************)
EXTENDS Naturals, FiniteSets

CONSTANTS Sockets,    \* bound: WebSocket objects that exist at a time
          NoSocket

ASSUME SocketAssumption == NoSocket \notin Sockets /\ IsFiniteSet(Sockets)

VARIABLES
    sock,      \* readyState per socket, "none" before it is made
    socket,    \* the page's variable socket
    lockReconnect,
    tt,        \* the timeout of reconnect() is pending
    intervals  \* intervals of heartCheck that run

vars == <<sock, socket, lockReconnect, tt, intervals>>

TypeOK ==
    /\ sock \in [Sockets -> {"none", "connecting", "open", "closing", "closed"}]
    /\ socket \in Sockets \cup {NoSocket}
    /\ {lockReconnect, tt} \subseteq BOOLEAN
    /\ intervals \in 0 .. 1

Init ==
    /\ sock = [s \in Sockets |-> "none"]
    /\ socket = NoSocket
    /\ lockReconnect = FALSE /\ tt = FALSE
    /\ intervals = 0

Live(s) == sock[s] \in {"connecting", "open", "closing"}
IsOpen(s) == s # NoSocket /\ sock[s] = "open"

-----------------------------------------------------------------------------
\* websocket(): the old object, live or not, is no longer the page's; its
\* handlers remain.
Websocket ==
    \E s \in Sockets : /\ sock[s] \in {"none", "closed"}
                       /\ sock' = [sock EXCEPT ![s] = "connecting"]
                       /\ socket' = s

\* The page is loaded.
Load ==
    /\ socket = NoSocket
    /\ Websocket
    /\ UNCHANGED <<lockReconnect, tt, intervals>>

\* Variant: the interval of an earlier connection is not cleared.
OpensNoReset(s) ==
    /\ sock[s] = "connecting"
    /\ sock' = [sock EXCEPT ![s] = "open"]
    /\ intervals' = intervals + 1
    /\ UNCHANGED <<socket, lockReconnect, tt>>

\* onopen: heartCheck.reset().start().
Opens(s) ==
    /\ sock[s] = "connecting"
    /\ sock' = [sock EXCEPT ![s] = "open"]
    /\ intervals' = 1
    /\ UNCHANGED <<socket, lockReconnect, tt>>

\* reconnect(): the lock lets one request through; a timeout that is pending is
\* cleared first.
Reconnect ==
    \/ lockReconnect /\ UNCHANGED <<lockReconnect, tt>>
    \/ ~lockReconnect /\ lockReconnect' = TRUE /\ tt' = TRUE

\* The server has begun the closing handshake.
Closing(s) ==
    /\ sock[s] = "open"
    /\ sock' = [sock EXCEPT ![s] = "closing"]
    /\ UNCHANGED <<socket, lockReconnect, tt, intervals>>

\* onclose, of the page's socket or of an earlier one (a connection that was
\* refused, lost, or closed): reconnect(), then quitSend(), which sends nothing
\* when the page's socket is not open.  It says so in an alert() (line 298) then, which
\* holds up the page, the timeout included, until the user dismisses it: left out, he
\* does in time.
Closes(s) ==
    /\ Live(s)
    /\ sock' = [sock EXCEPT ![s] = "closed"]
    /\ Reconnect
    /\ UNCHANGED <<socket, intervals>>

\* Variant: the lock is not given back.
RetryKeepsLock ==
    /\ tt
    /\ Websocket
    /\ tt' = FALSE
    /\ UNCHANGED <<lockReconnect, intervals>>

\* The timeout of reconnect().
Retry ==
    /\ tt
    /\ Websocket
    /\ lockReconnect' = FALSE /\ tt' = FALSE
    /\ UNCHANGED intervals

\* Variant: the interval is cleared whatever the socket's state.
HeartCheckOnce ==
    /\ intervals > 0
    /\ intervals' = 0
    /\ IF IsOpen(socket) THEN UNCHANGED <<sock, socket>> ELSE Websocket
    /\ UNCHANGED <<lockReconnect, tt>>

\* heartCheck's interval: an open socket is used, any other is replaced at once.
HeartCheck ==
    /\ intervals > 0
    /\ ~IsOpen(socket)
    /\ intervals' = 0
    /\ Websocket
    /\ UNCHANGED <<lockReconnect, tt>>

Next == \/ Load \/ Retry \/ HeartCheck
        \/ \E s \in Sockets : Opens(s) \/ Closing(s) \/ Closes(s)

Spec == Init /\ [][Next]_vars

\* The browser runs a timeout that is due; servers and networks owe nothing.
FairSpec == Spec /\ WF_vars(Retry)

-----------------------------------------------------------------------------
(* Properties                                                               *)

\* The lock stands for a pending timeout, so that no order of closes, opens and
\* heart checks leaves the page locked with nothing to unlock it.
LockMeansRetry == lockReconnect = tt

\* A page that is connected has its heart check running, whichever of its
\* sockets opened or closed last.
HeartRuns == IsOpen(socket) => intervals = 1

\* The page never gives up: when its socket has closed it makes another.
NeverGivesUp == (socket # NoSocket /\ sock[socket] = "closed")
                    ~> (socket # NoSocket /\ Live(socket))
=============================================================================

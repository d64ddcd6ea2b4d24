------------------------------- MODULE Heartbeat -------------------------------
(***************************************************************************)
(* The heartbeat in time: ChannelSessionServiceImpl pings every connection   *)
(* on one cron schedule and closes the ones it has not heard of for too long *)
(* on another; the browser (chat.js, in two versions) answers, or does not.  *)
(* Time passes in ticks; a scheduled task that is due runs before the next   *)
(* tick, as both run on the scheduler's one thread and take no time that     *)
(* counts.  One connection per user: what else may happen to a connection is *)
(* in SessionRegistry.                                                       *)
(***************************************************************************)
EXTENDS Integers, FiniteSets

CONSTANTS Clients,
          PingCode,     \* ClientVersion -> the code it takes for a ping
          PongCode,     \* ... and the code it answers
          HasCheck,     \* the clients whose page runs heartCheck
          Period,       \* ticks between pings              (*/30 s)
          ScanPeriod,   \* ticks between scans              (*/60 s)
          Limit,        \* silence the scan tolerates       (90000 ms)
          CheckPeriod,  \* heartCheck.timeout               (60000 ms)
          RoundTrip     \* a live client's answer takes at most this long

PING_MESSAGE_CODE == 3
PONG_CHAT_CODE == 4
NO_CODE == 0          \* getIntValue("code") of a frame without one

ASSUME HeartbeatAssumption ==
    /\ PingCode \in [Clients -> Nat] /\ PongCode \in [Clients -> Nat]
    /\ HasCheck \subseteq Clients
    /\ {Period, ScanPeriod, CheckPeriod} \subseteq Nat \ {0}
    /\ {Limit, RoundTrip} \subseteq Nat
    /\ ScanPeriod % Period = 0

\* What the deployment must grant for the limit to spare a client that answers.
ASSUME SlackAssumption == Period + RoundTrip <= Limit

VARIABLES
    state,     \* per client: "new", "open", "closed" by the scan
    alive,     \* the client still runs and reads its connection
    age,       \* ticks since lastHeartBeatTime
    pending,   \* ages of the pings a live client has yet to answer
    checkIn,   \* ticks to the client's next heartCheck
    pingIn,    \* ticks to scheduledSendClientPing
    scanIn     \* ticks to scheduledScanNotActiveChannel

vars == <<state, alive, age, pending, checkIn, pingIn, scanIn>>

TypeOK ==
    /\ state \in [Clients -> {"new", "open", "closed"}]
    /\ alive \in [Clients -> BOOLEAN]
    /\ age \in [Clients -> Nat]
    /\ pending \in [Clients -> SUBSET (0 .. RoundTrip)]
    /\ checkIn \in [Clients -> 0 .. CheckPeriod]
    /\ pingIn \in 0 .. Period
    /\ scanIn \in 0 .. ScanPeriod

\* Both schedules count from the full minute, the process starts at any time.
Init ==
    /\ state = [c \in Clients |-> "new"]
    /\ alive = [c \in Clients |-> TRUE]
    /\ age = [c \in Clients |-> 0]
    /\ pending = [c \in Clients |-> {}]
    /\ checkIn = [c \in Clients |-> CheckPeriod]
    /\ scanIn \in 1 .. ScanPeriod
    /\ pingIn = ((scanIn - 1) % Period) + 1

Open(c) == state[c] = "open"
Running(c) == Open(c) /\ alive[c]
Answers(c) == PingCode[c] = PING_MESSAGE_CODE /\ PongCode[c] = PONG_CHAT_CODE

-----------------------------------------------------------------------------
\* Variant: the page's timer starts one tick late.
ConnectLate(c) ==
    /\ state[c] = "new"
    /\ state' = [state EXCEPT ![c] = "open"]
    /\ age' = [age EXCEPT ![c] = 0]
    /\ checkIn' = [checkIn EXCEPT ![c] = CheckPeriod + 1]
    /\ UNCHANGED <<alive, pending, pingIn, scanIn>>

\* The handshake sets the first heartbeat; onopen resets heartCheck.
Connect(c) ==
    /\ state[c] = "new"
    /\ state' = [state EXCEPT ![c] = "open"]
    /\ age' = [age EXCEPT ![c] = 0]
    /\ checkIn' = [checkIn EXCEPT ![c] = CheckPeriod]
    /\ UNCHANGED <<alive, pending, pingIn, scanIn>>

\* The page is gone and the close never reaches the server.
FallSilent(c) ==
    /\ Running(c)
    /\ alive' = [alive EXCEPT ![c] = FALSE]
    /\ pending' = [pending EXCEPT ![c] = {}]
    /\ UNCHANGED <<state, age, checkIn, pingIn, scanIn>>

\* scheduledSendClientPing: a page that does not know the code drops the frame.
SendClientPing ==
    /\ pingIn = 0
    /\ pingIn' = Period
    /\ pending' = [c \in Clients |->
          IF Running(c) /\ PingCode[c] = PING_MESSAGE_CODE THEN pending[c] \cup {0}
                                                           ELSE pending[c]]
    /\ UNCHANGED <<state, alive, age, checkIn, scanIn>>

\* Variant: the case of the pong is missing.
ReceiveNoPong(c, code) == age' = age

\* messageDispatch of a frame with this code: a pong refreshes the heartbeat,
\* a code without a case does nothing.
Receive(c, code) ==
    age' = [age EXCEPT ![c] = IF code = PONG_CHAT_CODE THEN 0 ELSE @]

\* sendPong.
Pong(c) ==
    /\ Running(c)
    /\ \E a \in pending[c] :
          /\ \A b \in pending[c] : b <= a
          /\ pending' = [pending EXCEPT ![c] = @ \ {a}]
    /\ Receive(c, PongCode[c])
    /\ UNCHANGED <<state, alive, checkIn, pingIn, scanIn>>

\* heartCheck's interval: the frame {"type":0} has no code.
HeartCheck(c) ==
    /\ Running(c) /\ c \in HasCheck /\ checkIn[c] = 0
    /\ checkIn' = [checkIn EXCEPT ![c] = CheckPeriod]
    /\ Receive(c, NO_CODE)
    /\ UNCHANGED <<state, alive, pending, pingIn, scanIn>>

\* Variant: a channel is given a second period.
ExpiredWide(c) == Open(c) /\ age[c] > Limit + ScanPeriod

\* The test of line 105, for a channel that is open.
Expired(c) == Open(c) /\ age[c] > Limit


ScanNotActiveChannel ==
    /\ scanIn = 0
    /\ scanIn' = ScanPeriod
    /\ state' = [c \in Clients |-> IF Expired(c) THEN "closed" ELSE state[c]]
    /\ pending' = [c \in Clients |-> IF Expired(c) THEN {} ELSE pending[c]]
    /\ UNCHANGED <<alive, age, checkIn, pingIn>>

\* One tick passes when nothing is due.
Tick ==
    /\ pingIn > 0 /\ scanIn > 0
    /\ \A c \in Clients : Running(c) =>
          /\ RoundTrip \notin pending[c]
          /\ c \in HasCheck => checkIn[c] > 0
    /\ pingIn' = pingIn - 1
    /\ scanIn' = scanIn - 1
    /\ age' = [c \in Clients |-> IF Open(c) THEN age[c] + 1 ELSE age[c]]
    /\ pending' = [c \in Clients |-> {a + 1 : a \in pending[c]}]
    /\ checkIn' = [c \in Clients |->
          IF Running(c) /\ c \in HasCheck THEN checkIn[c] - 1 ELSE checkIn[c]]
    /\ UNCHANGED <<state, alive>>

Next == \/ \E c \in Clients : Connect(c) \/ FallSilent(c) \/ Pong(c) \/ HeartCheck(c)
        \/ SendClientPing \/ ScanNotActiveChannel \/ Tick

Spec == Init /\ [][Next]_vars

-----------------------------------------------------------------------------
(* Properties                                                               *)

\* A client that knows the server's codes and answers within RoundTrip is never
\* closed, at whatever time it connects and however its answers are delayed: the
\* scan closes only clients that have fallen silent or do not speak the protocol.
AnswerersStay == \A c \in Clients : Answers(c) /\ alive[c] => state[c] # "closed"

\* A connection the server has not heard of is closed, at the latest by the scan
\* after the one that just spared it.
SilentGoInTime == \A c \in Clients : Open(c) => age[c] <= Limit + ScanPeriod
=============================================================================

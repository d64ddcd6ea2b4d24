--------------------------- MODULE HeartbeatProofs ---------------------------
(***************************************************************************)
(* Machine-checked proofs about Heartbeat, for all clients, periods, limits  *)
(* and answer times that leave slack (Period + RoundTrip <= Limit).          *)
(***************************************************************************)
EXTENDS Heartbeat, TLAPS

\* A client that has answered every ping was heard of since the last one was due.
QuietInv(c) == pending[c] = {} => age[c] + pingIn <= Period

\* One that owes an answer was heard of within a period before the oldest ping.
OwingInv(c) == pending[c] # {} => \E a \in pending[c] : age[c] <= Period + a

\* The heartbeat of an answering client is never older than the limit.
AnswerInv == \A c \in Clients : Answers(c) /\ Running(c) => QuietInv(c) /\ OwingInv(c)

\* A client that answers and runs has not been closed.
StayInv == \A c \in Clients : Answers(c) /\ alive[c] => state[c] # "closed"

\* Only a running client owes answers.
PendingInv == \A c \in Clients : ~Running(c) => pending[c] = {}

\* Silence and the wait for the next scan share one allowance.
ScanInv == \A c \in Clients : Open(c) => age[c] + scanIn <= Limit + ScanPeriod

IInv == TypeOK /\ PendingInv /\ AnswerInv /\ StayInv /\ ScanInv

-----------------------------------------------------------------------------
\* The process may start at any point of either schedule.
LEMMA InitIInv == Init => IInv
<1> SUFFICES ASSUME Init PROVE IInv
  OBVIOUS
<1>1. pingIn \in 0 .. Period
  BY HeartbeatAssumption DEF Init
<1>2. TypeOK
  BY <1>1, HeartbeatAssumption DEF Init, TypeOK
<1>3. PendingInv /\ AnswerInv /\ StayInv /\ ScanInv
  BY DEF Init, PendingInv, AnswerInv, StayInv, ScanInv, Running, Open
<1>4. QED
  BY <1>2, <1>3 DEF IInv

\* A client that still answers has not been silent beyond the limit.
LEMMA AnswererHeard ==
    ASSUME IInv, NEW c \in Clients, Answers(c), Running(c)
    PROVE  age[c] <= Limit
<1>1. /\ age[c] \in Nat /\ pingIn \in 0 .. Period
      /\ pending[c] \subseteq 0 .. RoundTrip
  BY DEF IInv, TypeOK
<1>2. CASE pending[c] = {}
  BY <1>1, <1>2, HeartbeatAssumption, SlackAssumption DEF IInv, AnswerInv, QuietInv
<1>3. CASE pending[c] # {}
  <2>1. PICK a \in pending[c] : age[c] <= Period + a
    BY <1>3 DEF IInv, AnswerInv, OwingInv
  <2>2. QED
    BY <1>1, <2>1, HeartbeatAssumption, SlackAssumption
<1>4. QED
  BY <1>2, <1>3

-----------------------------------------------------------------------------
(* Every step preserves the invariant, action by action.                    *)

LEMMA ConnectStep ==
    ASSUME IInv, NEW c \in Clients, Connect(c)
    PROVE  IInv'
<1> USE HeartbeatAssumption DEF Connect
<1>1. TypeOK'
  BY DEF IInv, TypeOK
<1>2. PendingInv'
  BY DEF IInv, TypeOK, PendingInv, Running, Open
<1>3. AnswerInv'
  BY DEF IInv, TypeOK, PendingInv, AnswerInv, QuietInv, OwingInv, Running, Open, Answers
<1>4. StayInv'
  BY DEF IInv, TypeOK, StayInv, Open, Running
<1>5. ScanInv'
  BY DEF IInv, TypeOK, ScanInv, Open, Running
<1>6. QED
  BY <1>1, <1>2, <1>3, <1>4, <1>5 DEF IInv

LEMMA FallSilentStep ==
    ASSUME IInv, NEW c \in Clients, FallSilent(c)
    PROVE  IInv'
<1> USE HeartbeatAssumption DEF FallSilent
<1>1. TypeOK'
  BY DEF IInv, TypeOK
<1>2. PendingInv'
  BY DEF IInv, TypeOK, PendingInv, Running, Open
<1>3. AnswerInv'
  BY DEF IInv, TypeOK, PendingInv, AnswerInv, QuietInv, OwingInv, Running, Open, Answers
<1>4. StayInv'
  BY DEF IInv, TypeOK, StayInv, Open, Running
<1>5. ScanInv'
  BY DEF IInv, TypeOK, ScanInv, Open, Running
<1>6. QED
  BY <1>1, <1>2, <1>3, <1>4, <1>5 DEF IInv

LEMMA SendClientPingStep ==
    ASSUME IInv, SendClientPing
    PROVE  IInv'
<1> USE HeartbeatAssumption DEF SendClientPing
<1>1. TypeOK'
  BY DEF IInv, TypeOK
<1>2. PendingInv'
  BY DEF IInv, TypeOK, PendingInv, Running, Open
<1>3. AnswerInv'
  <2> SUFFICES ASSUME NEW c \in Clients, Answers(c)', Running(c)'
               PROVE  QuietInv(c)' /\ OwingInv(c)'
    BY DEF AnswerInv
  <2>1. Answers(c) /\ Running(c)
    BY DEF Answers, Running, Open
  <2>2. QuietInv(c) /\ OwingInv(c)
    BY <2>1 DEF IInv, AnswerInv
  <2>3. pending'[c] = pending[c] \cup {0} /\ age'[c] = age[c]
    BY <2>1 DEF Answers
  <2>4. age[c] \in Nat /\ Period \in Nat
    BY DEF IInv, TypeOK, HeartbeatAssumption
  <2>5. QuietInv(c)'
    BY <2>3 DEF QuietInv
  <2>6. CASE pending[c] = {}
    <3>1. age[c] <= Period + 0
      BY <2>2, <2>4, <2>6 DEF QuietInv
    <3>2. QED
      BY <2>3, <2>4, <2>5, <3>1 DEF OwingInv
  <2>7. CASE pending[c] # {}
    BY <2>2, <2>3, <2>5, <2>7 DEF OwingInv
  <2>8. QED
    BY <2>5, <2>6, <2>7
<1>4. StayInv'
  BY DEF IInv, TypeOK, StayInv, Open, Running
<1>5. ScanInv'
  BY DEF IInv, TypeOK, ScanInv, Open, Running
<1>6. QED
  BY <1>1, <1>2, <1>3, <1>4, <1>5 DEF IInv

LEMMA PongStep ==
    ASSUME IInv, NEW c \in Clients, Pong(c)
    PROVE  IInv'
<1> USE HeartbeatAssumption DEF Pong, Receive, Answers
<1>1. TypeOK'
  BY DEF IInv, TypeOK
<1>2. PendingInv'
  BY DEF IInv, TypeOK, PendingInv, Running, Open
<1>3. AnswerInv'
  BY DEF IInv, TypeOK, PendingInv, AnswerInv, QuietInv, OwingInv, Running, Open, Answers
<1>4. StayInv'
  BY DEF IInv, TypeOK, StayInv, Open, Running
<1>5. ScanInv'
  BY DEF IInv, TypeOK, ScanInv, Open, Running
<1>6. QED
  BY <1>1, <1>2, <1>3, <1>4, <1>5 DEF IInv

LEMMA HeartCheckStep ==
    ASSUME IInv, NEW c \in Clients, HeartCheck(c)
    PROVE  IInv'
<1> USE HeartbeatAssumption DEF HeartCheck, Receive, Answers, NO_CODE, PONG_CHAT_CODE
<1>1. TypeOK'
  BY DEF IInv, TypeOK
<1>2. PendingInv'
  BY DEF IInv, TypeOK, PendingInv, Running, Open
<1>3. AnswerInv'
  BY DEF IInv, TypeOK, PendingInv, AnswerInv, QuietInv, OwingInv, Running, Open, Answers
<1>4. StayInv'
  BY DEF IInv, TypeOK, StayInv, Open, Running
<1>5. ScanInv'
  BY DEF IInv, TypeOK, ScanInv, Open, Running
<1>6. QED
  BY <1>1, <1>2, <1>3, <1>4, <1>5 DEF IInv

LEMMA ScanNotActiveChannelStep ==
    ASSUME IInv, ScanNotActiveChannel
    PROVE  IInv'
<1> USE HeartbeatAssumption DEF ScanNotActiveChannel, Expired
<1>1. TypeOK'
  BY DEF IInv, TypeOK
<1>2. PendingInv'
  BY DEF IInv, TypeOK, PendingInv, Running, Open
<1>3. AnswerInv'
  BY DEF IInv, TypeOK, PendingInv, AnswerInv, QuietInv, OwingInv, Running, Open, Answers
<1>4. StayInv'
  <2> SUFFICES ASSUME NEW c \in Clients, Answers(c), alive[c]
               PROVE  state'[c] # "closed"
    BY DEF StayInv, Answers
  <2>1. state[c] # "closed"
    BY DEF IInv, StayInv
  <2>2. ~Expired(c)
    <3>1. CASE Open(c)
      <4>1. age[c] <= Limit /\ age[c] \in Nat
        BY <3>1, AnswererHeard DEF Running, IInv, TypeOK
      <4>2. QED
        BY <4>1
    <3>2. CASE ~Open(c)
      BY <3>2
    <3>3. QED
      BY <3>1, <3>2
  <2>3. QED
    BY <2>1, <2>2
<1>5. ScanInv'
  BY DEF IInv, TypeOK, ScanInv, Open, Running
<1>6. QED
  BY <1>1, <1>2, <1>3, <1>4, <1>5 DEF IInv

LEMMA TickStep ==
    ASSUME IInv, Tick
    PROVE  IInv'
<1> USE HeartbeatAssumption DEF Tick
<1>0. /\ age' \in [Clients -> Nat]
      /\ \A c \in Clients : age[c] \in Nat /\ pending[c] \subseteq 0 .. RoundTrip
  BY DEF IInv, TypeOK
<1>1. TypeOK'
  <2>1. pending' \in [Clients -> SUBSET (0 .. RoundTrip)]
    <3>1. ASSUME NEW c \in Clients, NEW a \in pending[c]
          PROVE  a + 1 \in 0 .. RoundTrip
      <4>1. Running(c)
        BY DEF IInv, PendingInv
      <4>2. a \in 0 .. RoundTrip /\ a # RoundTrip
        BY <4>1, <1>0
      <4>3. QED
        BY <4>2
    <3>2. QED
      BY <3>1
  <2>2. checkIn' \in [Clients -> 0 .. CheckPeriod]
    <3>1. ASSUME NEW c \in Clients
          PROVE  checkIn'[c] \in 0 .. CheckPeriod
      BY DEF IInv, TypeOK
    <3>2. QED
      BY <3>1
  <2>3. pingIn' \in 0 .. Period /\ scanIn' \in 0 .. ScanPeriod
    BY DEF IInv, TypeOK
  <2>4. QED
    BY <1>0, <2>1, <2>2, <2>3 DEF IInv, TypeOK
<1>2. PendingInv'
  BY DEF IInv, TypeOK, PendingInv, Running, Open
<1>3. AnswerInv'
  <2> SUFFICES ASSUME NEW c \in Clients, Answers(c), Running(c)
               PROVE  QuietInv(c)' /\ OwingInv(c)'
    BY DEF AnswerInv, Answers, Running, Open
  <2>1. age'[c] = age[c] + 1 /\ pingIn' = pingIn - 1 /\ pingIn \in Nat
    BY DEF Running, IInv, TypeOK
  <2>2. pending'[c] = {a + 1 : a \in pending[c]}
    OBVIOUS
  <2>3. QuietInv(c)'
    <3>1. CASE pending[c] = {}
      <4>1. age[c] + pingIn <= Period
        BY <3>1 DEF IInv, AnswerInv, QuietInv
      <4>2. QED
        BY <4>1, <2>1, <1>0 DEF QuietInv
    <3>2. CASE pending[c] # {}
      BY <3>2, <2>2 DEF QuietInv
    <3>3. QED
      BY <3>1, <3>2
  <2>4. OwingInv(c)'
    <3>1. CASE pending[c] = {}
      BY <3>1, <2>2 DEF OwingInv
    <3>2. CASE pending[c] # {}
      <4>1. PICK a \in pending[c] : age[c] <= Period + a
        BY <3>2 DEF IInv, AnswerInv, OwingInv
      <4>2. a \in Nat
        BY <1>0
      <4>3. a + 1 \in pending'[c] /\ age'[c] <= Period + (a + 1)
        BY <4>1, <4>2, <2>1, <2>2, <1>0
      <4>4. QED
        BY <4>3 DEF OwingInv
    <3>3. QED
      BY <3>1, <3>2
  <2>5. QED
    BY <2>3, <2>4
<1>4. StayInv'
  BY DEF IInv, TypeOK, StayInv, Open, Running
<1>5. ScanInv'
  BY DEF IInv, TypeOK, ScanInv, Open, Running
<1>6. QED
  BY <1>1, <1>2, <1>3, <1>4, <1>5 DEF IInv

LEMMA StutterStep ==
    ASSUME IInv, UNCHANGED vars
    PROVE  IInv'
BY DEF vars, IInv, TypeOK, PendingInv, AnswerInv, QuietInv, OwingInv, StayInv, ScanInv,
       Running, Open, Answers

\* The invariant holds in every reachable state.
THEOREM Invariance == Spec => []IInv
<1>1. IInv /\ [Next]_vars => IInv'
  BY ConnectStep, FallSilentStep, SendClientPingStep, PongStep, HeartCheckStep,
     ScanNotActiveChannelStep, TickStep, StutterStep DEF Next
<1>2. QED
  BY InitIInv, <1>1, PTL DEF Spec

\* The clocks and countdowns stay in range.
THEOREM TypeCorrect == Spec => []TypeOK
<1>1. IInv => TypeOK
  BY DEF IInv
<1>2. QED
  BY Invariance, <1>1, PTL

\* A client that answers its pings in time is never closed by the scan.
THEOREM AnswerersAreKept == Spec => []AnswerersStay
<1>1. IInv => AnswerersStay
  BY DEF IInv, StayInv, AnswerersStay
<1>2. QED
  BY Invariance, <1>1, PTL

\* No open connection has been silent for longer than the limit and a scan.
THEOREM SilenceIsBounded == Spec => []SilentGoInTime
<1>1. IInv => SilentGoInTime
  BY HeartbeatAssumption DEF IInv, TypeOK, ScanInv, SilentGoInTime
<1>2. QED
  BY Invariance, <1>1, PTL
=============================================================================

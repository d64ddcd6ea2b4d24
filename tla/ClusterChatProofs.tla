-------------------------- MODULE ClusterChatProofs --------------------------
(***************************************************************************)
(* Machine-checked proofs about ClusterChat, for any number of processes,    *)
(* queues, sessions and messages: nothing else is lost, the broker has one   *)
(* copy of a message per queue, and the whole is a MessageService.          *)
(***************************************************************************)
EXTENDS ClusterChat, FiniteSetTheorems, TLAPS

\* The message is somewhere it can be accounted for.
Kept(m) == m \in got \/ m \in offline \/ m \in swept \/ m \in missed

\* A handler that goes on to publish has stored first.
StoredInv == \A m \in Private : spc[m] \in {"publish", "done"} => Kept(m)

\* What a sweep spares in the count of unread messages has been written.
PickedInv == \A s \in Sessions : phase[s] = "sweep" => picked[s] \in got

\* Only a handler that found a channel writes to it, and only a connect handler
\* that picked a stored message writes one.
FoundInv == /\ \A m \in Msgs : spc[m] \in {"store", "write"} => m \in Private
            /\ \A s \in Sessions : phase[s] \in {"write", "sweep"} => picked[s] \in Private

IInv == TypeOK /\ FoundInv /\ PickedInv /\ StoredInv

-----------------------------------------------------------------------------
\* SetToSeq enumerates a finite set: it returns a sequence of its members.
LEMMA SetToSeqType ==
    ASSUME NEW S, IsFiniteSet(S)
    PROVE  SetToSeq(S) \in Seq(S)
<1>1. PICK n \in Nat : ExistsBijection(1 .. n, S)
  BY FS_NatBijection
<1>2. Cardinality(S) = n
  BY <1>1, FS_CountingElements
<1>3. PICK f \in Bijection(1 .. n, S) : TRUE
  BY <1>1 DEF ExistsBijection
<1>4. f \in [1 .. Cardinality(S) -> S] /\ IsInjective(f)
  BY <1>2, <1>3 DEF Bijection, Injection, IsInjective
<1>5. SetToSeq(S) \in [1 .. Cardinality(S) -> S]
  BY <1>4 DEF SetToSeq
<1>6. QED
  BY <1>1, <1>2, <1>5

-----------------------------------------------------------------------------
\* The initial state satisfies the invariant.
LEMMA InitIInv == Init => IInv
<1>1. Init => TypeOK
  BY ClusterAssumption DEF Init, TypeOK, Msgs
<1>2. QED
  BY <1>1 DEF Init, IInv, FoundInv, PickedInv, StoredInv, Msgs
-----------------------------------------------------------------------------
(* Every step preserves the invariant, action by action.                    *)

LEMMA DispatchStep ==
    ASSUME IInv,
           NEW m \in Msgs,
           Dispatch(m)
    PROVE  IInv'
<1> USE DEF Dispatch, sendVars, sessVars, mqVars, Goto
<1>1. TypeOK'
  BY ClusterAssumption DEF IInv, TypeOK, FoundInv, Msgs
<1>2. FoundInv'
  BY DEF IInv, TypeOK, FoundInv, Msgs
<1>3. PickedInv'
  BY DEF IInv, TypeOK, PickedInv, FoundInv
<1>4. StoredInv'
  BY ClusterAssumption DEF IInv, TypeOK, FoundInv, PickedInv, StoredInv, Kept, Msgs
<1>5. QED
  BY <1>1, <1>2, <1>3, <1>4 DEF IInv

LEMMA StoreStep ==
    ASSUME IInv,
           NEW m \in Msgs,
           Store(m)
    PROVE  IInv'
<1> USE DEF Store, sendVars, sessVars, mqVars, Goto
<1>1. TypeOK'
  BY ClusterAssumption DEF IInv, TypeOK, FoundInv, Msgs
<1>2. FoundInv'
  BY DEF IInv, TypeOK, FoundInv, Msgs
<1>3. PickedInv'
  BY DEF IInv, TypeOK, PickedInv, FoundInv
<1>4. StoredInv'
  BY DEF IInv, TypeOK, FoundInv, PickedInv, StoredInv, Kept, Msgs
<1>5. QED
  BY <1>1, <1>2, <1>3, <1>4 DEF IInv

LEMMA StoreFailsStep ==
    ASSUME IInv,
           NEW m \in Msgs,
           StoreFails(m)
    PROVE  IInv'
<1> USE DEF StoreFails, sendVars, sessVars, mqVars, Goto
<1>1. TypeOK'
  BY ClusterAssumption DEF IInv, TypeOK, FoundInv, Msgs
<1>2. FoundInv'
  BY DEF IInv, TypeOK, FoundInv, Msgs
<1>3. PickedInv'
  BY DEF IInv, TypeOK, PickedInv, FoundInv
<1>4. StoredInv'
  BY DEF IInv, TypeOK, FoundInv, PickedInv, StoredInv, Kept, Msgs
<1>5. QED
  BY <1>1, <1>2, <1>3, <1>4 DEF IInv

LEMMA PublishStep ==
    ASSUME IInv,
           NEW m \in Msgs,
           Publish(m)
    PROVE  IInv'
<1> USE DEF Publish, sendVars, sessVars, mqVars, Goto
<1>1. TypeOK'
  <2>1. queue' \in [Queues -> Seq(Msgs)]
    <3>1. \A q \in Queues : queue[q] \in Seq(Msgs)
      BY DEF IInv, TypeOK
    <3>2. \A q \in Queues : Append(queue[q], m) \in Seq(Msgs)
      BY <3>1
    <3>3. QED
      BY <3>2
  <2>2. spc' \in [Msgs -> {"new", "store", "publish", "write", "done"}]
    BY DEF IInv, TypeOK
  <2>3. QED
    BY <2>1, <2>2 DEF IInv, TypeOK
<1>2. FoundInv'
  BY DEF IInv, TypeOK, FoundInv, Msgs
<1>3. PickedInv'
  BY DEF IInv, TypeOK, PickedInv, FoundInv
<1>4. StoredInv'
  BY DEF IInv, TypeOK, FoundInv, PickedInv, StoredInv, Kept, Msgs
<1>5. QED
  BY <1>1, <1>2, <1>3, <1>4 DEF IInv

LEMMA PublishLostStep ==
    ASSUME IInv,
           NEW m \in Msgs,
           PublishLost(m)
    PROVE  IInv'
<1> USE DEF PublishLost, sendVars, sessVars, mqVars, Goto
<1>1. TypeOK'
  BY ClusterAssumption DEF IInv, TypeOK, FoundInv, Msgs
<1>2. FoundInv'
  BY DEF IInv, TypeOK, FoundInv, Msgs
<1>3. PickedInv'
  BY DEF IInv, TypeOK, PickedInv, FoundInv
<1>4. StoredInv'
  BY DEF IInv, TypeOK, FoundInv, PickedInv, StoredInv, Kept, Msgs
<1>5. QED
  BY <1>1, <1>2, <1>3, <1>4 DEF IInv

LEMMA WriteStep ==
    ASSUME IInv,
           NEW m \in Msgs,
           Write(m)
    PROVE  IInv'
<1> USE DEF Write, sendVars, sessVars, mqVars, Goto
<1>1. TypeOK'
  <2>1. m \in Private
    BY DEF IInv, FoundInv
  <2>2. got' \in SUBSET Private /\ missed' \in SUBSET Private
    <3>1. CASE got' = got \cup {m} /\ UNCHANGED missed
      BY <2>1, <3>1 DEF IInv, TypeOK
    <3>2. CASE missed' = missed \cup {m} /\ UNCHANGED got
      BY <2>1, <3>2 DEF IInv, TypeOK
    <3>3. QED
      BY <3>1, <3>2
  <2>3. /\ spc' \in [Msgs -> {"new", "store", "publish", "write", "done"}]
        /\ found' \in [Msgs -> Sessions \cup {NoSession}]
    BY DEF IInv, TypeOK
  <2>4. QED
    BY <2>2, <2>3 DEF IInv, TypeOK
<1>2. FoundInv'
  BY DEF IInv, TypeOK, FoundInv, Msgs
<1>3. PickedInv'
  BY DEF IInv, TypeOK, PickedInv, FoundInv
<1>4. StoredInv'
  BY DEF IInv, TypeOK, FoundInv, PickedInv, StoredInv, Kept, Msgs
<1>5. QED
  BY <1>1, <1>2, <1>3, <1>4 DEF IInv

LEMMA ReadOfflineStep ==
    ASSUME IInv,
           NEW s \in Sessions,
           ReadOffline(s)
    PROVE  IInv'
<1> USE DEF ReadOffline, sendVars, sessVars, mqVars, Done
<1>1. TypeOK'
  <2>1. /\ phase' \in [Sessions -> {"idle", "read", "write", "sweep"}]
        /\ picked' \in [Sessions -> Private \cup {NoMsg}]
    <3>1. CASE offline = {}
      BY <3>1 DEF IInv, TypeOK
    <3>2. CASE offline # {}
      BY <3>2 DEF IInv, TypeOK
    <3>3. QED
      BY <3>1, <3>2
  <2>2. QED
    BY <2>1 DEF IInv, TypeOK
<1>2. FoundInv'
  BY DEF IInv, TypeOK, FoundInv, Msgs
<1>3. PickedInv'
  BY DEF IInv, TypeOK, PickedInv, FoundInv
<1>4. StoredInv'
  BY DEF IInv, TypeOK, FoundInv, PickedInv, StoredInv, Kept, Msgs
<1>5. QED
  BY <1>1, <1>2, <1>3, <1>4 DEF IInv

LEMMA WriteOfflineStep ==
    ASSUME IInv,
           NEW s \in Sessions,
           WriteOffline(s)
    PROVE  IInv'
<1> USE DEF WriteOffline, sendVars, sessVars, mqVars
<1>1. TypeOK'
  BY ClusterAssumption DEF IInv, TypeOK, FoundInv, Msgs
<1>2. FoundInv'
  BY DEF IInv, TypeOK, FoundInv, Msgs
<1>3. PickedInv'
  BY DEF IInv, TypeOK, PickedInv, FoundInv
<1>4. StoredInv'
  BY DEF IInv, TypeOK, FoundInv, PickedInv, StoredInv, Kept, Msgs
<1>5. QED
  BY <1>1, <1>2, <1>3, <1>4 DEF IInv

LEMMA WriteOfflineFailsStep ==
    ASSUME IInv,
           NEW s \in Sessions,
           WriteOfflineFails(s)
    PROVE  IInv'
<1> USE DEF WriteOfflineFails, sendVars, sessVars, mqVars, Done
<1>1. TypeOK'
  BY ClusterAssumption DEF IInv, TypeOK, FoundInv, Msgs
<1>2. FoundInv'
  BY DEF IInv, TypeOK, FoundInv, Msgs
<1>3. PickedInv'
  BY DEF IInv, TypeOK, PickedInv, FoundInv
<1>4. StoredInv'
  BY DEF IInv, TypeOK, FoundInv, PickedInv, StoredInv, Kept, Msgs
<1>5. QED
  BY <1>1, <1>2, <1>3, <1>4 DEF IInv

LEMMA SweepStep ==
    ASSUME IInv,
           NEW s \in Sessions,
           Sweep(s)
    PROVE  IInv'
<1> USE DEF Sweep, sendVars, sessVars, mqVars, Done
<1>1. TypeOK'
  BY ClusterAssumption DEF IInv, TypeOK, FoundInv, Msgs
<1>2. FoundInv'
  BY DEF IInv, TypeOK, FoundInv, Msgs
<1>3. PickedInv'
  BY DEF IInv, TypeOK, PickedInv, FoundInv
<1>4. StoredInv'
  BY DEF IInv, TypeOK, FoundInv, PickedInv, StoredInv, Kept, Msgs
<1>5. QED
  BY <1>1, <1>2, <1>3, <1>4 DEF IInv

LEMMA RedisAccessFailsStep ==
    ASSUME IInv,
           NEW s \in Sessions,
           RedisAccessFails(s)
    PROVE  IInv'
<1> USE DEF RedisAccessFails, sendVars, sessVars, mqVars, Done
<1>1. TypeOK'
  BY ClusterAssumption DEF IInv, TypeOK, FoundInv, Msgs
<1>2. FoundInv'
  BY DEF IInv, TypeOK, FoundInv, Msgs
<1>3. PickedInv'
  BY DEF IInv, TypeOK, PickedInv, FoundInv
<1>4. StoredInv'
  BY DEF IInv, TypeOK, FoundInv, PickedInv, StoredInv, Kept, Msgs
<1>5. QED
  BY <1>1, <1>2, <1>3, <1>4 DEF IInv

LEMMA TearDownStep ==
    ASSUME IInv,
           NEW s \in Sessions,
           TearDown(s)
    PROVE  IInv'
<1> USE DEF TearDown, sendVars, sessVars, mqVars
<1>1. TypeOK'
  BY ClusterAssumption DEF IInv, TypeOK, FoundInv, Msgs
<1>2. FoundInv'
  BY DEF IInv, TypeOK, FoundInv, Msgs
<1>3. PickedInv'
  BY DEF IInv, TypeOK, PickedInv, FoundInv
<1>4. StoredInv'
  BY DEF IInv, TypeOK, FoundInv, PickedInv, StoredInv, Kept, Msgs
<1>5. QED
  BY <1>1, <1>2, <1>3, <1>4 DEF IInv

LEMMA ConnectStep ==
    ASSUME IInv,
           NEW s \in Sessions,
           Connect(s)
    PROVE  IInv'
<1> USE DEF Connect, sendVars, sessVars, mqVars
<1>1. TypeOK'
  BY ClusterAssumption DEF IInv, TypeOK, FoundInv, Msgs
<1>2. FoundInv'
  BY DEF IInv, TypeOK, FoundInv, Msgs
<1>3. PickedInv'
  BY DEF IInv, TypeOK, PickedInv, FoundInv
<1>4. StoredInv'
  BY DEF IInv, TypeOK, FoundInv, PickedInv, StoredInv, Kept, Msgs
<1>5. QED
  BY <1>1, <1>2, <1>3, <1>4 DEF IInv

LEMMA DisconnectStep ==
    ASSUME IInv,
           NEW s \in Sessions,
           Disconnect(s)
    PROVE  IInv'
<1> USE DEF Disconnect, sendVars, sessVars, mqVars
<1>1. TypeOK'
  BY ClusterAssumption DEF IInv, TypeOK, FoundInv, Msgs
<1>2. FoundInv'
  BY DEF IInv, TypeOK, FoundInv, Msgs
<1>3. PickedInv'
  BY DEF IInv, TypeOK, PickedInv, FoundInv
<1>4. StoredInv'
  BY DEF IInv, TypeOK, FoundInv, PickedInv, StoredInv, Kept, Msgs
<1>5. QED
  BY <1>1, <1>2, <1>3, <1>4 DEF IInv

LEMMA TakeStep ==
    ASSUME IInv,
           NEW n \in Nodes,
           Take(n)
    PROVE  IInv'
<1> USE DEF Take, sendVars, sessVars, mqVars, SetStage
<1>1. TypeOK'
  <2> DEFINE q == QueueOf[n]
  <2>1. q \in Queues /\ queue[q] \in Seq(Msgs) /\ queue[q] # <<>>
    BY ClusterAssumption DEF IInv, TypeOK
  <2>2. Head(queue[q]) \in Msgs /\ Tail(queue[q]) \in Seq(Msgs)
    BY <2>1
  <2>3. queue' = [queue EXCEPT ![q] = Tail(queue[q])]
    OBVIOUS
  <2>4. queue' \in [Queues -> Seq(Msgs)]
    BY <2>2, <2>3 DEF IInv, TypeOK
  <2>5. stage' \in [Nodes -> [Msgs -> {"none", "deliver", "ack", "stuck"}]]
    BY <2>2 DEF IInv, TypeOK
  <2>6. QED
    BY <2>4, <2>5 DEF IInv, TypeOK
<1>2. FoundInv'
  BY DEF IInv, TypeOK, FoundInv, Msgs
<1>3. PickedInv'
  BY DEF IInv, TypeOK, PickedInv, FoundInv
<1>4. StoredInv'
  BY DEF IInv, TypeOK, FoundInv, PickedInv, StoredInv, Kept, Msgs
<1>5. QED
  BY <1>1, <1>2, <1>3, <1>4 DEF IInv

LEMMA DeliverPrivateStep ==
    ASSUME IInv,
           NEW n \in Nodes,
           NEW m \in Msgs,
           DeliverPrivate(n, m)
    PROVE  IInv'
<1> USE DEF DeliverPrivate, sendVars, sessVars, mqVars, SetStage
<1>1. TypeOK'
  <2>1. got' \in SUBSET Private
    BY DEF IInv, TypeOK
  <2>2. stage' \in [Nodes -> [Msgs -> {"none", "deliver", "ack", "stuck"}]]
    BY DEF IInv, TypeOK
  <2>3. QED
    BY <2>1, <2>2 DEF IInv, TypeOK
<1>2. FoundInv'
  BY DEF IInv, TypeOK, FoundInv, Msgs
<1>3. PickedInv'
  BY DEF IInv, TypeOK, PickedInv, FoundInv
<1>4. StoredInv'
  BY DEF IInv, TypeOK, FoundInv, PickedInv, StoredInv, Kept, Msgs
<1>5. QED
  BY <1>1, <1>2, <1>3, <1>4 DEF IInv

LEMMA DeliverBroadcastStep ==
    ASSUME IInv,
           NEW n \in Nodes,
           NEW m \in Msgs,
           DeliverBroadcast(n, m)
    PROVE  IInv'
<1> USE DEF DeliverBroadcast, sendVars, sessVars, mqVars, SetStage
<1>1. TypeOK'
  BY ClusterAssumption DEF IInv, TypeOK, FoundInv, Msgs
<1>2. FoundInv'
  BY DEF IInv, TypeOK, FoundInv, Msgs
<1>3. PickedInv'
  BY DEF IInv, TypeOK, PickedInv, FoundInv
<1>4. StoredInv'
  BY DEF IInv, TypeOK, FoundInv, PickedInv, StoredInv, Kept, Msgs
<1>5. QED
  BY <1>1, <1>2, <1>3, <1>4 DEF IInv

LEMMA BroadcastSticksStep ==
    ASSUME IInv,
           NEW n \in Nodes,
           NEW m \in Msgs,
           BroadcastSticks(n, m)
    PROVE  IInv'
<1> USE DEF BroadcastSticks, sendVars, sessVars, mqVars, SetStage
<1>1. TypeOK'
  BY ClusterAssumption DEF IInv, TypeOK, FoundInv, Msgs
<1>2. FoundInv'
  BY DEF IInv, TypeOK, FoundInv, Msgs
<1>3. PickedInv'
  BY DEF IInv, TypeOK, PickedInv, FoundInv
<1>4. StoredInv'
  BY DEF IInv, TypeOK, FoundInv, PickedInv, StoredInv, Kept, Msgs
<1>5. QED
  BY <1>1, <1>2, <1>3, <1>4 DEF IInv

LEMMA AckStep ==
    ASSUME IInv,
           NEW n \in Nodes,
           NEW m \in Msgs,
           Ack(n, m)
    PROVE  IInv'
<1> USE DEF Ack, sendVars, sessVars, mqVars, SetStage
<1>1. TypeOK'
  BY ClusterAssumption DEF IInv, TypeOK, FoundInv, Msgs
<1>2. FoundInv'
  BY DEF IInv, TypeOK, FoundInv, Msgs
<1>3. PickedInv'
  BY DEF IInv, TypeOK, PickedInv, FoundInv
<1>4. StoredInv'
  BY DEF IInv, TypeOK, FoundInv, PickedInv, StoredInv, Kept, Msgs
<1>5. QED
  BY <1>1, <1>2, <1>3, <1>4 DEF IInv

LEMMA CrashStep ==
    ASSUME IInv,
           NEW n \in Nodes,
           Crash(n)
    PROVE  IInv'
<1> USE DEF Crash, sendVars, sessVars, mqVars
<1>1. TypeOK'
  <2>1. SetToSeq(Busy(n)) \in Seq(Msgs)
    <3>1. IsFiniteSet(Busy(n))
      BY ClusterAssumption, FS_Subset DEF Busy
    <3>2. SetToSeq(Busy(n)) \in Seq(Busy(n))
      BY <3>1, SetToSeqType
    <3>3. QED
      BY <3>2 DEF Busy
  <2>2. queue' \in [Queues -> Seq(Msgs)]
    <3> DEFINE q == QueueOf[n]
    <3>1. q \in Queues /\ queue[q] \in Seq(Msgs)
      BY ClusterAssumption DEF IInv, TypeOK
    <3>2. SetToSeq(Busy(n)) \o queue[q] \in Seq(Msgs)
      BY <2>1, <3>1
    <3>3. queue' = [queue EXCEPT ![q] = SetToSeq(Busy(n)) \o queue[q]]
      OBVIOUS
    <3>4. QED
      BY <3>2, <3>3 DEF IInv, TypeOK
  <2>3. stage' \in [Nodes -> [Msgs -> {"none", "deliver", "ack", "stuck"}]]
    BY DEF IInv, TypeOK
  <2>4. /\ spc' \in [Msgs -> {"new", "store", "publish", "write", "done"}]
        /\ found' \in [Msgs -> Sessions \cup {NoSession}]
        /\ missed' \in SUBSET Private
    BY DEF IInv, TypeOK
  <2>5. /\ link' \in [Sessions -> {"new", "up", "down", "over"}]
        /\ phase' \in [Sessions -> {"idle", "read", "write", "sweep"}]
        /\ picked' \in [Sessions -> Private \cup {NoMsg}]
        /\ entry' \in [Nodes -> Sessions \cup {NoSession}]
    BY DEF IInv, TypeOK
  <2>6. QED
    BY <2>2, <2>3, <2>4, <2>5 DEF IInv, TypeOK
<1>2. FoundInv'
  BY DEF IInv, TypeOK, FoundInv, Msgs
<1>3. PickedInv'
  BY DEF IInv, TypeOK, PickedInv, FoundInv
<1>4. StoredInv'
  BY DEF IInv, TypeOK, FoundInv, PickedInv, StoredInv, Kept, Msgs
<1>5. QED
  BY <1>1, <1>2, <1>3, <1>4 DEF IInv

LEMMA StutterStep ==
    ASSUME IInv, UNCHANGED vars
    PROVE  IInv'
BY DEF vars, sendVars, sessVars, mqVars, IInv, TypeOK, FoundInv, PickedInv, StoredInv, Kept

\* Every step, whoever takes it, preserves the invariant.
LEMMA NextIInv ==
    ASSUME IInv, [Next]_vars
    PROVE  IInv'
<1>1. ASSUME NEW m \in Msgs, Sender(m)
      PROVE  IInv'
  BY <1>1, DispatchStep, StoreStep, StoreFailsStep, PublishStep, PublishLostStep, WriteStep DEF Sender
<1>2. ASSUME NEW s \in Sessions, Session(s) \/ Connect(s) \/ Disconnect(s)
      PROVE  IInv'
  BY <1>2, ReadOfflineStep, WriteOfflineStep, WriteOfflineFailsStep, SweepStep, RedisAccessFailsStep, TearDownStep, ConnectStep, DisconnectStep DEF Session
<1>3. ASSUME NEW n \in Nodes, Consumer(n) \/ Crash(n)
      PROVE  IInv'
  BY <1>3, TakeStep, DeliverPrivateStep, DeliverBroadcastStep, BroadcastSticksStep, AckStep, CrashStep DEF Consumer
<1>4. CASE UNCHANGED vars
  BY <1>4, StutterStep
<1>5. QED
  BY <1>1, <1>2, <1>3, <1>4 DEF Next

-----------------------------------------------------------------------------
\* The invariant holds in every reachable state.
THEOREM Invariance == Spec => []IInv
<1>1. IInv /\ [Next]_vars => IInv'
  BY NextIInv
<1>2. QED
  BY InitIInv, <1>1, PTL DEF Spec

\* Every variable keeps its type (the store and the maps hold messages and
\* sessions only, a queue is a sequence of messages after any requeue).
THEOREM TypeCorrect == Spec => []TypeOK
<1>1. IInv => TypeOK
  BY DEF IInv
<1>2. QED
  BY Invariance, <1>1, PTL

\* A dispatched private message has been written to the receiver, is in the
\* offline store, or is one of those swept unread or missed.
THEOREM NothingElseIsLost == Spec => []KeptUntilSwept
<1>1. IInv => KeptUntilSwept
  BY DEF IInv, StoredInv, Kept, KeptUntilSwept
<1>2. QED
  BY Invariance, <1>1, PTL

-----------------------------------------------------------------------------
(* The broker's copies: one per queue, whether processes share queues or not. *)

Holding(n, m) == stage[n][m] # "none"

\* What is in a queue or with a consumer has left the handler that dispatched it.
LeftInv == \A m \in Msgs : spc[m] # "done" =>
               /\ \A q \in Queues : ~InQueue(q, m)
               /\ \A n \in Nodes : ~Holding(n, m)

\* OneCopyPerQueue, a conjunct for each pair of places.
CopiesInv ==
    /\ \A q \in Queues, m \in Msgs : AtMostOnce(queue[q], m)
    /\ \A n \in Nodes, m \in Msgs : Holding(n, m) => ~InQueue(QueueOf[n], m)
    /\ \A n, p \in Nodes, m \in Msgs :
           QueueOf[n] = QueueOf[p] /\ Holding(n, m) /\ Holding(p, m) => n = p

Copied == LeftInv /\ CopiesInv

-----------------------------------------------------------------------------
(* Sequences.                                                               *)

\* Appending an element that is not there keeps each element at most once.
LEMMA AppendOnce ==
    ASSUME NEW S, NEW seq \in Seq(S), NEW x \in S, NEW m,
           AtMostOnce(seq, m),
           x = m => m \notin Range(seq)
    PROVE  /\ AtMostOnce(Append(seq, x), m)
           /\ m \in Range(Append(seq, x)) <=> m = x \/ m \in Range(seq)
<1>1. /\ Len(seq) \in Nat
      /\ DOMAIN seq = 1 .. Len(seq)
      /\ DOMAIN Append(seq, x) = 1 .. Len(seq) + 1
      /\ \A i \in 1 .. Len(seq) : Append(seq, x)[i] = seq[i]
      /\ Append(seq, x)[Len(seq) + 1] = x
  OBVIOUS
<1>2. AtMostOnce(Append(seq, x), m)
  BY <1>1 DEF AtMostOnce, Range
<1>3. m \in Range(Append(seq, x)) <=> m = x \/ m \in Range(seq)
  BY <1>1 DEF Range
<1>4. QED
  BY <1>2, <1>3

\* The tail has what the sequence has, but for its head.
LEMMA TailOnce ==
    ASSUME NEW S, NEW seq \in Seq(S), seq # <<>>, NEW m, AtMostOnce(seq, m)
    PROVE  /\ AtMostOnce(Tail(seq), m)
           /\ m \in Range(Tail(seq)) => m \in Range(seq) /\ m # Head(seq)
           /\ Head(seq) \in Range(seq)
<1>1. /\ Len(seq) \in Nat \ {0}
      /\ DOMAIN seq = 1 .. Len(seq)
      /\ DOMAIN Tail(seq) = 1 .. Len(seq) - 1
      /\ \A i \in 1 .. Len(seq) - 1 : Tail(seq)[i] = seq[i + 1]
      /\ Head(seq) = seq[1]
  OBVIOUS
<1>2. AtMostOnce(Tail(seq), m)
  BY <1>1 DEF AtMostOnce
<1>3. m \in Range(Tail(seq)) => m \in Range(seq) /\ m # Head(seq)
  <2>1. SUFFICES ASSUME NEW i \in 1 .. Len(seq) - 1, seq[i + 1] = m
                 PROVE  m \in Range(seq) /\ m # Head(seq)
    BY <1>1 DEF Range
  <2>2. i + 1 \in DOMAIN seq /\ 1 \in DOMAIN seq /\ i + 1 # 1
    BY <1>1
  <2>3. QED
    BY <1>1, <2>1, <2>2 DEF AtMostOnce, Range
<1>4. Head(seq) \in Range(seq)
  BY <1>1 DEF Range
<1>5. QED
  BY <1>2, <1>3, <1>4

\* Sequences with no element in common.
LEMMA ConcatOnce ==
    ASSUME NEW S, NEW s \in Seq(S), NEW t \in Seq(S), NEW m,
           AtMostOnce(s, m), AtMostOnce(t, m),
           ~(m \in Range(s) /\ m \in Range(t))
    PROVE  /\ AtMostOnce(s \o t, m)
           /\ m \in Range(s \o t) <=> m \in Range(s) \/ m \in Range(t)
<1>1. /\ Len(s) \in Nat /\ Len(t) \in Nat
      /\ DOMAIN s = 1 .. Len(s) /\ DOMAIN t = 1 .. Len(t)
      /\ DOMAIN (s \o t) = 1 .. Len(s) + Len(t)
      /\ \A i \in 1 .. Len(s) + Len(t) :
             (s \o t)[i] = IF i <= Len(s) THEN s[i] ELSE t[i - Len(s)]
  OBVIOUS
<1>2. ASSUME NEW i \in DOMAIN (s \o t), (s \o t)[i] = m
      PROVE  \/ i \in DOMAIN s /\ s[i] = m /\ m \in Range(s)
             \/ i - Len(s) \in DOMAIN t /\ t[i - Len(s)] = m /\ m \in Range(t)
  BY <1>1, <1>2 DEF Range
<1>3. AtMostOnce(s \o t, m)
  <2>1. SUFFICES ASSUME NEW i \in DOMAIN (s \o t), NEW j \in DOMAIN (s \o t),
                        (s \o t)[i] = m, (s \o t)[j] = m
                 PROVE  i = j
    BY DEF AtMostOnce
  <2>2. CASE m \in Range(s)
    BY <1>2, <2>1, <2>2 DEF AtMostOnce
  <2>3. CASE m \notin Range(s)
    <3>1. /\ i - Len(s) \in DOMAIN t /\ t[i - Len(s)] = m
          /\ j - Len(s) \in DOMAIN t /\ t[j - Len(s)] = m
      BY <1>2, <2>1, <2>3
    <3>2. i - Len(s) = j - Len(s)
      BY <3>1 DEF AtMostOnce
    <3>3. QED
      BY <1>1, <3>2
  <2>4. QED
    BY <2>2, <2>3
<1>4. m \in Range(s \o t) => m \in Range(s) \/ m \in Range(t)
  BY <1>2 DEF Range
<1>5. ASSUME NEW i \in DOMAIN s, s[i] = m
      PROVE  m \in Range(s \o t)
  BY <1>1, <1>5 DEF Range
<1>6. ASSUME NEW i \in DOMAIN t, t[i] = m
      PROVE  m \in Range(s \o t)
  <2>1. i + Len(s) \in DOMAIN (s \o t) /\ (s \o t)[i + Len(s)] = m
    BY <1>1, <1>6
  <2>2. QED
    BY <2>1 DEF Range
<1>7. QED
  BY <1>3, <1>4, <1>5, <1>6 DEF Range

\* SetToSeq enumerates a set without repetition.
LEMMA SetToSeqOnce ==
    ASSUME NEW S, IsFiniteSet(S), NEW m
    PROVE  /\ SetToSeq(S) \in Seq(S)
           /\ AtMostOnce(SetToSeq(S), m)
           /\ m \in Range(SetToSeq(S)) => m \in S
<1>1. PICK n \in Nat : ExistsBijection(1 .. n, S)
  BY FS_NatBijection
<1>2. Cardinality(S) = n
  BY <1>1, FS_CountingElements
<1>3. PICK f \in Bijection(1 .. n, S) : TRUE
  BY <1>1 DEF ExistsBijection
<1>4. f \in [1 .. Cardinality(S) -> S] /\ IsInjective(f)
  BY <1>2, <1>3 DEF Bijection, Injection, IsInjective
<1>5. SetToSeq(S) \in [1 .. Cardinality(S) -> S] /\ IsInjective(SetToSeq(S))
  BY <1>4 DEF SetToSeq
<1>6. SetToSeq(S) \in Seq(S)
  BY SetToSeqType
<1>7. AtMostOnce(SetToSeq(S), m)
  BY <1>5 DEF AtMostOnce, IsInjective
<1>8. m \in Range(SetToSeq(S)) => m \in S
  BY <1>5 DEF Range
<1>9. QED
  BY <1>6, <1>7, <1>8

-----------------------------------------------------------------------------
(* Every step preserves the invariant.                                      *)

LEMMA InitCopied == Init => Copied
BY ClusterAssumption DEF Init, Copied, LeftInv, CopiesInv, Holding, InQueue, AtMostOnce, Range

\* Steps that take nothing from a queue or a consumer and put nothing there.
LEMMA QuietStep ==
    ASSUME Copied, UNCHANGED mqVars,
           \A m \in Msgs : spc'[m] # "done" => spc[m] # "done"
    PROVE  Copied'
BY DEF Copied, LeftInv, CopiesInv, Holding, InQueue, mqVars

LEMMA SenderStep ==
    ASSUME IInv, Copied, NEW m \in Msgs, Sender(m)
    PROVE  Copied'
<1>1. CASE Publish(m)
  <2>1. /\ queue' = [q \in Queues |-> Append(queue[q], m)]
        /\ UNCHANGED stage
        /\ spc[m] # "done" /\ spc' = [spc EXCEPT ![m] = "done"]
    BY <1>1 DEF Publish, Goto
  <2>2. ASSUME NEW q \in Queues, NEW k \in Msgs
        PROVE  /\ AtMostOnce(queue'[q], k)
               /\ InQueue(q, k)' <=> k = m \/ InQueue(q, k)
    <3>1. queue[q] \in Seq(Msgs) /\ AtMostOnce(queue[q], k)
      BY DEF IInv, TypeOK, Copied, CopiesInv
    <3>2. k = m => k \notin Range(queue[q])
      BY <2>1 DEF Copied, LeftInv, InQueue
    <3>3. queue'[q] = Append(queue[q], m)
      BY <2>1
    <3>4. QED
      BY <3>1, <3>2, <3>3, AppendOnce DEF InQueue
  <2>3. \A n \in Nodes : QueueOf[n] \in Queues /\ ~Holding(n, m)
    BY <2>1, ClusterAssumption DEF Copied, LeftInv
  <2>4. LeftInv'
    BY <2>1, <2>2 DEF IInv, TypeOK, Copied, LeftInv, Holding
  <2>5. CopiesInv'
    BY <2>1, <2>2, <2>3 DEF Copied, CopiesInv, Holding
  <2>6. QED
    BY <2>4, <2>5 DEF Copied
<1>2. CASE ~Publish(m)
  <2>1. UNCHANGED mqVars /\ spc[m] # "done"
    BY <1>2 DEF Sender, Dispatch, Store, StoreFails, PublishLost, Write, mqVars
  <2>2. \A k \in Msgs : k # m => spc'[k] = spc[k]
    BY <1>2 DEF IInv, TypeOK, Sender, Dispatch, Store, StoreFails, PublishLost, Write, Goto
  <2>3. QED
    BY <2>1, <2>2, QuietStep
<1>3. QED
  BY <1>1, <1>2

LEMMA SessionStep ==
    ASSUME Copied, NEW s \in Sessions, Session(s) \/ Connect(s) \/ Disconnect(s)
    PROVE  Copied'
<1>1. UNCHANGED mqVars /\ UNCHANGED spc
  BY DEF Session, ReadOffline, WriteOffline, WriteOfflineFails, Sweep, RedisAccessFails,
         TearDown, Connect, Disconnect, sendVars, mqVars
<1>2. QED
  BY <1>1, QuietStep

LEMMA ConsumerStep ==
    ASSUME IInv, Copied, NEW n \in Nodes, Consumer(n)
    PROVE  Copied'
<1> USE ClusterAssumption
<1>1. CASE Take(n)
  <2>1. PICK q \in Queues, m \in Msgs :
            /\ q = QueueOf[n] /\ queue[q] \in Seq(Msgs) /\ queue[q] # <<>>
            /\ m = Head(queue[q])
    BY <1>1 DEF Take, IInv, TypeOK
  <2>2. /\ queue' = [queue EXCEPT ![q] = Tail(queue[q])]
        /\ stage' = [stage EXCEPT ![n][m] = "deliver"]
        /\ UNCHANGED spc
    BY <1>1, <2>1 DEF Take, SetStage, sendVars
  <2>3. InQueue(q, m) /\ spc[m] = "done"
    BY <2>1, TailOnce DEF Copied, LeftInv, CopiesInv, InQueue
  <2>4. \A p \in Nodes : QueueOf[p] = q => ~Holding(p, m)
    BY <2>1, <2>3 DEF Copied, CopiesInv
  <2>5. \A k \in Msgs : /\ AtMostOnce(Tail(queue[q]), k)
                        /\ k \in Range(Tail(queue[q])) => InQueue(q, k) /\ k # m
    BY <2>1, TailOnce DEF Copied, CopiesInv, InQueue
  <2>6. \A p \in Queues, k \in Msgs : AtMostOnce(queue'[p], k)
    BY <2>1, <2>2, <2>5 DEF IInv, TypeOK, Copied, CopiesInv
  <2>7. \A p \in Queues, k \in Msgs : InQueue(p, k)' => InQueue(p, k)
    BY <2>1, <2>2, <2>5 DEF IInv, TypeOK, InQueue
  <2>8. \A k \in Msgs : InQueue(q, k)' => k # m
    BY <2>1, <2>2, <2>5 DEF IInv, TypeOK, InQueue
  <2>9. \A p \in Nodes, k \in Msgs : Holding(p, k)' => Holding(p, k) \/ (p = n /\ k = m)
    BY <2>1, <2>2 DEF IInv, TypeOK, Holding
  <2>10. q \in Queues /\ m \in Msgs /\ q = QueueOf[n]
    BY <2>1
  <2>11. LeftInv'
    BY <2>2, <2>3, <2>7, <2>9, <2>10 DEF Copied, LeftInv
  <2>12. CopiesInv'
    BY <2>4, <2>6, <2>7, <2>8, <2>9, <2>10 DEF Copied, CopiesInv
  <2>13. QED
    BY <2>11, <2>12 DEF Copied
<1>2. ASSUME NEW m \in Msgs,
             DeliverPrivate(n, m) \/ DeliverBroadcast(n, m) \/ BroadcastSticks(n, m) \/ Ack(n, m)
      PROVE  Copied'
  <2>1. /\ UNCHANGED <<spc, queue>> /\ Holding(n, m)
        /\ \E st \in {"ack", "stuck", "none"} : stage' = [stage EXCEPT ![n][m] = st]
    BY <1>2 DEF DeliverPrivate, DeliverBroadcast, BroadcastSticks, Ack, SetStage, Holding, sendVars
  <2>2. \A p \in Nodes, k \in Msgs : Holding(p, k)' => Holding(p, k)
    BY <2>1 DEF IInv, TypeOK, Holding
  <2>3. QED
    BY <2>1, <2>2 DEF Copied, LeftInv, CopiesInv, InQueue
<1>3. QED
  BY <1>1, <1>2 DEF Consumer

LEMMA CrashCopies ==
    ASSUME IInv, Copied, NEW n \in Nodes, Crash(n)
    PROVE  Copied'
<1> USE ClusterAssumption
<1> DEFINE q == QueueOf[n]
           back == SetToSeq(Busy(n))
<1>1. q \in Queues /\ queue[q] \in Seq(Msgs)
  BY DEF IInv, TypeOK
<1>2. /\ queue' = [queue EXCEPT ![q] = back \o queue[q]]
      /\ stage' = [stage EXCEPT ![n] = [m \in Msgs |-> "none"]]
      /\ \A m \in Msgs : spc'[m] # "done" => spc[m] # "done"
  BY DEF Crash
<1>3. IsFiniteSet(Busy(n)) /\ Busy(n) = {m \in Msgs : Holding(n, m)}
  BY FS_Subset DEF Busy, Holding
<1>4. back \in Seq(Msgs)
  BY <1>3, SetToSeqType
<1>5. \A m \in Msgs : AtMostOnce(back, m) /\ (m \in Range(back) => Holding(n, m))
  BY <1>3, SetToSeqOnce
<1>6. \A m \in Msgs : Holding(n, m) => m \notin Range(queue[q])
  BY DEF Copied, CopiesInv, InQueue
<1>7. ASSUME NEW m \in Msgs
      PROVE  /\ AtMostOnce(back \o queue[q], m)
             /\ m \in Range(back \o queue[q]) => Holding(n, m) \/ InQueue(q, m)
  <2>1. AtMostOnce(queue[q], m)
    BY <1>1 DEF Copied, CopiesInv
  <2>2. QED
    BY <1>1, <1>4, <1>5, <1>6, <2>1, ConcatOnce DEF InQueue
<1>8. \A p \in Queues, m \in Msgs :
          /\ AtMostOnce(queue'[p], m)
          /\ InQueue(p, m)' => InQueue(p, m) \/ (p = q /\ Holding(n, m))
  BY <1>2, <1>7 DEF IInv, TypeOK, Copied, CopiesInv, InQueue
<1>9. \A p \in Nodes, m \in Msgs : Holding(p, m)' => Holding(p, m) /\ p # n
  BY <1>2 DEF IInv, TypeOK, Holding
<1>10. LeftInv'
  BY <1>2, <1>8, <1>9 DEF Copied, LeftInv
<1>11. CopiesInv'
  BY <1>8, <1>9 DEF Copied, CopiesInv
<1>12. QED
  BY <1>10, <1>11 DEF Copied

\* Every step, whoever takes it, preserves the invariant.
LEMMA NextCopied ==
    ASSUME IInv, Copied, [Next]_vars
    PROVE  Copied'
<1>1. CASE UNCHANGED vars
  BY <1>1, QuietStep DEF vars, sendVars, mqVars
<1>2. CASE Next
  BY <1>2, SenderStep, SessionStep, ConsumerStep, CrashCopies DEF Next
<1>3. QED
  BY <1>1, <1>2

-----------------------------------------------------------------------------
THEOREM CopiesInvariance == Spec => []Copied
<1>1. IInv /\ Copied /\ [Next]_vars => Copied'
  BY NextCopied
<1>2. QED
  BY InitCopied, Invariance, <1>1, PTL DEF Spec

\* In no queue, and with no two consumers of a queue, is there a second copy of a
\* message, through every requeue after a crash, for every way processes share
\* queues.
THEOREM OneCopy == Spec => []OneCopyPerQueue
<1>1. Copied => OneCopyPerQueue
  BY DEF Copied, CopiesInv, OneCopyPerQueue, Holders, Holding
<1>2. QED
  BY CopiesInvariance, <1>1, PTL

(***************************************************************************)
(* ClusterChat implements MessageService: its initial states map to initial   *)
(* states, and each of its steps to a step of the service or to none.         *)
(***************************************************************************)
Visited == \E s \in Sessions : link[s] # "new"
Faulty == RedisFails \/ Crashes

\* Nothing delivers, stores or picks a message that has not been dispatched.
NewInv == \A m \in Private : spc[m] = "new" =>
              /\ m \notin got /\ m \notin offline
              /\ \A s \in Sessions : phase[s] = "write" => picked[s] # m

\* Entries, handlers that write and handlers of the store are of sessions that
\* have been connected.
VisitInv == /\ \A n \in Nodes : entry[n] # NoSession => link[entry[n]] # "new"
            /\ \A m \in Private : spc[m] = "write" =>
                   found[m] \in Sessions /\ link[found[m]] # "new"
            /\ \A s \in Sessions : phase[s] # "idle" => link[s] # "new"

\* Before the first connection, and as long as nothing fails, what was stored is
\* in the store.
StoreInv == ~Visited /\ ~Faulty =>
                \A m \in Private : spc[m] \in {"publish", "done"} => m \in offline

SInv == NewInv /\ VisitInv /\ StoreInv

LEMMA InitSInv == Init => SInv
BY DEF Init, SInv, NewInv, VisitInv, StoreInv, Msgs

-----------------------------------------------------------------------------
(* Every step preserves the invariant.                                      *)

LEMMA SenderSInv ==
    ASSUME IInv, SInv, NEW m \in Msgs, Sender(m)
    PROVE  SInv'
<1> USE ClusterAssumption DEF SInv, IInv, TypeOK, Goto, sessVars, Msgs
<1>1. CASE Dispatch(m)
  <2>1. NewInv'
    BY <1>1 DEF Dispatch, NewInv
  <2>2. VisitInv'
    BY <1>1 DEF Dispatch, VisitInv
  <2>3. StoreInv'
    BY <1>1 DEF Dispatch, StoreInv, Visited
  <2>4. QED
    BY <2>1, <2>2, <2>3
<1>2. CASE Store(m)
  <2>1. NewInv'
    BY <1>2 DEF Store, NewInv
  <2>2. VisitInv'
    BY <1>2 DEF Store, VisitInv
  <2>3. StoreInv'
    BY <1>2 DEF Store, StoreInv, Visited
  <2>4. QED
    BY <2>1, <2>2, <2>3
<1>3. CASE StoreFails(m)
  <2>1. NewInv'
    BY <1>3 DEF StoreFails, NewInv
  <2>2. VisitInv'
    BY <1>3 DEF StoreFails, VisitInv
  <2>3. StoreInv'
    BY <1>3 DEF StoreFails, StoreInv, Faulty
  <2>4. QED
    BY <2>1, <2>2, <2>3
<1>4. CASE Publish(m) \/ PublishLost(m)
  <2>1. NewInv'
    BY <1>4 DEF Publish, PublishLost, NewInv
  <2>2. VisitInv'
    BY <1>4 DEF Publish, PublishLost, VisitInv
  <2>3. StoreInv'
    BY <1>4 DEF Publish, PublishLost, StoreInv, Visited
  <2>4. QED
    BY <2>1, <2>2, <2>3
<1>5. CASE Write(m)
  <2>1. NewInv'
    BY <1>5 DEF Write, NewInv
  <2>2. VisitInv'
    BY <1>5 DEF Write, VisitInv
  <2>3. StoreInv'
    <3>1. m \in Private /\ Visited
      BY <1>5 DEF Write, FoundInv, VisitInv, Visited
    <3>2. Visited'
      BY <1>5, <3>1 DEF Write, Visited
    <3>3. QED
      BY <3>2 DEF StoreInv
  <2>4. QED
    BY <2>1, <2>2, <2>3
<1>6. QED
  BY <1>1, <1>2, <1>3, <1>4, <1>5 DEF Sender

LEMMA SessionSInv ==
    ASSUME IInv, SInv, NEW s \in Sessions, Session(s) \/ Connect(s) \/ Disconnect(s)
    PROVE  SInv'
<1> USE ClusterAssumption DEF SInv, IInv, TypeOK, FoundInv, Done, sendVars, Msgs
<1>1. CASE ReadOffline(s)
  <2>1. NewInv'
    BY <1>1 DEF ReadOffline, NewInv
  <2>2. VisitInv'
    BY <1>1 DEF ReadOffline, VisitInv
  <2>3. StoreInv'
    BY <1>1 DEF ReadOffline, StoreInv, Visited
  <2>4. QED
    BY <2>1, <2>2, <2>3
<1>2. CASE WriteOffline(s)
  <2>1. NewInv'
    BY <1>2 DEF WriteOffline, NewInv
  <2>2. VisitInv'
    BY <1>2 DEF WriteOffline, VisitInv
  <2>3. StoreInv'
    BY <1>2 DEF WriteOffline, StoreInv, Visited
  <2>4. QED
    BY <2>1, <2>2, <2>3
<1>3. CASE WriteOfflineFails(s)
  <2>1. NewInv'
    BY <1>3 DEF WriteOfflineFails, NewInv
  <2>2. VisitInv'
    BY <1>3 DEF WriteOfflineFails, VisitInv
  <2>3. StoreInv'
    BY <1>3 DEF WriteOfflineFails, StoreInv, Visited
  <2>4. QED
    BY <2>1, <2>2, <2>3
<1>4. CASE Sweep(s)
  <2>1. NewInv'
    BY <1>4 DEF Sweep, NewInv
  <2>2. VisitInv'
    BY <1>4 DEF Sweep, VisitInv
  <2>3. StoreInv'
    BY <1>4 DEF Sweep, VisitInv, StoreInv, Visited
  <2>4. QED
    BY <2>1, <2>2, <2>3
<1>5. CASE RedisAccessFails(s)
  <2>1. NewInv'
    BY <1>5 DEF RedisAccessFails, NewInv
  <2>2. VisitInv'
    BY <1>5 DEF RedisAccessFails, VisitInv
  <2>3. StoreInv'
    BY <1>5 DEF RedisAccessFails, StoreInv, Visited
  <2>4. QED
    BY <2>1, <2>2, <2>3
<1>6. CASE TearDown(s)
  <2>1. NewInv'
    BY <1>6 DEF TearDown, NewInv
  <2>2. VisitInv'
    BY <1>6 DEF TearDown, VisitInv
  <2>3. StoreInv'
    BY <1>6 DEF TearDown, StoreInv, Visited
  <2>4. QED
    BY <2>1, <2>2, <2>3
<1>7. CASE Connect(s)
  <2>1. NewInv'
    BY <1>7 DEF Connect, NewInv
  <2>2. VisitInv'
    BY <1>7 DEF Connect, VisitInv
  <2>3. StoreInv'
    BY <1>7 DEF Connect, StoreInv, Visited
  <2>4. QED
    BY <2>1, <2>2, <2>3
<1>8. CASE Disconnect(s)
  <2>1. NewInv'
    BY <1>8 DEF Disconnect, NewInv
  <2>2. VisitInv'
    BY <1>8 DEF Disconnect, VisitInv
  <2>3. StoreInv'
    BY <1>8 DEF Disconnect, StoreInv, Visited
  <2>4. QED
    BY <2>1, <2>2, <2>3
<1>9. QED
  BY <1>1, <1>2, <1>3, <1>4, <1>5, <1>6, <1>7, <1>8 DEF Session

LEMMA ConsumerSInv ==
    ASSUME IInv, Copied, SInv, NEW n \in Nodes, Consumer(n)
    PROVE  SInv'
<1> USE DEF SInv, sendVars, sessVars
<1>1. UNCHANGED <<sendVars, sessVars, offline>>
  BY DEF Consumer, Take, DeliverPrivate, DeliverBroadcast, BroadcastSticks, Ack
<1>2. \A m \in Private : m \in got' => m \in got \/ spc[m] # "new"
  <2>1. CASE UNCHANGED got
    BY <2>1
  <2>2. ASSUME NEW m \in Msgs, DeliverPrivate(n, m)
        PROVE  got' \subseteq got \cup {m} /\ spc[m] = "done"
    BY <2>2 DEF DeliverPrivate, Copied, LeftInv, Holding
  <2>3. QED
    BY <2>1, <2>2 DEF Consumer, Take, DeliverBroadcast, BroadcastSticks, Ack
<1>3. NewInv'
  BY <1>1, <1>2 DEF NewInv
<1>4. VisitInv' /\ StoreInv'
  BY <1>1 DEF VisitInv, StoreInv, Visited
<1>5. QED
  BY <1>3, <1>4

LEMMA CrashSInv ==
    ASSUME IInv, SInv, NEW n \in Nodes, Crash(n)
    PROVE  SInv'
<1> USE ClusterAssumption DEF SInv, IInv, TypeOK, Crash
<1>1. NewInv'
  BY DEF NewInv, Msgs
<1>2. VisitInv'
  BY DEF VisitInv, Msgs
<1>3. StoreInv'
  BY DEF StoreInv, Faulty
<1>4. QED
  BY <1>1, <1>2, <1>3

\* Every step, whoever takes it, preserves the invariant.
LEMMA NextSInv ==
    ASSUME IInv, Copied, SInv, [Next]_vars
    PROVE  SInv'
<1>1. CASE UNCHANGED vars
  BY <1>1 DEF vars, sendVars, sessVars, SInv, NewInv, VisitInv, StoreInv, Visited
<1>2. CASE Next
  BY <1>2, SenderSInv, SessionSInv, ConsumerSInv, CrashSInv DEF Next
<1>3. QED
  BY <1>1, <1>2

-----------------------------------------------------------------------------
(* Kinds of steps of the service.                                           *)

MessageStep == [Service!Next]_(Service!vars)

\* What a message's status says.
SameNews == \A m \in Private : (spc'[m] = "new") = (spc[m] = "new")

\* Before the first connection, and as long as nothing fails, nothing is lost.
LEMMA NothingLost ==
    ASSUME IInv, SInv, ~Visited, ~Faulty, NEW m \in Private, spc[m] # "new"
    PROVE  Alive(m)
BY DEF IInv, TypeOK, SInv, StoreInv, Alive, Msgs

\* Steps after which no message is anywhere it has not been lose some of them, or
\* none.
LEMMA LoseStep ==
    ASSUME IInv, SInv, IInv', SInv', SameNews, UNCHANGED got, Visited' = Visited,
           \A m \in Private : Alive(m)' => Alive(m)
    PROVE  MessageStep
<1>1. CASE ~Visited /\ ~Faulty
  <2>1. \A m \in Private : spc[m] # "new" => Alive(m)
    BY <1>1, NothingLost
  <2>2. \A m \in Private : spc'[m] # "new" => Alive(m)'
    BY <1>1 DEF IInv, TypeOK, SInv, StoreInv, Alive, Msgs
  <2>3. \A m \in Private : Status(m)' = Status(m)
    BY <2>1, <2>2 DEF Status, SameNews
  <2>4. QED
    BY <2>3 DEF MessageStep, Service!vars, Visited
<1>2. CASE Visited \/ Faulty
  <2> DEFINE S == {m \in Private : Status(m) = "pending" /\ Status(m)' = "lost"}
  <2>1. \A m \in Private : Status(m)' = IF m \in S THEN "lost" ELSE Status(m)
    BY DEF Status, SameNews
  <2>2. S \in SUBSET Service!Pending
    BY DEF Service!Pending
  <2>3. Service!Lose(S)
    BY <1>2, <2>1 DEF Service!Lose, Visited, Faulty
  <2>4. QED
    BY <2>2, <2>3 DEF MessageStep, Service!Next
<1>3. QED
  BY <1>1, <1>2

\* Steps that write a message which is somewhere.
LEMMA DeliverStep ==
    ASSUME SameNews, Visited, Visited',
           NEW m \in Private, spc[m] # "new", Alive(m), got' = got \cup {m},
           \A k \in Private \ {m} : (Alive(k)' <=> Alive(k))
    PROVE  MessageStep
<1>1. \A k \in Private \ {m} : Status(k)' = Status(k)
  BY DEF Status, SameNews
<1>2. Status(m)' = "delivered"
  BY DEF Status, SameNews
<1>3. CASE m \in got
  <2>1. \A k \in Private : Status(k)' = Status(k)
    BY <1>1, <1>2, <1>3 DEF Status
  <2>2. QED
    BY <2>1 DEF MessageStep, Service!vars, Visited
<1>4. CASE m \notin got
  <2>1. Status(m) = "pending"
    BY <1>4 DEF Status
  <2>2. Service!Deliver(m)
    BY <1>1, <1>2, <2>1 DEF Service!Deliver, Visited
  <2>3. QED
    BY <2>2 DEF MessageStep, Service!Next
<1>5. QED
  BY <1>3, <1>4

-----------------------------------------------------------------------------
(* Every step of the chat is one of these, or accepts a message, or is the     *)
(* receiver's visit.                                                        *)

Inv == IInv /\ Copied /\ SInv

LEMMA DispatchService ==
    ASSUME Inv, NEW m \in Msgs, Dispatch(m)
    PROVE  MessageStep
<1> USE ClusterAssumption DEF Inv, Dispatch, Goto, sessVars, mqVars
<1>1. \A k \in Private \ {m} : Status(k)' = Status(k)
  BY DEF IInv, TypeOK, Status, Alive, InQueue, Msgs
<1>2. Visited' = Visited
  BY DEF Visited
<1>3. CASE m \in Broadcast
  <2>1. \A k \in Private : Status(k)' = Status(k)
    BY <1>1, <1>3
  <2>2. QED
    BY <1>2, <2>1 DEF MessageStep, Service!vars, Visited
<1>4. CASE m \in Private
  <2>1. Status(m) = "unsent" /\ m \notin got'
    BY <1>4 DEF Status, SInv, NewInv
  <2>2. spc'[m] \in {"store", "write"}
    BY <1>4 DEF IInv, TypeOK
  <2>3. Status(m)' = "pending"
    BY <2>1, <2>2 DEF Status, Alive
  <2>4. Service!Accept(m)
    BY <1>1, <1>2, <1>4, <2>1, <2>3 DEF Service!Accept, Visited
  <2>5. QED
    BY <1>4, <2>4 DEF MessageStep, Service!Next
<1>5. QED
  BY <1>3, <1>4 DEF Msgs

LEMMA WriteService ==
    ASSUME Inv, Inv', NEW m \in Msgs, Write(m)
    PROVE  MessageStep
<1> USE DEF Inv, Write, Goto, sessVars, mqVars
<1>1. m \in Private /\ Visited
  BY DEF IInv, FoundInv, SInv, VisitInv, Visited
<1>2. Visited' = Visited /\ SameNews
  BY DEF Visited, SameNews, IInv, TypeOK
<1>3. \A k \in Private \ {m} : (Alive(k)' <=> Alive(k))
  BY DEF IInv, TypeOK, Alive, InQueue
<1>4. Alive(m)
  BY DEF Alive
<1>5. CASE got' = got \cup {m}
  BY <1>1, <1>2, <1>3, <1>4, <1>5, DeliverStep
<1>6. CASE UNCHANGED got
  BY <1>2, <1>3, <1>4, <1>6, LoseStep
<1>7. QED
  BY <1>5, <1>6

LEMMA SenderService ==
    ASSUME Inv, Inv', NEW m \in Msgs, Sender(m)
    PROVE  MessageStep
<1>1. CASE Dispatch(m)
  BY <1>1, DispatchService
<1>2. CASE Write(m)
  BY <1>2, WriteService
<1>3. CASE Store(m) \/ StoreFails(m) \/ Publish(m) \/ PublishLost(m)
  <2>1. SameNews /\ UNCHANGED got /\ Visited' = Visited
    BY <1>3 DEF Inv, IInv, TypeOK, Store, StoreFails, Publish, PublishLost, Goto, sessVars,
                SameNews, Visited, Msgs
  <2>2. ASSUME NEW k \in Private, Alive(k)'
        PROVE  Alive(k)
    <3>1. CASE Store(m) \/ StoreFails(m) \/ PublishLost(m)
      BY <2>2, <3>1 DEF Inv, IInv, TypeOK, Store, StoreFails, PublishLost, Goto, sessVars,
                        mqVars, Alive, InQueue, Msgs
    <3>2. CASE Publish(m)
      <4>1. \A q \in Queues : InQueue(q, k)' => InQueue(q, k) \/ k = m
        <5>1. SUFFICES ASSUME NEW q \in Queues
                       PROVE  InQueue(q, k)' => InQueue(q, k) \/ k = m
          OBVIOUS
        <5>2. queue[q] \in Seq(Msgs) /\ AtMostOnce(queue[q], k) /\ queue'[q] = Append(queue[q], m)
          BY <3>2 DEF Inv, IInv, TypeOK, Copied, CopiesInv, Publish, Msgs
        <5>3. m \notin Range(queue[q])
          BY <3>2 DEF Inv, Copied, LeftInv, Publish, InQueue
        <5>4. QED
          BY <5>2, <5>3, AppendOnce DEF InQueue
      <4>2. QED
        BY <2>2, <3>2, <4>1 DEF Inv, IInv, TypeOK, Publish, Goto, sessVars, Alive
    <3>3. QED
      BY <1>3, <3>1, <3>2
  <2>3. QED
    BY <2>1, <2>2, LoseStep DEF Inv
<1>4. QED
  BY <1>1, <1>2, <1>3 DEF Sender

LEMMA SessionService ==
    ASSUME Inv, Inv', NEW s \in Sessions, Session(s) \/ Connect(s) \/ Disconnect(s)
    PROVE  MessageStep
<1> USE DEF sendVars, mqVars
<1>1. CASE Connect(s)
  <2>1. phase[s] = "idle"
    BY <1>1 DEF Inv, IInv, TypeOK, SInv, VisitInv, Connect
  <2>2. \A k \in Private : Status(k)' = Status(k)
    BY <1>1, <2>1 DEF Inv, IInv, TypeOK, Connect, Status, Alive, InQueue
  <2>3. Visited'
    BY <1>1 DEF Inv, IInv, TypeOK, Connect, Visited
  <2>4. Service!Visit
    BY <2>2, <2>3 DEF Service!Visit, Visited
  <2>5. QED
    BY <2>4 DEF MessageStep, Service!Next
<1>2. CASE WriteOffline(s)
  <2> DEFINE m == picked[s]
  <2>1. m \in Private /\ spc[m] # "new" /\ Alive(m) /\ got' = got \cup {m}
    BY <1>2 DEF Inv, IInv, FoundInv, SInv, NewInv, WriteOffline, Alive
  <2>2. Visited /\ Visited' /\ SameNews
    BY <1>2 DEF WriteOffline, Visited, SameNews
  <2>3. \A k \in Private \ {m} : (Alive(k)' <=> Alive(k))
    BY <1>2 DEF Inv, IInv, TypeOK, WriteOffline, Alive, InQueue
  <2>4. QED
    BY <2>1, <2>2, <2>3, DeliverStep
<1>3. CASE ReadOffline(s) \/ WriteOfflineFails(s) \/ Sweep(s) \/ RedisAccessFails(s)
           \/ TearDown(s) \/ Disconnect(s)
  <2>1. SameNews /\ UNCHANGED got
    BY <1>3 DEF ReadOffline, WriteOfflineFails, Sweep, RedisAccessFails, TearDown, Disconnect,
                SameNews
  <2>2. Visited' = Visited
    BY <1>3 DEF Inv, IInv, TypeOK, ReadOffline, WriteOfflineFails, Sweep, RedisAccessFails,
                TearDown, Disconnect, Visited
  <2>3. \A k \in Private : Alive(k)' => Alive(k)
    BY <1>3 DEF Inv, IInv, TypeOK, ReadOffline, WriteOfflineFails, Sweep, RedisAccessFails,
                TearDown, Disconnect, Done, Alive, InQueue
  <2>4. QED
    BY <2>1, <2>2, <2>3, LoseStep DEF Inv
<1>4. QED
  BY <1>1, <1>2, <1>3 DEF Session

LEMMA ConsumerService ==
    ASSUME Inv, Inv', NEW n \in Nodes, Consumer(n)
    PROVE  MessageStep
<1> USE ClusterAssumption
<1>1. Visited' = Visited /\ SameNews /\ UNCHANGED <<spc, offline, phase, picked>>
  BY DEF Consumer, Take, DeliverPrivate, DeliverBroadcast, BroadcastSticks, Ack, sendVars,
         sessVars, Visited, SameNews
<1>2. CASE Take(n)
  <2>1. PICK q \in Queues, m \in Msgs :
            /\ q = QueueOf[n] /\ queue[q] \in Seq(Msgs) /\ queue[q] # <<>>
            /\ m = Head(queue[q])
    BY <1>2 DEF Take, Inv, IInv, TypeOK
  <2>2. /\ queue' = [queue EXCEPT ![q] = Tail(queue[q])]
        /\ stage' = [stage EXCEPT ![n][m] = "deliver"]
        /\ UNCHANGED got
    BY <1>2, <2>1 DEF Take, SetStage
  <2>3. \A k \in Msgs : k \in Range(Tail(queue[q])) => InQueue(q, k)
    BY <2>1, TailOnce DEF Inv, Copied, CopiesInv, InQueue
  <2>4. InQueue(q, m)
    BY <2>1, TailOnce DEF Inv, Copied, CopiesInv, InQueue
  <2>5. \A p \in Queues, k \in Msgs : InQueue(p, k)' => InQueue(p, k)
    BY <2>1, <2>2, <2>3 DEF Inv, IInv, TypeOK, InQueue
  <2>6. \A p \in Nodes, k \in Msgs : stage'[p][k] # "none" => stage[p][k] # "none" \/ k = m
    BY <2>1, <2>2 DEF Inv, IInv, TypeOK
  <2>7. q \in Queues /\ \A k \in Private : k \in Msgs
    BY <2>1 DEF Msgs
  <2>8. \A k \in Private : Alive(k)' => Alive(k)
    BY <1>1, <2>4, <2>5, <2>6, <2>7 DEF Alive
  <2>9. QED
    BY <1>1, <2>2, <2>8, LoseStep DEF Inv
<1>3. ASSUME NEW m \in Msgs, DeliverPrivate(n, m)
      PROVE  MessageStep
  <2>1. \A k \in Private : (Alive(k)' <=> Alive(k))
    BY <1>1, <1>3 DEF Inv, IInv, TypeOK, DeliverPrivate, SetStage, Alive, InQueue
  <2>2. CASE UNCHANGED got
    BY <1>1, <2>1, <2>2, LoseStep DEF Inv
  <2>3. CASE got' # got
    <3>1. m \in Private /\ got' = got \cup {m} /\ Visited
      BY <1>3, <2>3 DEF Inv, SInv, VisitInv, DeliverPrivate, IInv, TypeOK, Visited
    <3>2. spc[m] # "new" /\ Alive(m)
      BY <1>3 DEF Inv, Copied, LeftInv, Holding, DeliverPrivate, Alive
    <3>3. QED
      BY <1>1, <2>1, <3>1, <3>2, DeliverStep
  <2>4. QED
    BY <2>2, <2>3
<1>4. ASSUME NEW m \in Msgs, DeliverBroadcast(n, m) \/ BroadcastSticks(n, m) \/ Ack(n, m)
      PROVE  MessageStep
  <2>1. UNCHANGED <<queue, got>>
    BY <1>4 DEF DeliverBroadcast, BroadcastSticks, Ack
  <2>2. \A p \in Nodes, k \in Msgs : stage'[p][k] # "none" => stage[p][k] # "none"
    <3>1. /\ stage[n][m] # "none"
          /\ \E st : stage' = [stage EXCEPT ![n][m] = st]
      BY <1>4 DEF DeliverBroadcast, BroadcastSticks, Ack, SetStage
    <3>2. stage \in [Nodes -> [Msgs -> {"none", "deliver", "ack", "stuck"}]]
      BY DEF Inv, IInv, TypeOK
    <3>3. QED
      BY <3>1, <3>2
  <2>3. \A k \in Private : Alive(k)' => Alive(k)
    BY <1>1, <2>1, <2>2 DEF Alive, InQueue, Msgs
  <2>4. QED
    BY <1>1, <2>1, <2>3, LoseStep DEF Inv
<1>5. QED
  BY <1>2, <1>3, <1>4 DEF Consumer

LEMMA CrashService ==
    ASSUME Inv, Inv', NEW n \in Nodes, Crash(n)
    PROVE  MessageStep
<1> USE ClusterAssumption
<1> DEFINE q == QueueOf[n]
           back == SetToSeq(Busy(n))
<1>1. SameNews /\ UNCHANGED got /\ Visited' = Visited
  BY DEF Inv, IInv, TypeOK, Crash, SameNews, Visited, Msgs
<1>2. ASSUME NEW k \in Msgs
      PROVE  \A p \in Queues : InQueue(p, k)' => InQueue(p, k) \/ stage[n][k] # "none"
  <2>1. q \in Queues /\ queue[q] \in Seq(Msgs)
    BY DEF Inv, IInv, TypeOK
  <2>2. IsFiniteSet(Busy(n))
    BY FS_Subset DEF Busy
  <2>3. back \in Seq(Msgs) /\ AtMostOnce(back, k) /\ (k \in Range(back) => stage[n][k] # "none")
    BY <2>2, SetToSeqType, SetToSeqOnce DEF Busy
  <2>4. AtMostOnce(queue[q], k)
    BY <2>1 DEF Inv, Copied, CopiesInv
  <2>5. k \in Range(queue[q]) => stage[n][k] = "none"
    BY DEF Inv, Copied, CopiesInv, InQueue, Holding
  <2>6. k \in Range(back \o queue[q]) => InQueue(q, k) \/ stage[n][k] # "none"
    BY <2>1, <2>3, <2>4, <2>5, ConcatOnce DEF InQueue
  <2>7. queue' = [queue EXCEPT ![q] = back \o queue[q]]
    BY DEF Crash
  <2>8. QED
    BY <2>6, <2>7 DEF Inv, IInv, TypeOK, InQueue
<1>3. \A k \in Private : Alive(k)' => Alive(k)
  <2>1. SUFFICES ASSUME NEW k \in Private, Alive(k)'
                 PROVE  Alive(k)
    OBVIOUS
  <2>2. k \in Msgs
    BY DEF Msgs
  <2>3. CASE \E p \in Queues : InQueue(p, k)'
    BY <1>2, <2>2, <2>3 DEF Alive
  <2>4. CASE ~\E p \in Queues : InQueue(p, k)'
    BY <2>1, <2>2, <2>4 DEF Alive, Crash, Inv, IInv, TypeOK
  <2>5. QED
    BY <2>3, <2>4
<1>4. QED
  BY <1>1, <1>3, LoseStep DEF Inv

-----------------------------------------------------------------------------
LEMMA InitService == Init => Service!Init
<1>1. Init => \A m \in Private : Status(m) = "unsent"
  BY DEF Init, Status, Msgs
<1>2. Init => ~Visited
  BY DEF Init, Visited
<1>3. QED
  BY <1>1, <1>2 DEF Service!Init, Visited

LEMMA NextService ==
    ASSUME Inv, Inv', [Next]_vars
    PROVE  MessageStep
<1>1. CASE UNCHANGED vars
  <2>1. \A m \in Private : Status(m)' = Status(m)
    BY <1>1 DEF vars, sendVars, sessVars, mqVars, Status, Alive, InQueue
  <2>2. Visited' = Visited
    BY <1>1 DEF vars, sessVars, Visited
  <2>3. QED
    BY <2>1, <2>2 DEF MessageStep, Service!vars, Visited
<1>2. CASE Next
  BY <1>2, SenderService, SessionService, ConsumerService, CrashService DEF Next
<1>3. QED
  BY <1>1, <1>2

THEOREM ServiceInvariance == Spec => []Inv
<1>1. IInv /\ Copied /\ SInv /\ [Next]_vars => SInv'
  BY NextSInv
<1>2. QED
  BY InitSInv, Invariance, CopiesInvariance, <1>1, PTL DEF Spec, Inv

\* The handlers, the store, the exchange and the consumers together are a message
\* service: whatever fails, a message is accepted once, a lost one stays lost, none
\* is delivered before it is accepted, and none is lost before the receiver's first
\* connection unless the store or a process fails.
THEOREM ChatImplementsService == Spec => ImplementsService
<1>1. Inv /\ Inv' /\ [Next]_vars => MessageStep
  BY NextService
<1>2. QED
  BY InitService, ServiceInvariance, <1>1, PTL
     DEF Spec, MessageStep, ImplementsService, Service!Spec
=============================================================================

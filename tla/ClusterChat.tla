----------------------------- MODULE ClusterChat -----------------------------
(***************************************************************************)
(* How a private message reaches its receiver: the sender's handler          *)
(* (WebSocketServiceImpl.messageDispatch), the offline store in Redis, the   *)
(* fanout exchange with one queue per process, the RabbitMQ consumer         *)
(* (RabbitConsumeServiceImpl.clusterMessageDispatch) and the part of the     *)
(* connect handler that empties the store.  One receiver is modelled; other  *)
(* users only send.  The life of a connection is that of SessionRegistry,    *)
(* reduced to what delivery sees.                                            *)
(***************************************************************************)
EXTENDS Naturals, Sequences, FiniteSets, SequencesExt

CONSTANTS Nodes,        \* server processes
          Queues,       \* cluster queues, named after the process's address
          QueueOf,      \* the queue a process consumes
          Sessions,     \* successive connections of the receiver
          NodeOf,       \* the process a session is on
          Private,      \* messages to the receiver
          Broadcast,    \* messages of any other code on the exchange
          From,         \* the process that dispatches a message
          NoSession,
          Consumers,    \* listener threads of a process (1 .. 20), prefetch 1
          OpenCluster,  \* octv.im-chat-server.open-cluster
          RedisFails, PublishFails, Crashes

Msgs == Private \cup Broadcast

ASSUME ClusterAssumption ==
    /\ QueueOf \in [Nodes -> Queues]
    /\ NodeOf \in [Sessions -> Nodes]
    /\ From \in [Msgs -> Nodes]
    /\ NoSession \notin Sessions
    /\ IsFiniteSet(Msgs)
    /\ Private \cap Broadcast = {}
    /\ Consumers \in 1 .. 20
    /\ {OpenCluster, RedisFails, PublishFails, Crashes} \subseteq BOOLEAN

VARIABLES
    spc,       \* per message: next step of the handler that dispatches it
    found,     \* per message: the channel the handler found in channelMap
    link,      \* per session: "new", "up", "down" (teardown to come), "over"
    phase,     \* per session: "read", "write", "sweep" the store, "idle"
    picked,    \* per session: the stored message it writes
    entry,     \* per process: channelMap's entry of the receiver
    offline,   \* the sorted set of the receiver; every score is 1, because
               \* incrementScore meets each member (it holds a fresh uuid) once
    queue,     \* per queue: the messages waiting in it
    stage,     \* per process and message: "none", "deliver", "ack", "stuck"
    got,       \* messages written to a live channel of the receiver
    swept,     \* history: removed from the store without having been written
    missed     \* history: written to a channel that could not take it

sendVars == <<spc, found>>
sessVars == <<link, phase, picked, entry>>
mqVars   == <<queue, stage>>
vars     == <<sendVars, sessVars, offline, mqVars, got, swept, missed>>

NoMsg == "none"

TypeOK ==
    /\ spc \in [Msgs -> {"new", "store", "publish", "write", "done"}]
    /\ found \in [Msgs -> Sessions \cup {NoSession}]
    /\ link \in [Sessions -> {"new", "up", "down", "over"}]
    /\ phase \in [Sessions -> {"idle", "read", "write", "sweep"}]
    /\ picked \in [Sessions -> Private \cup {NoMsg}]
    /\ entry \in [Nodes -> Sessions \cup {NoSession}]
    /\ offline \in SUBSET Private
    /\ queue \in [Queues -> Seq(Msgs)]
    /\ stage \in [Nodes -> [Msgs -> {"none", "deliver", "ack", "stuck"}]]
    /\ {got, swept, missed} \subseteq SUBSET Private

Init ==
    /\ spc = [m \in Msgs |-> "new"]
    /\ found = [m \in Msgs |-> NoSession]
    /\ link = [s \in Sessions |-> "new"]
    /\ phase = [s \in Sessions |-> "idle"]
    /\ picked = [s \in Sessions |-> NoMsg]
    /\ entry = [n \in Nodes |-> NoSession]
    /\ offline = {}
    /\ queue = [q \in Queues |-> <<>>]
    /\ stage = [n \in Nodes |-> [m \in Msgs |-> "none"]]
    /\ got = {} /\ swept = {} /\ missed = {}

-----------------------------------------------------------------------------
(* The sender's handler.                                                    *)

Goto(m, step) == spc' = [spc EXCEPT ![m] = step]

\* Private chat looks the receiver up in the map of its own process; a broadcast
\* goes straight to the exchange.
Dispatch(m) ==
    /\ spc[m] = "new"
    /\ found' = [found EXCEPT ![m] = IF m \in Private THEN entry[From[m]] ELSE NoSession]
    /\ Goto(m, IF m \in Broadcast THEN "publish"
               ELSE IF entry[From[m]] = NoSession THEN "store" ELSE "write")
    /\ UNCHANGED <<sessVars, offline, mqVars, got, swept, missed>>

\* Variant: in a cluster the message is published instead of stored.
StoreOrPublish(m) ==
    /\ spc[m] = "store"
    /\ offline' = IF OpenCluster THEN offline ELSE offline \cup {m}
    /\ Goto(m, IF OpenCluster THEN "publish" ELSE "done")
    /\ UNCHANGED <<found, sessVars, mqVars, got, swept, missed>>

\* No entry: incrementScore, then the exchange when the cluster is open.
Store(m) ==
    /\ spc[m] = "store"
    /\ offline' = offline \cup {m}
    /\ Goto(m, IF OpenCluster THEN "publish" ELSE "done")
    /\ UNCHANGED <<found, sessVars, mqVars, got, swept, missed>>

\* The Redis call throws: the catch at the end of messageDispatch ends the
\* handler, and the message is neither stored nor published.
StoreFails(m) ==
    /\ RedisFails
    /\ spc[m] = "store"
    /\ Goto(m, "done")
    /\ missed' = missed \cup {m}
    /\ UNCHANGED <<found, sessVars, offline, mqVars, got, swept>>

Publish(m) ==
    /\ spc[m] = "publish"
    /\ queue' = [q \in Queues |-> Append(queue[q], m)]
    /\ Goto(m, "done")
    /\ UNCHANGED <<found, sessVars, offline, stage, got, swept, missed>>

\* convertAndSend throws after its retries: logged, nothing else.
PublishLost(m) ==
    /\ PublishFails
    /\ spc[m] = "publish"
    /\ Goto(m, "done")
    /\ UNCHANGED <<found, sessVars, offline, mqVars, got, swept, missed>>

\* writeAndFlush on the channel found earlier; one that has closed meanwhile, or
\* is over its high-water mark, gets nothing but a line in the log.
Write(m) ==
    /\ spc[m] = "write"
    /\ Goto(m, "done")
    /\ \/ link[found[m]] = "up" /\ got' = got \cup {m} /\ UNCHANGED missed
       \/ missed' = missed \cup {m} /\ UNCHANGED got
    /\ found' = [found EXCEPT ![m] = NoSession]
    /\ UNCHANGED <<sessVars, offline, mqVars, swept>>

-----------------------------------------------------------------------------
(* The receiver's connection.                                               *)

\* The connect handler is through with the store.
Done(s) == /\ phase' = [phase EXCEPT ![s] = "idle"]
           /\ picked' = [picked EXCEPT ![s] = NoMsg]

\* addChannel puts the entry, whatever session it held.
Connect(s) ==
    /\ link[s] = "new"
    /\ link' = [link EXCEPT ![s] = "up"]
    /\ entry' = [entry EXCEPT ![NodeOf[s]] = s]
    /\ phase' = [phase EXCEPT ![s] = "read"]
    /\ UNCHANGED <<sendVars, picked, offline, mqVars, got, swept, missed>>

\* Variant: the answer of the store is used without asking whether it is empty.
ReadOfflineUnchecked(s) ==
    /\ phase[s] = "read"
    /\ \E m \in offline \cup {NoMsg} :
           /\ (m = NoMsg) = (offline = {})
           /\ picked' = [picked EXCEPT ![s] = m]
    /\ phase' = [phase EXCEPT ![s] = "write"]
    /\ UNCHANGED <<sendVars, link, entry, offline, mqVars, got, swept, missed>>

\* reverseRangeByScoreWithScores(key, 1, 1000, 0, 1): one member of the highest
\* score, which all share; the last one in byte order, that is any.
ReadOffline(s) ==
    /\ phase[s] = "read"
    /\ IF offline = {}
       THEN Done(s)
       ELSE \E m \in offline : /\ picked' = [picked EXCEPT ![s] = m]
                               /\ phase' = [phase EXCEPT ![s] = "write"]
    /\ UNCHANGED <<sendVars, link, entry, offline, mqVars, got, swept, missed>>

WriteOffline(s) ==
    /\ phase[s] = "write"
    /\ link[s] = "up"
    /\ got' = got \cup {picked[s]}
    /\ phase' = [phase EXCEPT ![s] = "sweep"]
    /\ UNCHANGED <<sendVars, link, picked, entry, offline, mqVars, swept, missed>>

WriteOfflineFails(s) ==
    /\ phase[s] = "write"
    /\ link[s] = "down"
    /\ Done(s)
    /\ UNCHANGED <<sendVars, link, entry, offline, mqVars, got, swept, missed>>

\* The listener of a successful write: removeRangeByScore(score, score) takes
\* every member with the score of the one that was written.
Sweep(s) ==
    /\ phase[s] = "sweep"
    /\ offline' = {}
    /\ swept' = swept \cup (offline \ {picked[s]})
    /\ Done(s)
    /\ UNCHANGED <<sendVars, link, entry, mqVars, got, missed>>

\* Reading or sweeping the store throws.
RedisAccessFails(s) ==
    /\ RedisFails
    /\ phase[s] \in {"read", "sweep"}
    /\ Done(s)
    /\ UNCHANGED <<sendVars, link, entry, offline, mqVars, got, swept, missed>>

Disconnect(s) ==
    /\ link[s] = "up"
    /\ link' = [link EXCEPT ![s] = "down"]
    /\ UNCHANGED <<sendVars, phase, picked, entry, offline, mqVars, got, swept, missed>>

\* clearSession removes the receiver's entry, whatever session it holds.
TearDown(s) ==
    /\ link[s] = "down" /\ phase[s] = "idle"
    /\ link' = [link EXCEPT ![s] = "over"]
    /\ entry' = [entry EXCEPT ![NodeOf[s]] = NoSession]
    /\ UNCHANGED <<sendVars, phase, picked, offline, mqVars, got, swept, missed>>

-----------------------------------------------------------------------------
(* clusterMessageDispatch on process n.                                     *)

Busy(n) == {m \in Msgs : stage[n][m] # "none"}

SetStage(n, m, st) == stage' = [stage EXCEPT ![n][m] = st]

\* Variant: a message stays in the queue while it is consumed.
TakeKeeps(n) ==
    /\ queue[QueueOf[n]] # <<>>
    /\ Cardinality(Busy(n)) < Consumers
    /\ SetStage(n, Head(queue[QueueOf[n]]), "deliver")
    /\ UNCHANGED <<sendVars, sessVars, offline, queue, got, swept, missed>>

\* A listener thread takes the first message; prefetch 1, so one at a time.
Take(n) ==
    LET q == QueueOf[n] IN
    /\ queue[q] # <<>>
    /\ Cardinality(Busy(n)) < Consumers
    /\ SetStage(n, Head(queue[q]), "deliver")
    /\ queue' = [queue EXCEPT ![q] = Tail(@)]
    /\ UNCHANGED <<sendVars, sessVars, offline, got, swept, missed>>

\* Variants: a process skips what it has published itself; a message is
\* acknowledged by a process that holds the receiver only.
DeliverPrivateSkipsOwn(n, m) ==
    /\ stage[n][m] = "deliver" /\ m \in Private
    /\ got' = IF entry[n] # NoSession /\ From[m] # n /\ link[entry[n]] = "up"
              THEN got \cup {m} ELSE got
    /\ SetStage(n, m, "ack")
    /\ UNCHANGED <<sendVars, sessVars, offline, queue, swept, missed>>

DeliverPrivateAckIfHere(n, m) ==
    /\ stage[n][m] = "deliver" /\ m \in Private
    /\ got' = IF entry[n] # NoSession /\ link[entry[n]] = "up"
              THEN got \cup {m} ELSE got
    /\ SetStage(n, m, IF entry[n] # NoSession THEN "ack" ELSE "stuck")
    /\ UNCHANGED <<sendVars, sessVars, offline, queue, swept, missed>>

\* A private message is written to the receiver's channel if this process holds
\* one; its copy in the offline store stays.
DeliverPrivate(n, m) ==
    /\ stage[n][m] = "deliver" /\ m \in Private
    /\ got' = IF entry[n] # NoSession /\ link[entry[n]] = "up"
              THEN got \cup {m} ELSE got
    /\ SetStage(n, m, "ack")
    /\ UNCHANGED <<sendVars, sessVars, offline, queue, swept, missed>>

\* Any other message goes to every channel; then a Redis call, which finds no
\* such member and removes nothing.
DeliverBroadcast(n, m) ==
    /\ stage[n][m] = "deliver" /\ m \in Broadcast
    /\ SetStage(n, m, "ack")
    /\ UNCHANGED <<sendVars, sessVars, offline, queue, got, swept, missed>>

\* That call throws: the exception is logged, and the message is neither
\* acknowledged nor rejected while the consumer lives.
BroadcastSticks(n, m) ==
    /\ RedisFails
    /\ stage[n][m] = "deliver" /\ m \in Broadcast
    /\ SetStage(n, m, "stuck")
    /\ UNCHANGED <<sendVars, sessVars, offline, queue, got, swept, missed>>

Ack(n, m) ==
    /\ stage[n][m] = "ack"
    /\ SetStage(n, m, "none")
    /\ UNCHANGED <<sendVars, sessVars, offline, queue, got, swept, missed>>

\* The process dies and is started again: its connections and handlers are gone,
\* the broker puts what it had not acknowledged back at the head of its queue.
Crash(n) ==
    LET on == {s \in Sessions : NodeOf[s] = n /\ link[s] \in {"up", "down"}} IN
    /\ Crashes
    /\ on # {} \/ Busy(n) # {}
    /\ link' = [s \in Sessions |-> IF s \in on THEN "over" ELSE link[s]]
    /\ phase' = [s \in Sessions |-> IF s \in on THEN "idle" ELSE phase[s]]
    /\ picked' = [s \in Sessions |-> IF s \in on THEN NoMsg ELSE picked[s]]
    /\ entry' = [entry EXCEPT ![n] = NoSession]
    /\ found' = [m \in Msgs |-> IF From[m] = n THEN NoSession ELSE found[m]]
    /\ spc' = [m \in Msgs |-> IF From[m] = n /\ spc[m] \in {"store", "publish", "write"}
                              THEN "done" ELSE spc[m]]
    /\ missed' = missed \cup {m \in Private : From[m] = n /\ spc[m] \in {"store", "write"}}
    /\ queue' = [queue EXCEPT ![QueueOf[n]] = SetToSeq(Busy(n)) \o @]
    /\ stage' = [stage EXCEPT ![n] = [m \in Msgs |-> "none"]]
    /\ UNCHANGED <<offline, got, swept>>

-----------------------------------------------------------------------------
Sender(m)  == Dispatch(m) \/ Store(m) \/ StoreFails(m) \/ Publish(m)
              \/ PublishLost(m) \/ Write(m)
Session(s) == ReadOffline(s) \/ WriteOffline(s) \/ WriteOfflineFails(s) \/ Sweep(s)
              \/ RedisAccessFails(s) \/ TearDown(s)
Consumer(n) == \/ Take(n)
               \/ \E m \in Msgs : \/ DeliverPrivate(n, m) \/ DeliverBroadcast(n, m)
                                  \/ BroadcastSticks(n, m) \/ Ack(n, m)

Next == \/ \E m \in Msgs : Sender(m)
        \/ \E s \in Sessions : Session(s) \/ Connect(s) \/ Disconnect(s)
        \/ \E n \in Nodes : Consumer(n) \/ Crash(n)

Spec == Init /\ [][Next]_vars

\* Handlers that have started run on, and a consumer goes on consuming.
Fairness == /\ \A m \in Msgs : WF_vars(spc[m] # "new" /\ Sender(m))
            /\ \A s \in Sessions : WF_vars(Session(s))
            /\ \A n \in Nodes : WF_vars(Consumer(n))

FairSpec == Spec /\ Fairness

-----------------------------------------------------------------------------
(* Properties                                                               *)

\* No message falls between the two deliveries: once its handler is done, a
\* private message was written to the receiver, or is still in the store, or
\* went one of the two ways a message can be lost: swept unread, or missed
\* (written to a channel that had closed, or its handler was cut short before it
\* had stored the message).  A failed publish, a redelivery, a consumer on the
\* wrong process or a crash after the store lose nothing.
KeptUntilSwept ==
    \A m \in Private : spc[m] = "done" =>
        m \in got \/ m \in offline \/ m \in swept \/ m \in missed

InQueue(q, m) == m \in Range(queue[q])

AtMostOnce(seq, m) == \A i, j \in DOMAIN seq : seq[i] = m /\ seq[j] = m => i = j

\* The consumers of a queue that have taken a message of it.
Holders(q, m) == {n \in Nodes : QueueOf[n] = q /\ stage[n][m] # "none"}

\* The broker's copies: a message is at most once in a queue, or with one consumer
\* of that queue instead, however often processes die while consuming it and
\* however many of them share the queue.
OneCopyPerQueue ==
    \A q \in Queues, m \in Msgs :
        /\ AtMostOnce(queue[q], m)
        /\ \A n, p \in Holders(q, m) : n = p /\ ~InQueue(q, m)

\* What the code's comments say of the offline store (WebSocketServiceImpl:102):
\* what connect takes out has been sent.
RemovedOnlyIfSent == swept \subseteq got

\* A message that its sender's process could not deliver itself reaches the
\* receiver's live channel on any process, the sender's own included: the fanout
\* closes the race in which the sender looks the receiver up just before he
\* connects and stores the message just after he has read the store.
OnlineGetsMessage ==
    \A m \in Private, s \in Sessions :
        (spc[m] \in {"store", "publish"} /\ entry[NodeOf[s]] = s /\ link[s] = "up")
            ~> (m \in got \/ entry[NodeOf[s]] # s \/ link[s] # "up")

\* application.yml:15: what is queued is consumed.
QueueDrains == \A q \in Queues, m \in Msgs : InQueue(q, m) ~> ~InQueue(q, m)
-----------------------------------------------------------------------------
(* The message service this implements.                                     *)

\* A handler, the store, a queue, a listener or a connection still has it.
Alive(m) ==
    \/ spc[m] \in {"store", "publish", "write"}
    \/ m \in offline
    \/ \E q \in Queues : InQueue(q, m)
    \/ \E n \in Nodes : stage[n][m] # "none"
    \/ \E s \in Sessions : phase[s] = "write" /\ picked[s] = m

Status(m) == CASE spc[m] = "new" -> "unsent"
               [] spc[m] # "new" /\ m \in got -> "delivered"
               [] spc[m] # "new" /\ m \notin got /\ Alive(m) -> "pending"
               [] OTHER -> "lost"

Service == INSTANCE MessageService WITH
             Messages <- Private,
             Faults <- RedisFails \/ Crashes,
             status <- [m \in Private |-> Status(m)],
             visited <- \E s \in Sessions : link[s] # "new"

\* What is lost stays lost and what is delivered was accepted, through the store,
\* the exchange, requeues and any number of connections; and before the receiver's
\* first connection a message is lost only by a failing store or a process that
\* dies: a publish that fails, or that nobody waits for, does not matter.
ImplementsService == Service!Spec
=============================================================================

------------------------------ MODULE OnlineList ------------------------------
(***************************************************************************)
(* The list of online users that every page shows.  ChannelSessionService-   *)
(* Impl.addChannel reads the Redis set of online members when a connection   *)
(* is made and pushes it to everybody: through the fanout exchange and the   *)
(* queue of each process when the cluster is open, else straight to the      *)
(* process's channelGroup.  A page replaces its list by the one it receives. *)
(* Nothing is pushed when a connection ends.  One connection per user, so a  *)
(* user is named by its channel; overlapping connections of one user are in  *)
(* SessionRegistry.                                                          *)
(***************************************************************************)
EXTENDS Naturals, Sequences, FiniteSets

CONSTANTS Nodes, Channels,
          NodeOf,      \* the process a channel is connected to
          Consumers,   \* listener threads of a process (1 .. 20), prefetch 1
          OpenCluster, \* values of octv.im-chat-server.open-cluster
          NoChannel,
          Failures     \* TRUE: a Redis or RabbitMQ call may throw

ASSUME OnlineListAssumption ==
    /\ NodeOf \in [Channels -> Nodes]
    /\ Consumers \in 1 .. 20
    /\ OpenCluster \in (SUBSET BOOLEAN) \ {{}}
    /\ NoChannel \notin Channels
    /\ Failures \in BOOLEAN

VARIABLES
    openCluster,  \* the setting, the same while the system runs
    conn,         \* per channel: "new", "open", "closing", "closed", "over"
    pc,           \* per channel: next step of its connect handler
    online,       \* the Redis set ONLINE_MEMBER_LIST_KEY
    channelGroup, \* the channels in each process's channelGroup
    userList,     \* per channel: the local variable of addChannel
    queue,        \* per process: the lists waiting in its queue
    writes,       \* writes to a channelGroup in progress
    shown,        \* per channel: the list its page shows
    last,         \* history: the last connection to begin, if it began with no
                  \* list on its way and no step of it has failed
    past,         \* ... and who was over, and cleared, at that time
    cleared       \* history: channels whose session a clearSession has cleared

history == <<last, past, cleared>>
vars == <<openCluster, conn, pc, online, channelGroup, userList, queue, writes,
          shown, history>>

\* A list on its way, named by the connection that read it.
Lists  == [from : Channels, list : SUBSET Channels]
\* A process's write of a list, and the channels it has still to visit.
Writes == [node : Nodes, msg : Lists, todo : (SUBSET Channels) \ {{}}]

\* Types, and nothing is queued by a server that is not in a cluster.
TypeOK ==
    /\ openCluster \in BOOLEAN
    /\ conn \in [Channels -> {"new", "open", "closing", "closed", "over"}]
    /\ pc \in [Channels -> {"ready", "group", "members", "push", "writing"}]
    /\ online \in SUBSET Channels
    /\ channelGroup \in SUBSET {c \in Channels : conn[c] \in {"open", "closing"}}
    /\ userList \in [Channels -> SUBSET Channels]
    /\ queue \in [Nodes -> Seq(Lists)]
    /\ writes \in SUBSET Writes
    /\ shown \in [Channels -> SUBSET Channels]
    /\ last \in Channels \cup {NoChannel}
    /\ past \in SUBSET Channels
    /\ cleared \in SUBSET Channels
    /\ ~openCluster => queue = [n \in Nodes |-> <<>>]

Init ==
    /\ openCluster \in OpenCluster
    /\ conn = [c \in Channels |-> "new"]
    /\ pc = [c \in Channels |-> "ready"]
    /\ online = {} /\ channelGroup = {}
    /\ userList = [c \in Channels |-> {}]
    /\ queue = [n \in Nodes |-> <<>>]
    /\ writes = {}
    /\ shown = [c \in Channels |-> {}]
    /\ last = NoChannel /\ past = {} /\ cleared = {}

-----------------------------------------------------------------------------
(* The connect handler.                                                     *)

Goto(c, step) == pc' = [pc EXCEPT ![c] = step]

Quiet == /\ \A c \in Channels : pc[c] = "ready"
         /\ \A n \in Nodes : queue[n] = <<>>
         /\ writes = {}

Unsettled == last' = NoChannel /\ past' = {} /\ UNCHANGED cleared

Over == {c \in cleared : conn[c] = "over"}

\* The upgrade request: opsForSet().add.
AddOnline(c) ==
    /\ conn[c] = "new"
    /\ conn' = [conn EXCEPT ![c] = "open"]
    /\ online' = online \cup {c}
    /\ Goto(c, "group")
    /\ IF Quiet THEN last' = c /\ past' = Over /\ UNCHANGED cleared ELSE Unsettled
    /\ UNCHANGED <<openCluster, channelGroup, userList, queue, writes, shown>>

\* The handshake is not a proper one: the handler ends before addChannel.
HandshakeFails(c) ==
    /\ pc[c] = "group"
    /\ Goto(c, "ready")
    /\ Unsettled
    /\ UNCHANGED <<openCluster, conn, online, channelGroup, userList, queue,
                   writes, shown>>

\* Variant: the channel is never put into the group.
JoinGroupNot(c) ==
    /\ pc[c] = "group"
    /\ Goto(c, "members")
    /\ UNCHANGED <<openCluster, conn, online, channelGroup, userList, queue,
                   writes, shown, history>>

\* The handshake and channelGroup.add; a write that iterates over the group
\* meanwhile meets the new channel or does not.
JoinGroup(c) ==
    /\ pc[c] = "group"
    /\ channelGroup' = IF conn[c] = "open" THEN channelGroup \cup {c} ELSE channelGroup
    /\ \E met \in SUBSET {w \in writes : w.node = NodeOf[c] /\ conn[c] = "open"} :
          writes' = (writes \ met) \cup {[w EXCEPT !.todo = @ \cup {c}] : w \in met}
    /\ Goto(c, "members")
    /\ UNCHANGED <<openCluster, conn, online, userList, queue, shown, history>>

\* opsForSet().members.
ReadMembers(c) ==
    /\ pc[c] = "members"
    /\ userList' = [userList EXCEPT ![c] = online]
    /\ Goto(c, "push")
    /\ UNCHANGED <<openCluster, conn, online, channelGroup, queue, writes, shown,
                   history>>

\* The call throws: the catch of handleWebSocketConnect ends the handler.
ReadMembersFails(c) ==
    /\ Failures
    /\ pc[c] = "members"
    /\ Goto(c, "ready")
    /\ Unsettled
    /\ UNCHANGED <<openCluster, conn, online, channelGroup, userList, queue, writes,
                   shown>>

ListOf(c) == [from |-> c, list |-> userList[c]]

\* The handler's list is not needed any more.
Drop(c) == userList' = [userList EXCEPT ![c] = {}]

\* Variant: the setting is not looked at.
PublishAlways(c) ==
    /\ pc[c] = "push"
    /\ queue' = [n \in Nodes |-> Append(queue[n], ListOf(c))]
    /\ Drop(c) /\ Goto(c, "ready")
    /\ UNCHANGED <<openCluster, conn, online, channelGroup, writes, shown, history>>

Publish(c) ==
    /\ pc[c] = "push" /\ openCluster
    /\ queue' = [n \in Nodes |-> Append(queue[n], ListOf(c))]
    /\ Drop(c) /\ Goto(c, "ready")
    /\ UNCHANGED <<openCluster, conn, online, channelGroup, writes, shown, history>>

\* convertAndSend throws after its retries: logged, nothing else.
PublishLost(c) ==
    /\ Failures
    /\ pc[c] = "push" /\ openCluster
    /\ Drop(c) /\ Goto(c, "ready")
    /\ Unsettled
    /\ UNCHANGED <<openCluster, conn, online, channelGroup, queue, writes, shown>>

-----------------------------------------------------------------------------
(* Writing a list to a group: one channel after the other, in any order.     *)

StartWrite(n, msg) ==
    LET todo == {d \in channelGroup : NodeOf[d] = n}
    IN  writes' = IF todo = {} THEN writes
                  ELSE writes \cup {[node |-> n, msg |-> msg, todo |-> todo]}

\* A server that is not in a cluster writes on the handler's thread.
PushHere(c) ==
    /\ pc[c] = "push" /\ ~openCluster
    /\ StartWrite(NodeOf[c], ListOf(c))
    /\ Drop(c) /\ Goto(c, "writing")
    /\ UNCHANGED <<openCluster, conn, online, channelGroup, queue, shown, history>>

\* A listener thread that is free takes the next list of its queue.
Consume(n) ==
    /\ openCluster
    /\ queue[n] # <<>>
    /\ Cardinality({w \in writes : w.node = n}) < Consumers
    /\ StartWrite(n, Head(queue[n]))
    /\ queue' = [queue EXCEPT ![n] = Tail(@)]
    /\ UNCHANGED <<openCluster, conn, pc, online, channelGroup, userList, shown,
                   history>>

\* The page replaces its list; a channel that has closed takes nothing.  After
\* the last one the handler returns, or the listener acknowledges.
WriteTo(w, d) ==
    /\ d \in w.todo
    /\ shown' = IF conn[d] = "open" THEN [shown EXCEPT ![d] = w.msg.list] ELSE shown
    /\ IF w.todo = {d}
       THEN /\ writes' = writes \ {w}
            /\ pc' = IF openCluster THEN pc ELSE [pc EXCEPT ![w.msg.from] = "ready"]
       ELSE /\ writes' = (writes \ {w}) \cup {[w EXCEPT !.todo = @ \ {d}]}
            /\ UNCHANGED pc
    /\ UNCHANGED <<openCluster, conn, online, channelGroup, userList, queue, history>>

-----------------------------------------------------------------------------
(* The end of a connection.                                                 *)

\* clearSession gets as far as opsForSet().remove: the Redis set, then the group.
Clear(c) ==
    /\ online' = online \ {c} /\ channelGroup' = channelGroup \ {c}
    /\ cleared' = cleared \cup {c}
    /\ UNCHANGED <<last, past>>

\* That call throws: neither is done.
ClearFails == Failures /\ UNCHANGED <<online, channelGroup, history>>

\* A close frame clears the session; the channel is open until the answer has been
\* written, and its page takes no more lists.
HangUp(c) ==
    /\ conn[c] = "open" /\ pc[c] = "ready"
    /\ conn' = [conn EXCEPT ![c] = "closing"]
    /\ Clear(c) \/ ClearFails
    /\ shown' = [shown EXCEPT ![c] = {}]
    /\ UNCHANGED <<openCluster, pc, userList, queue, writes>>

\* The channel closes, with a close frame before or without; a group's close
\* listener takes it out.
Close(c) ==
    /\ conn[c] \in {"open", "closing"} /\ pc[c] = "ready"
    /\ conn' = [conn EXCEPT ![c] = "closed"]
    /\ channelGroup' = channelGroup \ {c}
    /\ shown' = [shown EXCEPT ![c] = {}]
    /\ UNCHANGED <<openCluster, pc, online, userList, queue, writes, history>>

\* Variant: the Redis set keeps the user.
ClearSessionKeeps(c) ==
    /\ conn[c] = "closed"
    /\ conn' = [conn EXCEPT ![c] = "over"]
    /\ cleared' = cleared \cup {c}
    /\ UNCHANGED <<openCluster, pc, online, channelGroup, userList, queue, writes,
                   shown, last, past>>

\* channelInactive clears the session, again after a close frame; nobody is told.
ClearSession(c) ==
    /\ conn[c] = "closed"
    /\ conn' = [conn EXCEPT ![c] = "over"]
    /\ Clear(c) \/ ClearFails
    /\ UNCHANGED <<openCluster, pc, userList, queue, writes, shown>>

Next == \/ \E c \in Channels :
              \/ AddOnline(c) \/ HandshakeFails(c) \/ JoinGroup(c)
              \/ ReadMembers(c) \/ ReadMembersFails(c)
              \/ Publish(c) \/ PublishLost(c) \/ PushHere(c)
              \/ HangUp(c) \/ Close(c) \/ ClearSession(c)
        \/ \E n \in Nodes : Consume(n)
        \/ \E w \in writes, d \in Channels : WriteTo(w, d)

Spec == Init /\ [][Next]_vars

-----------------------------------------------------------------------------
(* Properties                                                               *)

\* The pages the last connection's list has to reach, its own among them.
Reached == {c \in channelGroup : /\ conn[c] = "open"
                                 /\ openCluster \/ NodeOf[c] = NodeOf[last]}
           \cup {c \in {last} : conn[c] = "open"}

\* Once the lists of the last connection have all been written, and unless it
\* overlapped another one or a call of its handler failed, the pages it reaches
\* show each other, whatever was lost, late or out of order before it.
ListComplete ==
    Quiet /\ last # NoChannel => \A c, d \in Reached : d \in shown[c]

\* And none of them shows a user who had gone when that connection began: his channel
\* was closed, and one of the teardowns of his session had not failed.
NoGhost ==
    Quiet /\ last # NoChannel => \A c \in Reached : shown[c] \cap past = {}
=============================================================================

--------------------------- MODULE OnlineListProofs ---------------------------
(***************************************************************************)
(* Machine-checked proofs about OnlineList, for any number of processes,      *)
(* channels and listener threads, in a cluster or not.                        *)
(***************************************************************************)
EXTENDS OnlineList, TLAPS

\* The Redis set lists everybody whose channel is open or in the group, and nobody
\* whose session has been cleared; who had gone when the last connection began is gone;
\* a handler's channel is open.
OnlineInv == /\ \A c \in Channels : conn[c] = "open" \/ c \in channelGroup => c \in online
             /\ \A c \in cleared : c \notin online /\ conn[c] \notin {"new", "open"}
             /\ past \subseteq Over
             /\ \A c \in Channels : pc[c] # "ready" => conn[c] = "open"

\* A list that shows everybody and no ghost.
Good(list) == channelGroup \subseteq list /\ list \cap past = {}

\* Before the last connection has pushed its list.
Reading == pc[last] \in {"group", "members", "push"}

Alone == \A c \in Channels \ {last} : pc[c] = "ready"

NothingSent == (\A n \in Nodes : queue[n] = <<>>) /\ writes = {}

\* Whatever is on its way is good.
ListsGood == /\ pc[last] = "push" => Good(userList[last])
             /\ \A n \in Nodes : \A i \in DOMAIN queue[n] : Good(queue[n][i].list)
             /\ \A w \in writes : Good(w.msg.list)

Due(c) == openCluster \/ NodeOf[c] = NodeOf[last]

\* Whoever is due the list, and listens, shows it, or has it before him.
Covered == \A c \in channelGroup : conn[c] = "open" /\ Due(c) =>
               \/ Good(shown[c])
               \/ queue[NodeOf[c]] # <<>>
               \/ \E w \in writes : c \in w.todo

LastInv == last # NoChannel =>
               /\ Alone
               /\ Reading => NothingSent
               /\ pc[last] # "group" /\ conn[last] = "open" => last \in channelGroup
               /\ ListsGood
               /\ ~Reading => Covered

IInv == TypeOK /\ OnlineInv /\ LastInv

-----------------------------------------------------------------------------
LEMMA InitIInv == Init => IInv
<1> USE OnlineListAssumption DEF Init
<1>1. Init => TypeOK
  BY DEF TypeOK
<1>2. Init => OnlineInv /\ LastInv
  BY DEF OnlineInv, LastInv
<1>3. QED
  BY <1>1, <1>2 DEF IInv

-----------------------------------------------------------------------------
(* Every step preserves the invariant, action by action.                    *)

\* A write that is started has its type.
LEMMA StartWriteType ==
    ASSUME TypeOK, NEW n \in Nodes, NEW msg \in Lists, StartWrite(n, msg)
    PROVE  writes' \in SUBSET Writes
<1> DEFINE todo == {d \in channelGroup : NodeOf[d] = n}
<1>1. CASE todo = {}
  BY <1>1 DEF TypeOK, StartWrite
<1>2. CASE todo # {}
  <2>1. todo \in (SUBSET Channels) \ {{}}
    BY <1>2 DEF TypeOK
  <2>2. [node |-> n, msg |-> msg, todo |-> todo] \in Writes
    BY <2>1 DEF Writes
  <2>3. QED
    BY <1>2, <2>2 DEF TypeOK, StartWrite
<1>3. QED
  BY <1>1, <1>2

LEMMA AddOnlineStep ==
    ASSUME IInv, NEW c \in Channels, AddOnline(c)
    PROVE  IInv'
<1> USE OnlineListAssumption DEF IInv, TypeOK, AddOnline, Goto, Unsettled, Quiet
<1>1. TypeOK'
  <2>1. /\ conn' \in [Channels -> {"new", "open", "closing", "closed", "over"}]
        /\ pc' \in [Channels -> {"ready", "group", "members", "push", "writing"}]
        /\ online' \in SUBSET Channels
        /\ channelGroup' \in SUBSET {d \in Channels : conn'[d] \in {"open", "closing"}}
    OBVIOUS
  <2>2. /\ last' \in Channels \cup {NoChannel} /\ past' \in SUBSET Channels
        /\ cleared' \in SUBSET Channels
    <3>1. CASE last' = c /\ past' = Over /\ UNCHANGED cleared
      BY <3>1 DEF Over
    <3>2. CASE last' = NoChannel /\ past' = {} /\ UNCHANGED cleared
      BY <3>2
    <3>3. QED
      BY <3>1, <3>2
  <2>3. QED
    BY <2>1, <2>2
<1>2. OnlineInv'
  BY DEF OnlineInv, Over
<1>3. LastInv'
  BY DEF LastInv, Alone, Reading, NothingSent, ListsGood, Good, Covered, Due
<1>4. QED
  BY <1>1, <1>2, <1>3

LEMMA HandshakeFailsStep ==
    ASSUME IInv, NEW c \in Channels, HandshakeFails(c)
    PROVE  IInv'
<1> USE OnlineListAssumption DEF IInv, TypeOK, HandshakeFails, Goto, Unsettled
<1>1. TypeOK'
  BY DEF Lists, Writes
<1>2. OnlineInv'
  BY DEF OnlineInv, Over
<1>3. LastInv'
  BY DEF LastInv, Alone, Reading, NothingSent, ListsGood, Good, Covered, Due
<1>4. QED
  BY <1>1, <1>2, <1>3

LEMMA JoinGroupStep ==
    ASSUME IInv, NEW c \in Channels, JoinGroup(c)
    PROVE  IInv'
<1> USE OnlineListAssumption DEF IInv, TypeOK, JoinGroup, Goto, history
<1>1. TypeOK'
  <2>1. /\ pc' \in [Channels -> {"ready", "group", "members", "push", "writing"}]
        /\ channelGroup' \in SUBSET {d \in Channels : conn'[d] \in {"open", "closing"}}
    OBVIOUS
  <2>2. PICK met \in SUBSET writes :
            writes' = (writes \ met) \cup {[w EXCEPT !.todo = @ \cup {c}] : w \in met}
    OBVIOUS
  <2>3. \A w \in Writes : [w EXCEPT !.todo = @ \cup {c}] \in Writes
    BY DEF Writes
  <2>4. writes' \in SUBSET Writes
    BY <2>2, <2>3
  <2>5. QED
    BY <2>1, <2>4
<1>2. OnlineInv'
  BY DEF OnlineInv, Over
<1>3. LastInv'
  BY DEF LastInv, Alone, Reading, NothingSent, ListsGood, Good, Covered, Due
<1>4. QED
  BY <1>1, <1>2, <1>3

LEMMA ReadMembersStep ==
    ASSUME IInv, NEW c \in Channels, ReadMembers(c)
    PROVE  IInv'
<1> USE OnlineListAssumption DEF IInv, TypeOK, ReadMembers, Goto, history
<1>1. TypeOK'
  BY DEF Lists, Writes
<1>2. OnlineInv'
  BY DEF OnlineInv, Over
<1>3. LastInv'
  <2>1. Good(online)
    BY DEF OnlineInv, Over, Good
  <2>2. \A list : Good(list)' <=> Good(list)
    BY DEF Good
  <2>3. CASE last = NoChannel
    BY <2>3 DEF LastInv
  <2>4. CASE last # NoChannel
    <3>1. c = last /\ Reading /\ Reading' /\ NothingSent'
      BY <2>4 DEF LastInv, Alone, Reading, NothingSent
    <3>2. Alone' /\ (conn'[last] = "open" => last \in channelGroup')
      BY <2>4, <3>1 DEF LastInv, Alone
    <3>3. ListsGood'
      BY <2>1, <2>2, <3>1 DEF ListsGood, NothingSent
    <3>4. QED
      BY <3>1, <3>2, <3>3 DEF LastInv
  <2>5. QED
    BY <2>3, <2>4
<1>4. QED
  BY <1>1, <1>2, <1>3

LEMMA ReadMembersFailsStep ==
    ASSUME IInv, NEW c \in Channels, ReadMembersFails(c)
    PROVE  IInv'
<1> USE OnlineListAssumption DEF IInv, TypeOK, ReadMembersFails, Goto, Unsettled
<1>1. TypeOK'
  BY DEF Lists, Writes
<1>2. OnlineInv'
  BY DEF OnlineInv, Over
<1>3. LastInv'
  BY DEF LastInv, Alone, Reading, NothingSent, ListsGood, Good, Covered, Due
<1>4. QED
  BY <1>1, <1>2, <1>3

LEMMA PublishStep ==
    ASSUME IInv, NEW c \in Channels, Publish(c)
    PROVE  IInv'
<1> USE OnlineListAssumption DEF IInv, TypeOK, Publish, Goto, Drop, history, ListOf
<1>1. TypeOK'
  BY DEF Lists, Writes
<1>2. OnlineInv'
  BY DEF OnlineInv, Over
<1>3. LastInv'
  <2>1. CASE last = NoChannel
    BY <2>1 DEF LastInv
  <2>2. CASE last # NoChannel
    <3>1. c = last /\ Reading /\ NothingSent /\ Good(userList[c])
      BY <2>2 DEF LastInv, Alone, Reading, ListsGood
    <3>2. ~Reading' /\ Alone' /\ (conn'[last] = "open" => last \in channelGroup')
      BY <2>2, <3>1 DEF LastInv, Alone, Reading
    <3>3. \A list : Good(list)' <=> Good(list)
      BY DEF Good
    <3>4. \A n \in Nodes : /\ queue'[n] # <<>>
                           /\ \A i \in DOMAIN queue'[n] : queue'[n][i] = ListOf(c)
      <4>1. \A n \in Nodes : queue'[n] = Append(<<>>, ListOf(c))
        BY <3>1 DEF NothingSent
      <4>2. Append(<<>>, ListOf(c)) = <<ListOf(c)>>
        OBVIOUS
      <4>3. <<ListOf(c)>> # <<>> /\ \A i \in DOMAIN <<ListOf(c)>> : <<ListOf(c)>>[i] = ListOf(c)
        OBVIOUS
      <4>4. QED
        BY <4>1, <4>2, <4>3
    <3>5. ListsGood'
      BY <3>1, <3>2, <3>3, <3>4 DEF ListsGood, NothingSent, Reading
    <3>6. Covered'
      <4>1. \A d \in channelGroup' : NodeOf[d] \in Nodes
        OBVIOUS
      <4>2. QED
        BY <3>4, <4>1 DEF Covered
    <3>7. QED
      BY <3>2, <3>5, <3>6 DEF LastInv
  <2>3. QED
    BY <2>1, <2>2
<1>4. QED
  BY <1>1, <1>2, <1>3

LEMMA PublishLostStep ==
    ASSUME IInv, NEW c \in Channels, PublishLost(c)
    PROVE  IInv'
<1> USE OnlineListAssumption DEF IInv, TypeOK, PublishLost, Goto, Drop, Unsettled
<1>1. TypeOK'
  BY DEF Lists, Writes
<1>2. OnlineInv'
  BY DEF OnlineInv, Over
<1>3. LastInv'
  BY DEF LastInv, Alone, Reading, NothingSent, ListsGood, Good, Covered, Due
<1>4. QED
  BY <1>1, <1>2, <1>3

LEMMA PushHereStep ==
    ASSUME IInv, NEW c \in Channels, PushHere(c)
    PROVE  IInv'
<1> USE OnlineListAssumption DEF IInv, TypeOK, PushHere, Goto, Drop, history, StartWrite, ListOf
<1>1. TypeOK'
  <2>1. ListOf(c) \in Lists
    BY DEF Lists
  <2>2. writes' \in SUBSET Writes
    BY <2>1, StartWriteType
  <2>3. /\ userList' \in [Channels -> SUBSET Channels]
        /\ pc' \in [Channels -> {"ready", "group", "members", "push", "writing"}]
    OBVIOUS
  <2>4. QED
    BY <2>2, <2>3
<1>2. OnlineInv'
  BY DEF OnlineInv, Over
<1>3. LastInv'
  <2> DEFINE todo == {d \in channelGroup : NodeOf[d] = NodeOf[c]}
             w == [node |-> NodeOf[c], msg |-> ListOf(c), todo |-> todo]
  <2>1. CASE last = NoChannel
    BY <2>1 DEF LastInv
  <2>2. CASE last # NoChannel
    <3>1. c = last /\ Reading /\ NothingSent /\ Good(userList[c])
      BY <2>2 DEF LastInv, Alone, Reading, ListsGood
    <3>2. ~Reading' /\ Alone' /\ (conn'[last] = "open" => last \in channelGroup')
      BY <2>2, <3>1 DEF LastInv, Alone, Reading
    <3>3. \A list : Good(list)' <=> Good(list)
      BY DEF Good
    <3>4. writes' = IF todo = {} THEN {} ELSE {w}
      BY <3>1 DEF NothingSent
    <3>5. ListsGood'
      BY <3>1, <3>2, <3>3, <3>4 DEF ListsGood, NothingSent, Reading
    <3>6. Covered'
      <4>1. SUFFICES ASSUME NEW d \in channelGroup, NodeOf[d] = NodeOf[last], conn[d] = "open"
                     PROVE  \E v \in writes' : d \in v.todo
        BY DEF Covered, Due
      <4>2. d \in todo
        BY <3>1, <4>1
      <4>3. w \in writes' /\ d \in w.todo
        BY <3>4, <4>2
      <4>4. QED
        BY <4>3
    <3>7. QED
      BY <3>2, <3>5, <3>6 DEF LastInv
  <2>3. QED
    BY <2>1, <2>2
<1>4. QED
  BY <1>1, <1>2, <1>3

LEMMA ConsumeStep ==
    ASSUME IInv, NEW n \in Nodes, Consume(n)
    PROVE  IInv'
<1> USE OnlineListAssumption DEF IInv, TypeOK, Consume, StartWrite, history
<1>1. TypeOK'
  <2>1. queue[n] \in Seq(Lists) /\ queue[n] # <<>>
    OBVIOUS
  <2>2. Head(queue[n]) \in Lists /\ Tail(queue[n]) \in Seq(Lists)
    BY <2>1
  <2>3. writes' \in SUBSET Writes
    BY <2>2, StartWriteType
  <2>4. queue' \in [Nodes -> Seq(Lists)]
    BY <2>2
  <2>5. QED
    BY <2>3, <2>4
<1>2. OnlineInv'
  BY DEF OnlineInv, Over
<1>3. LastInv'
  <2> DEFINE todo == {d \in channelGroup : NodeOf[d] = n}
             w == [node |-> n, msg |-> Head(queue[n]), todo |-> todo]
  <2>1. CASE last = NoChannel
    BY <2>1 DEF LastInv
  <2>2. CASE last # NoChannel
    <3>1. ~Reading /\ ~Reading'
      BY <2>2 DEF LastInv, NothingSent, Reading
    <3>2. Alone' /\ (conn'[last] = "open" => last \in channelGroup')
      BY <2>2, <3>1 DEF LastInv, Alone, Reading
    <3>3. \A list : Good(list)' <=> Good(list)
      BY DEF Good
    <3>4. writes' = IF todo = {} THEN writes ELSE writes \cup {w}
      OBVIOUS
    <3>5. ListsGood'
      <4>1. queue[n] \in Seq(Lists) /\ queue[n] # <<>>
        OBVIOUS
      <4>2. /\ 1 \in DOMAIN queue[n] /\ Head(queue[n]) = queue[n][1]
            /\ \A i \in DOMAIN Tail(queue[n]) :
                   i + 1 \in DOMAIN queue[n] /\ Tail(queue[n])[i] = queue[n][i + 1]
        BY <4>1
      <4>3. \A i \in DOMAIN queue[n] : Good(queue[n][i].list)
        BY <2>2 DEF LastInv, ListsGood
      <4>4. Good(Head(queue[n]).list) /\ \A i \in DOMAIN Tail(queue[n]) : Good(Tail(queue[n])[i].list)
        BY <4>2, <4>3
      <4>5. \A v \in writes' : Good(v.msg.list)
        BY <2>2, <3>4, <4>4 DEF LastInv, ListsGood
      <4>6. \A p \in Nodes : \A i \in DOMAIN queue'[p] : Good(queue'[p][i].list)
        <5>1. SUFFICES ASSUME NEW p \in Nodes, NEW i \in DOMAIN queue'[p]
                       PROVE  Good(queue'[p][i].list)
          OBVIOUS
        <5>2. CASE p = n
          <6>1. queue'[p] = Tail(queue[n])
            BY <5>2
          <6>2. QED
            BY <4>4, <5>1, <6>1
        <5>3. CASE p # n
          <6>1. queue'[p] = queue[p]
            BY <5>3
          <6>2. QED
            BY <2>2, <5>1, <6>1 DEF LastInv, ListsGood
        <5>4. QED
          BY <5>2, <5>3
      <4>7. QED
        BY <3>1, <3>3, <4>5, <4>6 DEF ListsGood, Reading
    <3>6. Covered'
      <4>1. SUFFICES ASSUME NEW d \in channelGroup, conn[d] = "open", Due(d)
                     PROVE  \/ Good(shown[d])
                            \/ queue'[NodeOf[d]] # <<>>
                            \/ \E v \in writes' : d \in v.todo
        BY <3>3 DEF Covered, Due
      <4>2. CASE NodeOf[d] = n
        <5>1. d \in todo
          BY <4>2
        <5>2. w \in writes' /\ d \in w.todo
          BY <3>4, <5>1
        <5>3. QED
          BY <5>2
      <4>3. CASE NodeOf[d] # n
        BY <2>2, <3>1, <3>4, <4>1, <4>3 DEF LastInv, Covered
      <4>4. QED
        BY <4>2, <4>3
    <3>7. QED
      BY <3>1, <3>2, <3>5, <3>6 DEF LastInv
  <2>3. QED
    BY <2>1, <2>2
<1>4. QED
  BY <1>1, <1>2, <1>3

LEMMA WriteToStep ==
    ASSUME IInv, NEW w \in writes, NEW d \in Channels, WriteTo(w, d)
    PROVE  IInv'
<1> USE OnlineListAssumption DEF IInv, TypeOK, WriteTo, history
<1>1. TypeOK'
  <2>1. w \in Writes /\ w.msg \in Lists /\ w.msg.from \in Channels /\ w.msg.list \in SUBSET Channels
    BY DEF Writes, Lists
  <2>2. shown' \in [Channels -> SUBSET Channels]
    BY <2>1
  <2>3. writes' \in SUBSET Writes
    <3>1. CASE w.todo = {d}
      BY <3>1
    <3>2. CASE w.todo # {d}
      <4>1. w.todo \ {d} \in (SUBSET Channels) \ {{}}
        BY <2>1, <3>2 DEF Writes
      <4>2. [w EXCEPT !.todo = @ \ {d}] \in Writes
        BY <2>1, <4>1 DEF Writes
      <4>3. QED
        BY <3>2, <4>2
    <3>3. QED
      BY <3>1, <3>2
  <2>4. pc' \in [Channels -> {"ready", "group", "members", "push", "writing"}]
    BY <2>1
  <2>5. QED
    BY <2>2, <2>3, <2>4
<1>2. OnlineInv'
  BY DEF OnlineInv, Over
<1>3. LastInv'
  <2> DEFINE v == [w EXCEPT !.todo = @ \ {d}]
  <2>1. CASE last = NoChannel
    BY <2>1 DEF LastInv
  <2>2. CASE last # NoChannel
    <3>1. ~Reading /\ Good(w.msg.list)
      BY <2>2 DEF LastInv, NothingSent, ListsGood
    <3>2. /\ \A e \in Channels : pc'[e] = pc[e] \/ pc'[e] = "ready"
          /\ ~Reading' /\ Alone'
      BY <2>2, <3>1 DEF LastInv, Alone, Reading
    <3>3. conn'[last] = "open" => last \in channelGroup'
      BY <2>2, <3>1 DEF LastInv, Reading
    <3>4. \A list : Good(list)' <=> Good(list)
      BY DEF Good
    <3>5. w \in Writes /\ v.msg = w.msg /\ v.todo = w.todo \ {d}
      BY DEF Writes
    <3>6. writes' = IF w.todo = {d} THEN writes \ {w} ELSE (writes \ {w}) \cup {v}
      OBVIOUS
    <3>7. ListsGood'
      <4>1. \A u \in writes' : Good(u.msg.list)
        BY <2>2, <3>1, <3>5, <3>6 DEF LastInv, ListsGood
      <4>2. QED
        BY <2>2, <3>2, <3>4, <4>1 DEF LastInv, ListsGood, Reading
    <3>8. Covered'
      <4>1. SUFFICES ASSUME NEW e \in channelGroup, conn[e] = "open", Due(e)
                     PROVE  \/ Good(shown'[e])
                            \/ queue[NodeOf[e]] # <<>>
                            \/ \E u \in writes' : e \in u.todo
        BY <3>4 DEF Covered, Due
      <4>2. CASE e = d
        BY <3>1, <4>1, <4>2
      <4>3. CASE e # d
        <5>1. shown'[e] = shown[e]
          BY <4>3
        <5>2. \A u \in writes : e \in u.todo => \E x \in writes' : e \in x.todo
          BY <3>5, <3>6, <4>3
        <5>3. QED
          BY <2>2, <3>1, <4>1, <5>1, <5>2 DEF LastInv, Covered
      <4>4. QED
        BY <4>2, <4>3
    <3>9. QED
      BY <3>2, <3>3, <3>7, <3>8 DEF LastInv
  <2>3. QED
    BY <2>1, <2>2
<1>4. QED
  BY <1>1, <1>2, <1>3

LEMMA CloseStep ==
    ASSUME IInv, NEW c \in Channels, Close(c)
    PROVE  IInv'
<1> USE OnlineListAssumption DEF IInv, TypeOK, Close, history
<1>1. TypeOK'
  BY DEF Lists, Writes
<1>2. OnlineInv'
  BY DEF OnlineInv, Over
<1>3. LastInv'
  BY SMTT(40) DEF LastInv, Alone, Reading, NothingSent, ListsGood, Good, Covered, Due
<1>4. QED
  BY <1>1, <1>2, <1>3

LEMMA ClearStep ==
    ASSUME IInv, NEW c \in Channels, HangUp(c) \/ ClearSession(c)
    PROVE  IInv'
<1> USE OnlineListAssumption DEF IInv, TypeOK, history
<1>1. /\ conn[c] \in {"open", "closed"} /\ pc[c] = "ready"
      /\ conn' = [conn EXCEPT ![c] = IF conn[c] = "open" THEN "closing" ELSE "over"]
      /\ shown' \in [Channels -> SUBSET Channels]
      /\ \A d \in Channels : d # c => shown'[d] = shown[d]
      /\ UNCHANGED <<openCluster, pc, userList, queue, writes, last, past>>
  <2>1. CASE HangUp(c)
    BY <2>1 DEF HangUp, Clear, ClearFails
  <2>2. CASE ClearSession(c)
    <3>1. conn[c] = "closed" /\ pc[c] = "ready"
      BY <2>2 DEF ClearSession, OnlineInv
    <3>2. QED
      BY <2>2, <3>1 DEF ClearSession, Clear, ClearFails
  <2>3. QED
    BY <2>1, <2>2
<1>2. \/ /\ online' = online \ {c} /\ channelGroup' = channelGroup \ {c}
         /\ cleared' = cleared \cup {c}
      \/ UNCHANGED <<online, channelGroup, cleared>>
  BY DEF HangUp, ClearSession, Clear, ClearFails
<1>3. TypeOK'
  BY <1>1, <1>2
<1>4. OnlineInv'
  BY <1>1, <1>2 DEF OnlineInv, Over
<1>5. LastInv'
  <2>1. \A list : Good(list) => Good(list)'
    BY <1>1, <1>2 DEF Good
  <2>2. ASSUME last # NoChannel
        PROVE  /\ Alone' /\ (Reading' => NothingSent')
               /\ pc'[last] # "group" /\ conn'[last] = "open" => last \in channelGroup'
    BY <1>1, <1>2, <2>2 DEF LastInv, Alone, Reading, NothingSent
  <2>3. ASSUME last # NoChannel
        PROVE  ListsGood'
    BY <1>1, <2>1, <2>3 DEF LastInv, ListsGood
  <2>4. ASSUME last # NoChannel, ~Reading'
        PROVE  Covered'
    BY <1>1, <1>2, <2>1, <2>4 DEF LastInv, Covered, Reading, Due
  <2>5. QED
    BY <1>1, <2>2, <2>3, <2>4 DEF LastInv
<1>6. QED
  BY <1>3, <1>4, <1>5

LEMMA StutterStep ==
    ASSUME IInv, UNCHANGED vars
    PROVE  IInv'
BY DEF vars, history, IInv, TypeOK, OnlineInv, Over, LastInv, Alone, Reading, NothingSent,
       ListsGood, Good, Covered, Due

-----------------------------------------------------------------------------
THEOREM Invariance == Spec => []IInv
<1>1. IInv /\ [Next]_vars => IInv'
  BY AddOnlineStep, HandshakeFailsStep, JoinGroupStep, ReadMembersStep, ReadMembersFailsStep,
     PublishStep, PublishLostStep, PushHereStep, ConsumeStep, WriteToStep, CloseStep,
     ClearStep, StutterStep DEF Next
<1>2. QED
  BY InitIInv, <1>1, PTL DEF Spec

\* Every variable keeps its type: a group holds only channels that have not closed, a
\* write visits channels of its process, and a server that is not in a cluster queues nothing.
THEOREM TypeCorrect == Spec => []TypeOK
<1>1. IInv => TypeOK
  BY DEF IInv
<1>2. QED
  BY Invariance, <1>1, PTL

\* When the lists of the last connection are all written, each page they reach shows
\* what was read for it.
LEMMA QuietGood ==
    ASSUME IInv, Quiet, last # NoChannel
    PROVE  \A c \in Reached : c \in channelGroup /\ Good(shown[c])
<1> USE OnlineListAssumption DEF IInv, TypeOK
<1>1. ~Reading
  BY DEF Quiet, Reading
<1>2. Covered /\ (conn[last] = "open" => last \in channelGroup)
  BY <1>1 DEF LastInv, Reading
<1>3. ASSUME NEW c \in channelGroup, conn[c] = "open", Due(c)
      PROVE  Good(shown[c])
  BY <1>2, <1>3 DEF Covered, Quiet
<1>4. QED
  BY <1>2, <1>3 DEF Reached, Due

\* The pages that the last connection reaches show each other.
THEOREM ListsComplete == Spec => []ListComplete
<1>1. IInv => ListComplete
  BY QuietGood DEF Good, ListComplete
<1>2. QED
  BY Invariance, <1>1, PTL

\* ... and nobody who had gone before it began.
THEOREM NoGhosts == Spec => []NoGhost
<1>1. IInv => NoGhost
  BY QuietGood DEF Good, NoGhost
<1>2. QED
  BY Invariance, <1>1, PTL
=============================================================================

--------------------------- MODULE GroupRoomsProofs ---------------------------
(***************************************************************************)
(* Machine-checked proofs about GroupRooms, for any number of channels, users, *)
(* rooms and groups.                                                         *)
(***************************************************************************)
EXTENDS GroupRooms, TLAPS

Joins(c) == pc[c] \notin {"ready", "leave"}

\* The map of channels: a handler runs for an open channel only, which is the one
\* found for a user who has no other; a group has no channel that has closed.
ChannelInv ==
    /\ \A u \in Users : channelMap[u] # NoChannel => UserOf[channelMap[u]] = u
    /\ \A c \in Channels : pc[c] # "ready" => conn[c] = "open"
    /\ \A c \in Channels : conn[c] = "open" /\ Alone(c) => channelMap[UserOf[c]] = c
    /\ \A g \in Groups : \A c \in members[g] : conn[c] \in {"open", "closing"}

\* A group is that of one room, for the map and for every handler that holds it.
HeldInv ==
    /\ \A r, t \in Rooms :
           chatChannelGroups[r] # NoGroup /\ chatChannelGroups[t] = chatChannelGroups[r] => t = r
    /\ \A c \in Channels, r \in Rooms :
           group[c] # NoGroup /\ chatChannelGroups[r] = group[c] => r = room[c]
    /\ \A c \in Channels : pc[c] \in {"send", "write"} => room[c] = Ten

\* A handler that runs a leave holds the room's group, as long as that has a member
\* who has not joined the room since the handler began.
LeavingInv ==
    \A c, d \in Channels :
        pc[c] = "leave" /\ Member(d, room[c]) /\ d \notin since[c]
            => group[c] = chatChannelGroups[room[c]]

\* Two joins of one room at a time are contested, and one that is not has the
\* group of its room until it finds that empty.
ContestInv ==
    /\ \A c, d \in Channels :
           c # d /\ Joins(c) /\ Joins(d) /\ room[c] = room[d] => c \in contested
    /\ \A c \in Channels :
           Joins(c) /\ pc[c] # "create" /\ c \notin contested => group[c] = chatChannelGroups[room[c]]

\* Whoever joins a room with a member whose join was not contested has the room's
\* group, and does not make another.
KeptInv ==
    \A c \in Channels, r \in Rooms :
        <<c, r>> \in inRoom /\ c \notin contested /\ Alone(c) =>
            /\ Member(c, r)
            /\ \A d \in Channels : Joins(d) /\ room[d] = r =>
                   pc[d] # "create" /\ group[d] = chatChannelGroups[r]

IInv == /\ TypeOK /\ ChannelInv /\ HeldInv /\ LeavingInv /\ NoStranger
        /\ ContestInv /\ KeptInv

-----------------------------------------------------------------------------
LEMMA InitIInv == Init => IInv
<1> USE RoomAssumption DEF Init
<1>1. Init => TypeOK
  BY DEF TypeOK, Steps
<1>2. Init => ChannelInv /\ HeldInv /\ LeavingInv /\ NoStranger /\ ContestInv /\ KeptInv
  BY DEF ChannelInv, HeldInv, LeavingInv, NoStranger, ContestInv, KeptInv, Member, Joins
<1>3. QED
  BY <1>1, <1>2 DEF IInv

-----------------------------------------------------------------------------
(* Every step preserves the invariant, action by action.                    *)

LEMMA ConnectStep ==
    ASSUME IInv, NEW c \in Channels, Connect(c)
    PROVE  IInv'
<1> USE RoomAssumption DEF IInv, TypeOK, Connect, locals, history
<1>1. TypeOK'
  BY DEF Steps
<1>2. ChannelInv'
  BY DEF ChannelInv, Alone
<1>3. HeldInv'
  BY DEF HeldInv
<1>4. LeavingInv'
  BY DEF ChannelInv, LeavingInv, HeldInv, Member
<1>5. NoStranger'
  BY DEF NoStranger, Member, HeldInv, LeavingInv, ChannelInv, Alone
<1>6. ContestInv'
  BY DEF ContestInv, Joins
<1>7. KeptInv'
  BY DEF KeptInv, ContestInv, HeldInv, ChannelInv, Member, Joins, Alone
<1>8. QED
  BY <1>1, <1>2, <1>3, <1>4, <1>5, <1>6, <1>7

LEMMA CloseStep ==
    ASSUME IInv, NEW c \in Channels, Close(c)
    PROVE  IInv'
<1> USE RoomAssumption DEF IInv, TypeOK, Close, locals
<1>1. TypeOK'
  BY DEF Steps
<1>2. ChannelInv'
  BY DEF ChannelInv, Alone
<1>3. HeldInv'
  BY DEF HeldInv
<1>4. LeavingInv'
  BY DEF ChannelInv, LeavingInv, HeldInv, Member
<1>5. NoStranger'
  BY DEF NoStranger, Member, HeldInv, LeavingInv, ChannelInv, Alone
<1>6. ContestInv'
  BY DEF ContestInv, Joins
<1>7. KeptInv'
  BY DEF KeptInv, ContestInv, HeldInv, ChannelInv, Member, Joins, Alone
<1>8. QED
  BY <1>1, <1>2, <1>3, <1>4, <1>5, <1>6, <1>7

LEMMA ClearStep ==
    ASSUME IInv, NEW c \in Channels, HangUp(c) \/ TearDown(c)
    PROVE  IInv'
<1> USE RoomAssumption DEF IInv, TypeOK, HangUp, TearDown, ClearSession, locals, history
<1>1. TypeOK'
  BY DEF Steps
<1>2. ChannelInv'
  BY DEF ChannelInv, Alone
<1>3. HeldInv'
  BY DEF HeldInv
<1>4. LeavingInv'
  BY DEF ChannelInv, LeavingInv, HeldInv, Member
<1>5. NoStranger'
  BY DEF NoStranger, Member, HeldInv, LeavingInv, ChannelInv, Alone
<1>6. ContestInv'
  BY DEF ContestInv, Joins
<1>7. KeptInv'
  BY DEF KeptInv, ContestInv, HeldInv, ChannelInv, Member, Joins, Alone
<1>8. QED
  BY <1>1, <1>2, <1>3, <1>4, <1>5, <1>6, <1>7

LEMMA LookStep ==
    ASSUME IInv, NEW c \in Channels, NEW r \in Rooms,
           JoinLook(c, r) \/ SendLook(c) \/ LeaveLook(c, r)
    PROVE  IInv'
<1> USE RoomAssumption DEF IInv, TypeOK, JoinLook, SendLook, LeaveLook, Look, Goto, Contest, Joining
<1>1. TypeOK'
  BY DEF Steps
<1>2. ChannelInv'
  BY DEF ChannelInv, Alone
<1>3. HeldInv'
  BY DEF HeldInv
<1>4. LeavingInv'
  BY DEF ChannelInv, LeavingInv, HeldInv, Member
<1>5. NoStranger'
  BY DEF NoStranger, Member, HeldInv, LeavingInv, ChannelInv, Alone
<1>6. ContestInv'
  <2>1. PICK t \in Rooms : /\ pc[c] = "ready" /\ room' = [room EXCEPT ![c] = t]
                           /\ group' = [group EXCEPT ![c] = chatChannelGroups[t]]
                           /\ UNCHANGED chatChannelGroups
                           /\ \/ pc' = [pc EXCEPT ![c] = "leave"] /\ UNCHANGED contested
                              \/ /\ \/ pc' = [pc EXCEPT ![c] = "join"]
                                    \/ pc' = [pc EXCEPT ![c] = "send"]
                                 /\ contested' = IF Joining(t) = {} THEN contested
                                                 ELSE contested \cup Joining(t) \cup {c}
    OBVIOUS
  <2>2. ASSUME NEW a \in Channels, NEW b \in Channels, a # b, Joins(a)', Joins(b)',
               room'[a] = room'[b]
        PROVE  a \in contested'
    <3>1. CASE a # c /\ b # c
      BY <2>1, <2>2, <3>1 DEF ContestInv, Joins
    <3>2. CASE a = c
      <4>1. b \in Joining(t)
        BY <2>1, <2>2, <3>2 DEF Joins
      <4>2. QED
        BY <2>1, <2>2, <3>2, <4>1 DEF Joins
    <3>3. CASE b = c
      <4>1. a \in Joining(t)
        BY <2>1, <2>2, <3>3 DEF Joins
      <4>2. QED
        BY <2>1, <2>2, <3>3, <4>1 DEF Joins
    <3>4. QED
      BY <3>1, <3>2, <3>3
  <2>3. ASSUME NEW a \in Channels, Joins(a)', pc'[a] # "create", a \notin contested'
        PROVE  group'[a] = chatChannelGroups'[room'[a]]
    BY <2>1, <2>3 DEF ContestInv, Joins
  <2>4. QED
    BY <2>2, <2>3 DEF ContestInv
<1>7. KeptInv'
  BY SMTT(40) DEF KeptInv, ContestInv, HeldInv, ChannelInv, Member, Joins, Alone
<1>8. QED
  BY <1>1, <1>2, <1>3, <1>4, <1>5, <1>6, <1>7

LEMMA JoinCheckStep ==
    ASSUME IInv, NEW c \in Channels, JoinCheck(c)
    PROVE  IInv'
<1> USE RoomAssumption DEF IInv, TypeOK, JoinCheck, Goto, history
<1>1. TypeOK'
  BY DEF Steps
<1>2. ChannelInv'
  BY DEF ChannelInv, Alone
<1>3. HeldInv'
  BY DEF HeldInv
<1>4. LeavingInv'
  BY DEF ChannelInv, LeavingInv, HeldInv, Member
<1>5. NoStranger'
  BY DEF NoStranger, Member, HeldInv, LeavingInv, ChannelInv, Alone
<1>6. ContestInv'
  BY DEF ContestInv, Joins
<1>7. KeptInv'
  BY SMTT(40) DEF KeptInv, ContestInv, HeldInv, ChannelInv, Member, Joins, Alone
<1>8. QED
  BY <1>1, <1>2, <1>3, <1>4, <1>5, <1>6, <1>7

LEMMA JoinAddStep ==
    ASSUME IInv, NEW c \in Channels, JoinAdd(c)
    PROVE  IInv'
<1> USE RoomAssumption DEF IInv, TypeOK, JoinAdd, AddTo, Join, Return, Goto
<1>1. TypeOK'
  BY DEF Steps
<1>2. ChannelInv'
  BY DEF ChannelInv, Alone
<1>3. HeldInv'
  BY DEF HeldInv
<1>4. LeavingInv'
  BY DEF ChannelInv, LeavingInv, HeldInv, Member
<1>5. NoStranger'
  BY DEF NoStranger, Member, HeldInv, LeavingInv, ChannelInv, Alone
<1>6. ContestInv'
  BY DEF ContestInv, Joins
<1>7. KeptInv'
  BY DEF KeptInv, ContestInv, HeldInv, ChannelInv, Member, Joins, Alone
<1>8. QED
  BY <1>1, <1>2, <1>3, <1>4, <1>5, <1>6, <1>7

LEMMA JoinCreateStep ==
    ASSUME IInv, NEW c \in Channels, JoinCreate(c)
    PROVE  IInv'
<1> USE RoomAssumption DEF IInv, TypeOK, JoinCreate, PutNew, Fresh, Join, Return, Goto
<1>1. TypeOK'
  BY DEF Steps
<1>2. ChannelInv'
  BY DEF ChannelInv, Alone
<1>3. HeldInv'
  BY DEF HeldInv
<1>4. LeavingInv'
  BY DEF ChannelInv, LeavingInv, HeldInv, Member
<1>5. NoStranger'
  BY DEF NoStranger, Member, HeldInv, LeavingInv, ChannelInv, Alone
<1>6. ContestInv'
  BY SMTT(40) DEF ContestInv, Joins
<1>7. KeptInv'
  BY DEF KeptInv, ContestInv, HeldInv, ChannelInv, Member, Joins, Alone
<1>8. QED
  BY <1>1, <1>2, <1>3, <1>4, <1>5, <1>6, <1>7

LEMMA SendAddStep ==
    ASSUME IInv, NEW c \in Channels, SendAdd(c)
    PROVE  IInv'
<1> USE RoomAssumption DEF IInv, TypeOK, SendAdd, AddTo, PutNew, Fresh, Join, Goto
<1>1. TypeOK'
  <2>1. CASE group[c] # NoGroup /\ AddTo(c) /\ UNCHANGED <<chatChannelGroups, group>>
    BY <2>1 DEF Steps
  <2>2. ASSUME NEW g \in Groups, PutNew(c, g), group' = [group EXCEPT ![c] = g]
        PROVE  TypeOK'
    BY <2>2 DEF Steps
  <2>3. QED
    BY <2>1, <2>2
<1>2. ChannelInv'
  <2>1. CASE group[c] # NoGroup /\ AddTo(c) /\ UNCHANGED <<chatChannelGroups, group>>
    BY <2>1 DEF ChannelInv, Alone
  <2>2. ASSUME NEW g \in Groups, PutNew(c, g), group' = [group EXCEPT ![c] = g]
        PROVE  ChannelInv'
    BY <2>2 DEF ChannelInv, Alone
  <2>3. QED
    BY <2>1, <2>2
<1>3. HeldInv'
  BY DEF HeldInv
<1>4. LeavingInv'
  <2>1. CASE group[c] # NoGroup /\ AddTo(c) /\ UNCHANGED <<chatChannelGroups, group>>
    BY <2>1 DEF ChannelInv, LeavingInv, HeldInv, Member
  <2>2. ASSUME NEW g \in Groups, PutNew(c, g), group' = [group EXCEPT ![c] = g]
        PROVE  LeavingInv'
    BY <2>2 DEF ChannelInv, LeavingInv, HeldInv, Member
  <2>3. QED
    BY <2>1, <2>2
<1>5. NoStranger'
  <2>1. CASE group[c] # NoGroup /\ AddTo(c) /\ UNCHANGED <<chatChannelGroups, group>>
    BY <2>1 DEF NoStranger, Member, HeldInv, LeavingInv, ChannelInv, Alone
  <2>2. ASSUME NEW g \in Groups, PutNew(c, g), group' = [group EXCEPT ![c] = g]
        PROVE  NoStranger'
    BY <2>2 DEF NoStranger, Member, HeldInv, LeavingInv, ChannelInv, Alone
  <2>3. QED
    BY <2>1, <2>2
<1>6. ContestInv'
  BY DEF ContestInv, Joins
<1>7. KeptInv'
  <2>1. CASE group[c] # NoGroup /\ AddTo(c) /\ UNCHANGED <<chatChannelGroups, group>>
    BY <2>1 DEF KeptInv, ContestInv, HeldInv, ChannelInv, Member, Joins, Alone
  <2>2. ASSUME NEW g \in Groups, PutNew(c, g), group' = [group EXCEPT ![c] = g]
        PROVE  KeptInv'
    BY <2>2 DEF KeptInv, ContestInv, HeldInv, ChannelInv, Member, Joins, Alone
  <2>3. QED
    BY <2>1, <2>2
<1>8. QED
  BY <1>1, <1>2, <1>3, <1>4, <1>5, <1>6, <1>7

LEMMA SendWriteStep ==
    ASSUME IInv, NEW c \in Channels, SendWrite(c)
    PROVE  IInv'
<1> USE RoomAssumption DEF IInv, TypeOK, SendWrite, Return, Goto, history
<1>1. TypeOK'
  BY DEF Steps
<1>2. ChannelInv'
  BY DEF ChannelInv, Alone
<1>3. HeldInv'
  BY DEF HeldInv
<1>4. LeavingInv'
  BY DEF ChannelInv, LeavingInv, HeldInv, Member
<1>5. NoStranger'
  BY DEF NoStranger, Member, HeldInv, LeavingInv, ChannelInv, Alone
<1>6. ContestInv'
  BY DEF ContestInv, Joins
<1>7. KeptInv'
  BY DEF KeptInv, ContestInv, HeldInv, ChannelInv, Member, Joins, Alone
<1>8. QED
  BY <1>1, <1>2, <1>3, <1>4, <1>5, <1>6, <1>7

LEMMA LeaveRemoveStep ==
    ASSUME IInv, NEW c \in Channels, LeaveRemove(c)
    PROVE  IInv'
<1> USE RoomAssumption DEF IInv, TypeOK
<1>1. PICK u \in Users :
          /\ \/ /\ group[c] # NoGroup
                /\ members' = [members EXCEPT ![group[c]] = @ \ {channelMap[u]}]
             \/ group[c] = NoGroup /\ UNCHANGED members
          /\ Left(c, u)
  BY DEF LeaveRemove
<1>2. /\ pc[c] = "leave"
      /\ pc' = [pc EXCEPT ![c] = "ready"] /\ group' = [group EXCEPT ![c] = NoGroup]
      /\ UNCHANGED <<conn, channelMap, chatChannelGroups, room, contested>>
  BY DEF LeaveRemove, Return, Goto
<1>3. /\ members' \in [Groups -> SUBSET Channels]
      /\ \A g \in Groups : members'[g] \in SUBSET members[g]
  BY <1>1, <1>2
<1>4. /\ inRoom' \in SUBSET inRoom /\ joined' \in SUBSET joined
      /\ since' = [since EXCEPT ![c] = {}]
      /\ \A d \in Channels, r \in Rooms :
             /\ <<d, r>> \in inRoom /\ <<d, r>> \notin inRoom' => UserOf[d] = u /\ r = room[c]
             /\ <<d, r>> \in joined /\ <<d, r>> \notin joined'
                    => UserOf[d] = u /\ r = room[c] /\ d \notin since[c]
             /\ <<d, r>> \in inRoom' => UserOf[d] # u \/ r # room[c]
  BY <1>1 DEF Left
<1>5. TypeOK'
  BY <1>2, <1>3, <1>4 DEF Steps
<1>6. ChannelInv'
  BY <1>2, <1>3 DEF ChannelInv, Alone
<1>7. HeldInv'
  BY <1>2 DEF HeldInv
<1>8. LeavingInv'
  BY <1>2, <1>3, <1>4 DEF LeavingInv, Member
<1>9. NoStranger'
  <2>1. SUFFICES ASSUME NEW d \in Channels, NEW r \in Rooms,
                        Member(d, r)', Alone(d), conn[d] = "open", <<d, r>> \notin joined'
                 PROVE  FALSE
    BY <1>2 DEF NoStranger, Alone
  <2>2. Member(d, r) /\ <<d, r>> \in joined
    BY <1>2, <1>3, <2>1 DEF Member, NoStranger
  <2>3. UserOf[d] = u /\ r = room[c] /\ d \notin since[c]
    BY <1>4, <2>1, <2>2
  <2>4. group[c] = chatChannelGroups[r] /\ group[c] # NoGroup /\ channelMap[u] = d
    BY <1>2, <2>1, <2>2, <2>3 DEF LeavingInv, ChannelInv, Member
  <2>5. d \notin members'[chatChannelGroups[r]]
    BY <1>1, <2>4
  <2>6. QED
    BY <1>2, <2>1, <2>5 DEF Member
<1>10. ContestInv'
  BY <1>2 DEF ContestInv, Joins
<1>11. KeptInv'
  <2>1. SUFFICES ASSUME NEW d \in Channels, NEW r \in Rooms,
                        <<d, r>> \in inRoom', d \notin contested, Alone(d)
                 PROVE  /\ Member(d, r)'
                        /\ \A e \in Channels : Joins(e)' /\ room[e] = r =>
                               pc'[e] # "create" /\ group'[e] = chatChannelGroups[r]
    BY <1>2 DEF KeptInv, Alone
  <2>2. <<d, r>> \in inRoom /\ (UserOf[d] # u \/ r # room[c])
    BY <1>4, <2>1
  <2>3. /\ Member(d, r)
        /\ \A e \in Channels : Joins(e) /\ room[e] = r =>
               pc[e] # "create" /\ group[e] = chatChannelGroups[r]
    BY <2>1, <2>2 DEF KeptInv
  <2>4. Member(d, r)'
    <3>1. CASE UserOf[d] # u
      <4>1. channelMap[u] # d
        BY <3>1 DEF ChannelInv
      <4>2. QED
        BY <1>1, <1>2, <2>3, <4>1 DEF Member
    <3>2. CASE r # room[c]
      <4>1. group[c] # NoGroup => group[c] # chatChannelGroups[r]
        BY <3>2 DEF HeldInv
      <4>2. QED
        BY <1>1, <1>2, <2>3, <4>1 DEF Member
    <3>3. QED
      BY <2>2, <3>1, <3>2
  <2>5. QED
    BY <1>2, <2>3, <2>4 DEF Joins
<1>12. QED
  BY <1>5, <1>6, <1>7, <1>8, <1>9, <1>10, <1>11

LEMMA StutterStep ==
    ASSUME IInv, UNCHANGED vars
    PROVE  IInv'
BY DEF IInv, vars, locals, history, TypeOK, ChannelInv, HeldInv, LeavingInv, NoStranger,
       ContestInv, KeptInv, Member, Joins, Alone

-----------------------------------------------------------------------------
THEOREM Invariance == Spec => []IInv
<1>1. ASSUME IInv, NEW c \in Channels,
             \/ Connect(c) \/ HangUp(c) \/ Close(c) \/ TearDown(c)
             \/ \E r \in Rooms : JoinLook(c, r) \/ LeaveLook(c, r)
             \/ JoinCheck(c) \/ JoinAdd(c) \/ JoinCreate(c)
             \/ SendLook(c) \/ SendAdd(c) \/ SendWrite(c)
             \/ LeaveRemove(c)
      PROVE  IInv'
  BY <1>1, RoomAssumption, ConnectStep, CloseStep, ClearStep, LookStep, JoinCheckStep,
     JoinAddStep, JoinCreateStep, SendAddStep, SendWriteStep, LeaveRemoveStep
<1>2. IInv /\ [Next]_vars => IInv'
  BY <1>1, StutterStep DEF Next
<1>3. QED
  BY InitIInv, <1>2, PTL DEF Spec

\* Every variable keeps its type, and no handler adds to or writes to a group it
\* has not got.
THEOREM TypeCorrect == Spec => []TypeOK
<1>1. IInv => TypeOK
  BY DEF IInv
<1>2. QED
  BY Invariance, <1>1, PTL

\* A channel whose join of a room was not contested is a member of the room until
\* it closes or a leave that names its user ends.
THEOREM JoinLasts == Spec => []JoinedStays
<1>1. IInv => JoinedStays
  BY DEF IInv, KeptInv, JoinedStays
<1>2. QED
  BY Invariance, <1>1, PTL

\* ... and every group message is written to a group it is in.
THEOREM MessageReaches == Spec => []GroupMessageReaches
<1>1. IInv => GroupMessageReaches
  BY RoomAssumption DEF IInv, TypeOK, KeptInv, HeldInv, Joins, Member, GroupMessageReaches
<1>2. QED
  BY Invariance, <1>1, PTL

\* No connected user is a member of a room he has not joined, or has not joined since
\* a leave that names him began, whatever raced.
THEOREM NoStrangers == Spec => []NoStranger
<1>1. IInv => NoStranger
  BY DEF IInv
<1>2. QED
  BY Invariance, <1>1, PTL
=============================================================================

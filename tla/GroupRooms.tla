------------------------------ MODULE GroupRooms ------------------------------
(***************************************************************************)
(* Chat rooms: chatChannelGroups maps a room to a group of channels.         *)
(* WebSocketServiceImpl.messageDispatch joins and leaves a room, and, on a   *)
(* server that is not in a cluster, a group message joins its sender to room *)
(* "10" and is written to that group.  Every handler reads the map first and *)
(* acts on what it read; handlers of different channels run on different     *)
(* event loops.                                                              *)
(***************************************************************************)
EXTENDS FiniteSets

CONSTANTS Channels, Users, Rooms,
          UserOf,      \* the user of a channel's connection
          Ten,         \* the room group messages go to
          Groups,      \* bound: DefaultChannelGroup objects in use at a time
          NoChannel, NoGroup

ASSUME RoomAssumption ==
    /\ UserOf \in [Channels -> Users]
    /\ Ten \in Rooms
    /\ NoChannel \notin Channels /\ NoGroup \notin Groups

VARIABLES
    conn,              \* per channel: "new", "open", "closing", "closed", "over"
    channelMap,        \* user -> channel
    chatChannelGroups, \* room -> group
    members,           \* group -> its channels
    pc,                \* per channel: next step of its handler
    room, group,       \* ... and the handler's local variables
    inRoom,            \* history: <<c, r>> joined, and no leave naming c's user
                       \* has ended since
    joined,            \* history: <<c, r>> joined, and no leave naming c's user
                       \* has begun and ended since
    since,             \* history: who has joined a leaver's room since it began
    contested          \* history: channels whose join overlapped another's

locals  == <<pc, room, group>>
history == <<inRoom, joined, since, contested>>
vars    == <<conn, channelMap, chatChannelGroups, members, locals, history>>

Steps == {"ready", "join", "add", "create", "send", "write", "leave"}

\* Types, and no handler uses a group it has not got.
TypeOK ==
    /\ conn \in [Channels -> {"new", "open", "closing", "closed", "over"}]
    /\ channelMap \in [Users -> Channels \cup {NoChannel}]
    /\ chatChannelGroups \in [Rooms -> Groups \cup {NoGroup}]
    /\ members \in [Groups -> SUBSET Channels]
    /\ pc \in [Channels -> Steps]
    /\ room \in [Channels -> Rooms]
    /\ group \in [Channels -> Groups \cup {NoGroup}]
    /\ inRoom \in SUBSET (Channels \X Rooms)
    /\ joined \in SUBSET (Channels \X Rooms)
    /\ since \in [Channels -> SUBSET Channels]
    /\ contested \in SUBSET Channels
    /\ \A c \in Channels : pc[c] \in {"add", "write"} => group[c] # NoGroup

Init ==
    /\ conn = [c \in Channels |-> "new"]
    /\ channelMap = [u \in Users |-> NoChannel]
    /\ chatChannelGroups = [r \in Rooms |-> NoGroup]
    /\ members = [g \in Groups |-> {}]
    /\ pc = [c \in Channels |-> "ready"]
    /\ room = [c \in Channels |-> Ten]
    /\ group = [c \in Channels |-> NoGroup]
    /\ inRoom = {} /\ joined = {} /\ contested = {}
    /\ since = [c \in Channels |-> {}]

-----------------------------------------------------------------------------
(* Connections, as far as rooms see them.                                   *)

Connect(c) ==
    /\ conn[c] = "new"
    /\ conn' = [conn EXCEPT ![c] = "open"]
    /\ channelMap' = [channelMap EXCEPT ![UserOf[c]] = c]
    /\ UNCHANGED <<chatChannelGroups, members, locals, history>>

\* clearSession: opsForSet().remove may throw, and then the map keeps the channel.
ClearSession(c) ==
    \/ channelMap' = [channelMap EXCEPT ![UserOf[c]] = NoChannel]
    \/ UNCHANGED channelMap

\* A close frame: the session is cleared while the channel is still in its groups,
\* where it stays until the answer has been written.
HangUp(c) ==
    /\ conn[c] = "open" /\ pc[c] = "ready"
    /\ conn' = [conn EXCEPT ![c] = "closing"]
    /\ ClearSession(c)
    /\ UNCHANGED <<chatChannelGroups, members, locals, history>>

\* A group's close listener takes a closed channel out of every group.
Close(c) ==
    /\ conn[c] \in {"open", "closing"} /\ pc[c] = "ready"
    /\ conn' = [conn EXCEPT ![c] = "closed"]
    /\ members' = [g \in Groups |-> members[g] \ {c}]
    /\ inRoom' = inRoom \ ({c} \X Rooms)
    /\ joined' = joined \ ({c} \X Rooms)
    /\ contested' = contested \ {c}
    /\ UNCHANGED <<channelMap, chatChannelGroups, locals, since>>

\* channelInactive clears the session, again after a close frame.
TearDown(c) ==
    /\ conn[c] = "closed"
    /\ conn' = [conn EXCEPT ![c] = "over"]
    /\ ClearSession(c)
    /\ UNCHANGED <<chatChannelGroups, members, locals, history>>

-----------------------------------------------------------------------------
(* Handlers.                                                                *)

Goto(c, step) == pc' = [pc EXCEPT ![c] = step]
Return(c) == Goto(c, "ready") /\ group' = [group EXCEPT ![c] = NoGroup]

\* Joins, of one room, in progress.
Joining(r) == {d \in Channels : pc[d] \notin {"ready", "leave"} /\ room[d] = r}

\* A handler starts: chatChannelGroups.get.
Look(c, r, step) ==
    /\ conn[c] = "open" /\ pc[c] = "ready"
    /\ Goto(c, step)
    /\ room' = [room EXCEPT ![c] = r]
    /\ group' = [group EXCEPT ![c] = chatChannelGroups[r]]
    /\ UNCHANGED <<conn, channelMap, chatChannelGroups, members, inRoom, joined, since>>

Contest(c, r) == contested' = IF Joining(r) = {} THEN contested
                              ELSE contested \cup Joining(r) \cup {c}

JoinLook(c, r) == Look(c, r, "join") /\ Contest(c, r)
SendLook(c)    == Look(c, Ten, "send") /\ Contest(c, Ten)
LeaveLook(c, r) == Look(c, r, "leave") /\ UNCHANGED contested

Join(c) ==
    /\ inRoom' = inRoom \cup {<<c, room[c]>>}
    /\ joined' = joined \cup {<<c, room[c]>>}
    /\ since' = [d \in Channels |-> IF pc[d] = "leave" /\ room[d] = room[c]
                                   THEN since[d] \cup {c} ELSE since[d]]

AddTo(c) == members' = [members EXCEPT ![group[c]] = @ \cup {c}]

\* A group nobody refers to: what new DefaultChannelGroup gives.
Fresh(g) == /\ \A r \in Rooms : chatChannelGroups[r] # g
            /\ \A d \in Channels : group[d] # g

\* The new group holds the channel before it is put into the map.  A group that
\* neither the map nor a handler refers to afterwards is collected.
PutNew(c, g) ==
    /\ Fresh(g)
    /\ chatChannelGroups' = [chatChannelGroups EXCEPT ![room[c]] = g]
    /\ LET held == {group[d] : d \in Channels} \cup {chatChannelGroups'[r] : r \in Rooms}
       IN  members' = [h \in Groups |-> IF h = g THEN {c}
                                        ELSE IF h \in held THEN members[h] ELSE {}]

\* Variant: the test for an empty group is the wrong way round.
JoinCheckEmpty(c) ==
    /\ pc[c] = "join"
    /\ IF group[c] = NoGroup \/ members[group[c]] # {}
       THEN Goto(c, "create") /\ group' = [group EXCEPT ![c] = NoGroup]
       ELSE Goto(c, "add") /\ UNCHANGED group
    /\ UNCHANGED <<conn, channelMap, chatChannelGroups, members, room, history>>

\* Variant: only an empty group is replaced, a missing one is used.
JoinCheckNoNull(c) ==
    /\ pc[c] = "join"
    /\ IF group[c] # NoGroup /\ members[group[c]] = {}
       THEN Goto(c, "create") /\ group' = [group EXCEPT ![c] = NoGroup]
       ELSE Goto(c, "add") /\ UNCHANGED group
    /\ UNCHANGED <<conn, channelMap, chatChannelGroups, members, room, history>>

\* channelGroups == null || channelGroups.isEmpty(): what was read is not needed
\* any more.
JoinCheck(c) ==
    /\ pc[c] = "join"
    /\ IF group[c] = NoGroup \/ members[group[c]] = {}
       THEN Goto(c, "create") /\ group' = [group EXCEPT ![c] = NoGroup]
       ELSE Goto(c, "add") /\ UNCHANGED group
    /\ UNCHANGED <<conn, channelMap, chatChannelGroups, members, room, history>>

JoinAdd(c) ==
    /\ pc[c] = "add"
    /\ AddTo(c) /\ Join(c) /\ Return(c)
    /\ UNCHANGED <<conn, channelMap, chatChannelGroups, room, contested>>

JoinCreate(c) ==
    /\ pc[c] = "create"
    /\ \E g \in Groups : PutNew(c, g)
    /\ Join(c) /\ Return(c)
    /\ UNCHANGED <<conn, channelMap, room, contested>>

\* Variant: the sender makes a group of its own.
SendAddNew(c) ==
    /\ pc[c] = "send"
    /\ \E g \in Groups : PutNew(c, g) /\ group' = [group EXCEPT ![c] = g]
    /\ Join(c) /\ Goto(c, "write")
    /\ UNCHANGED <<conn, channelMap, room, contested>>

\* A group message on a single server: the sender joins the room first.
SendAdd(c) ==
    /\ pc[c] = "send"
    /\ \/ /\ group[c] # NoGroup
          /\ AddTo(c)
          /\ UNCHANGED <<chatChannelGroups, group>>
       \/ /\ group[c] = NoGroup
          /\ \E g \in Groups : PutNew(c, g) /\ group' = [group EXCEPT ![c] = g]
    /\ Join(c) /\ Goto(c, "write")
    /\ UNCHANGED <<conn, channelMap, room, contested>>

\* writeAndFlush on the group: its members now.
SendWrite(c) ==
    /\ pc[c] = "write"
    /\ Return(c)
    /\ UNCHANGED <<conn, channelMap, chatChannelGroups, members, room, history>>

\* A leave that names user u has ended: a join it overlapped may have outlived it.
Left(c, u) ==
    LET named == {d \in Channels : UserOf[d] = u}
    IN  /\ inRoom' = inRoom \ (named \X {room[c]})
        /\ joined' = joined \ ((named \ since[c]) \X {room[c]})
        /\ since' = [since EXCEPT ![c] = {}]

\* Variant: the sender is removed, not the one the message names.
LeaveSelf(c) ==
    /\ pc[c] = "leave"
    /\ \E u \in Users :
          /\ \/ /\ group[c] # NoGroup
                /\ members' = [members EXCEPT ![group[c]] = @ \ {c}]
             \/ group[c] = NoGroup /\ UNCHANGED members
          /\ Left(c, u)
    /\ Return(c)
    /\ UNCHANGED <<conn, channelMap, chatChannelGroups, room, contested>>

\* The message names a user, the sender or any other: his channel is removed, if he
\* has one; with no group the call throws, and the catch of messageDispatch ends
\* the handler.
LeaveRemove(c) ==
    /\ pc[c] = "leave"
    /\ \E u \in Users :
          /\ \/ /\ group[c] # NoGroup
                /\ members' = [members EXCEPT ![group[c]] = @ \ {channelMap[u]}]
             \/ group[c] = NoGroup /\ UNCHANGED members
          /\ Left(c, u)
    /\ Return(c)
    /\ UNCHANGED <<conn, channelMap, chatChannelGroups, room, contested>>

Next == \E c \in Channels :
           \/ Connect(c) \/ HangUp(c) \/ Close(c) \/ TearDown(c)
           \/ \E r \in Rooms : JoinLook(c, r) \/ LeaveLook(c, r)
           \/ JoinCheck(c) \/ JoinAdd(c) \/ JoinCreate(c)
           \/ SendLook(c) \/ SendAdd(c) \/ SendWrite(c)
           \/ LeaveRemove(c)

Spec == Init /\ [][Next]_vars

-----------------------------------------------------------------------------
(* Properties                                                               *)

Member(c, r) == chatChannelGroups[r] # NoGroup /\ c \in members[chatChannelGroups[r]]

\* The only connection of its user.
Alone(c) == \A d \in Channels \ {c} : UserOf[d] # UserOf[c]

\* A channel that joined a room while no other join of the room was in progress
\* is a member until it closes or a leave that names its user ends, whoever sent
\* it: no later join, of a room that had been empty or not, replaces its group.
JoinedStays ==
    \A c \in Channels, r \in Rooms :
        <<c, r>> \in inRoom /\ c \notin contested /\ Alone(c) => Member(c, r)

\* Such a channel gets every group message of a sender that did not race a join.
GroupMessageReaches ==
    \A c, d \in Channels :
        pc[c] = "write" /\ <<d, Ten>> \in inRoom /\ Alone(d) /\ {c, d} \cap contested = {}
            => d \in members[group[c]]

\* A user who is connected is in no room after a leave that names him, unless a
\* join of his own overlapped or followed it; the joins of others may have raced
\* it and each other in any way.
NoStranger ==
    \A c \in Channels, r \in Rooms :
        Member(c, r) /\ Alone(c) /\ conn[c] = "open" => <<c, r>> \in joined
=============================================================================

# IM-netty: TLA+ models, model checking and proofs

This directory holds the formal models of the IM-netty chat server: TLA+
modules translated from its Java (and browser JavaScript) source, TLC
configurations that check them on small instances, and theorems checked by the
TLA+ proof system. Paths below are relative to the repository;
`im/` stands for `src/main/java/com/octv/im/`.

## 1. Inventory of the system

A cluster of identical processes. Each accepts WebSocket connections with Netty,
keeps the connected channels in memory, and shares with the others one Redis (who
is online, messages for absent users) and one RabbitMQ (messages passed between
processes). Browsers run `chat.js`.

| Component | Source | State it keeps | Operations |
|---|---|---|---|
| Channel registry | `im/util/ChatChannelManage.java`, `im/service/impl/ChannelSessionServiceImpl.java` | `channelMap` (user id -> channel), `channelGroup` (all channels), `chatChannelGroups` (room -> channels), Redis set of online members | `addChannel`, `clearSession`, `scheduledScanNotActiveChannel`, `scheduledSendClientPing` |
| Connection handling | `im/chat/WebSocketMessageHandler.java`, `WebSocketServiceImpl.handleWebSocketConnect/Work` | shared field `handshaker`, channel attributes `userId`, `lastHeartBeatTime` | upgrade request, close / ping / pong / binary / text frame, `channelInactive`, `exceptionCaught` |
| Message dispatch | `WebSocketServiceImpl.messageDispatch` | reads the registry; Redis sorted set `OFFLINE_CHAT_PERSON_KEY_PREFIX.<user>` | group chat, private chat, join / leave a room, pong |
| Offline delivery | `handleWebSocketConnect` lines 100-124 | the same sorted set | on connect: send one stored message, then remove by score |
| Cluster dispatch | `im/config/RabbitConfig.java`, `RabbitProductServiceImpl`, `RabbitConsumeServiceImpl` | one queue per process address, bound to a fanout exchange; personal and group queues | publish, consume, acknowledge |
| Heartbeat | `scheduledSendClientPing`, `scheduledScanNotActiveChannel`, `application.yml`, `chat.js` | last heartbeat per channel | ping every 30 s, scan every 60 s, 90 s limit |
| Online user list | `addChannel` lines 55-68, `chat.js` | the list each browser shows | push of the Redis set to everybody |
| Server start | `im/chat/ChatServer.java`, `ChatServerService.java`, `ServerBootstrapBuilder.java`, `NacosRegisterServiceImpl.java` | bound or not, registration | bind, retry after 60 s, register |
| Request parameters | `im/util/RequestParamUtil.java` | none | `urlSplit`, `truncateUrlPage` |
| Dates | `im/util/DateUtils.java`, `DateFormatUtils.java` | none | conversions, `date2String` on the message path |
| Page's connection | `templates/webapp/bootstrap/js/chat.js` | `socket`, `lockReconnect`, `tt`, the heart check's interval | `websocket`, `onopen`, `onclose`, `reconnect`, `heartCheck` |
| Chat page | `chat.js` of `templates/webapp/` and of `webapp/` | boxes, which are displayed, red points, `currentChatUserId`, `currentChatUserNick` | `systemMessage`, the cases of `onmessage`, `chooseUser`, `send`, `sendMessage`, `sendMessageToUser` |
| Contract countersign form | `src/main/resources/d.js`, its earlier form `old.js`, `ds.js` | hidden fields of a form: department, leaders, approval document, flags of the user's company | `depcallback`, `checkcompany`, the calls at load, `beforeSubmit` |
| Bootstrap plugins | `bootstrap.js`, twice the same file | one JavaScript object per element; classes and attributes of the page | `show`, `hide`, `toggle`, `slide`, `process`, ... of each plugin, ends of transitions, timers |
| Not part of the chat core | `im/elasticSearch`, `im/zk` (unused), `im/controller`, `im/test`, entities, Spring configuration, `a.js` | | |

How they interact. A channel's handlers run on its event loop, one at a time; two
channels run on different event loops; the two scheduled methods run on scheduler
threads; RabbitMQ listeners run on container threads. All of them read and write
the three static maps and Redis with no lock, so between any two accesses another
thread may step in. Netty closes are asynchronous: a close asked for by another
thread is a task of the channel's event loop, and `channelInactive` follows a
close as a task of its own. In a browser one handler runs at a time; what
interleaves there are whole handlers: events of the user, of the socket, timers and
the ends of CSS transitions.

What is hard: handlers of an old and a new connection of the same user
overlapping; the shared `handshaker` field; a read of `channelMap` used after the
channel has closed; check-then-act on room groups; a Redis or RabbitMQ call that
fails between two steps; redelivery and acknowledgement; a scan racing a pong; in the
page, callbacks that were asked for before the state they change was changed again.

What must hold, component by component: a session that stands alone is reachable,
and nothing of a connection outlives its teardown (registry); a message is
delivered, kept, or lost in one of the ways the code names, and what is queued is
consumed (dispatch, offline delivery, cluster); pages end up with the last list
(online list); a member stays a member until it leaves (rooms); a client that
answers stays and a silent one goes (heartbeat); a page does not give up
(reconnect), sends a message to the user in whose box it was typed and marks what
arrives out of sight (chat page); a form that may be submitted belongs to the
department and the document chosen (form); whatever is clicked while transitions run,
a widget ends in a state that agrees with itself (plugins); conversions and counts
agree with each other (utilities).

## 2. Plan

The order in which the modules were written, with the behaviour that matters most
first.

1. `SessionRegistry` and its proofs: connections, the registry, the scan.
2. `ClusterChat` and its proofs: private messages, the offline store, the exchange.
3. `Heartbeat` and its proofs: the two schedules and the page, in time.
4. `ClientReconnect`: the page's socket, lock, timeout and interval.
5. `GroupRooms`: the room groups.
6. `OnlineList`: the pushed list, over the exchange or the process's own group.
7. `Dates`, `RequestParams`: the utility classes, as operators.
8. `MessageService`: what the private messages promise, whatever carries them;
   `ClusterChat` implements it, checked and proved.
9. `ChatPage`, `CountSignForm`: the scripts of the pages.
10. The plugins of `bootstrap.js`, a module each: `Modal`, `Tooltip`, `TipPlacement`,
    `Carousel`, `Collapse`, `Dropdown`, `Tab`, `ScrollSpy`, `Affix`; `Browser`
    composes them with `ClientReconnect`, `ChatPage` and `CountSignForm`.
11. Proofs about `GroupRooms` and `OnlineList`, of `OneCopyPerQueue` and of the
    refinement.
12. `CallbackList`: what an event does to a list of callbacks, with its theorems; then
    `PageProofs` (connection, chat, form, the plugins and the types of all).
13. `UtilitiesProofs`: which user id is read from a request of any length, and that the
    operations on dates agree on every day.

What could follow: a presence service (a user is reachable or not) implemented by
`SessionRegistry` for users with one session at a time; several listeners per process
in `ClusterChat` (`Consumers` in `OnlineList` shows their reordering); the retry
template of `RabbitConfig`; `getMonthFirstDate` and `getMonthLastDate`.

`SessionRegistry` models a connection in full; `ClusterChat`, `GroupRooms`,
`OnlineList` and `Heartbeat` each take from it what their part sees (an entry of
the map, a channel that is open or closed) and are checked by themselves, because
the product of their state spaces is out of reach. Where one of them relies on
`SessionRegistry`, it relies on a property checked and proved there: entries are
sound (`MapSound`), and none outlives its channel (`NoDangling`).

## 3. The modules

In every module a handler that touches shared state more than once is one action
per access, a field `pc`, `spc`, `phase` or `stage` saying which comes next, and
actions of other threads may come between. An action whose comment begins with
"Variant" is not part of the specification: it is the action below it with one
plausible mistake, kept to show that the properties notice it.

### SessionRegistry

`WebSocketMessageHandler`, `handleWebSocketConnect`, `handleWebSocketWork`,
`ChannelSessionServiceImpl`, `ChatChannelManage`.

| Model | Code |
|---|---|
| `conn`, `closeReq`, `channelGroup` | the Netty channel: a close takes it out of its group at once, `channelInactive` follows as a task, a close from another thread is a task first |
| `channelMap`, `online`, `handshaker` | the static map, the Redis set, the field of the singleton service |
| `userId`, `beat` | channel attributes; `beat` is "fresh" or "stale" against the 90 s |
| `NewHandshaker`, `CheckHandshaker`, `AddOnline`, `Handshake`, `JoinGroup`, `PutMap` | the connect handler: the field is assigned, read again, `opsForSet().add`, attributes and handshake, `channelGroup.add`, `channelMap.put` |
| `AddOnlineFails`, `HandshakeFails`, `FrameThrows`, `ClearOnlineFails` | the exits through `catch` blocks and `exceptionCaught` |
| `CloseFrame`, `ChannelInactive`, `ClearOnline`, `ClearGroup`, `ClearMap` | `clearSession`, which runs once for the close frame and once for `channelInactive`; the map entry goes by user id, whichever channel it holds |
| `ScanStart` .. `ScanClose` | `scheduledScanNotActiveChannel`: a weakly consistent iterator, an early return for a channel without a heartbeat, a `channelMap.remove(channel)` that removes nothing |
| `Crash` | the process dies: memory is gone, Redis is not |

`session` and `rivals` are history: which channels have their user in the set on
their own account, and which ever overlapped another session of their user.
Abstracted: a connection presents one user id; time is fresh or stale.

### ClusterChat

`messageDispatch` (private chat, and anything else that goes to the exchange),
`RabbitProductServiceImpl.sendMessage`, `clusterMessageDispatch`, lines 100-124 of
the connect handler. One receiver, who connects several times; others only send.
The sender looks up the receiver (`Dispatch`), then writes (`Write`) or stores and
publishes (`Store`, `Publish`); the receiver's connect reads one stored message,
writes it and removes its score (`ReadOffline`, `WriteOffline`, `Sweep`); the
consumer takes, delivers and acknowledges (`Take`, `DeliverPrivate`,
`DeliverBroadcast`, `Ack`), or swallows an exception and does neither
(`BroadcastSticks`). All scores are 1: `incrementScore` is called once per member,
which holds a fresh uuid. `swept` and `missed` are history: the two ways of losing
a message. Left out: the sender's echo (lines 225-227), the second, personal and
group queues (their listeners parse and acknowledge), the broker's own timeout on
an unacknowledged message and its starting of further consumers.

A process dies with what its consumer holds, which goes back to the head of its
queue. `QueueOf` says which queue a process consumes: `RabbitConfig.java:154` names it
after the host's address, so that two processes of one address share one.

### MessageService

The abstract specification: a message is accepted, then pending until it is delivered
or lost, once and for all; before the receiver's first connection nothing is lost
unless a server or its store fails. `ClusterChat` maps to it by `Status`, which says
where a message is: `Alive` as long as a handler, the store, a queue, a listener or
the connect handler has it. A lost message is one that the sweep removed, that was
written to a channel that had closed, that a failing store never got, or that was still
with a process that died.

### Heartbeat

`scheduledSendClientPing` and `scheduledScanNotActiveChannel` with the cron
expressions of `application.yml`, `chat.js` of both pages. A tick is ten seconds.
The page of `webapp/` answers code 3 with code 4; the page of `templates/` waits
for code 13, answers 40, and sends a frame without a code every 60 s. A task that
is due runs before time goes on.

### ClientReconnect

`templates/webapp/bootstrap/js/chat.js`: `websocket()`, `onopen`, `onclose`,
`reconnect()` with `lockReconnect` and `tt`, `heartCheck`. A browser runs one
handler at a time, so an action is a whole handler. `Sockets` bounds the sockets
that exist at one time; a closed one is used again for a new object. Left out: the
`alert()` of `send` (line 298), which a close calls by way of `quitSend`. It holds up
the page's handlers and timers until the user dismisses it; that he does is part of
what `NeverGivesUp` assumes.

### ChatPage

Both pages, told apart by `page`. A user is a name of the list; `boxes` are the boxes
of the page, `shown` those displayed besides the group room's, `red` the red points,
`id` and `nick` the variables `currentChatUserId` and `currentChatUserNick`. Every case
of `onmessage` is an action, and every click: `ChooseUser`, `ChooseGroup`
(`chooseUser(null, null)`, which hides a box `#box-null` that does not exist),
`sendMessage`, `sendMessageToUser`. `sent` records the last message: the box it was
typed in, whom it went to, whether that box was alone. `news` and `unmarked` are
history: what has arrived out of sight, and how it came.

### CountSignForm

The hidden fields are one record, a handler is one action, and the calls to the server
are synchronous (`async: false`), with answers that may fail.
Departments have officers for some of four roles; `Type`, the choice of a stand-in and
the flags of the user's company follow `d.js`; `old.js`, where it differs, is the other
value of `script`. Settlement in advance is decided by the department's code in `d.js`
(`OrgKind`), and by a list of ids in `old.js` (`ByHeart`: the departments that, or whose
parents, are listed there). The two constants are unrelated: nothing in the code keeps
the list and the codes in step, and in the checked instance they differ.

### The Bootstrap plugins

Each module has one variable, a record of the plugin's object and of what the plugin
wrote to the page. A method is an operator from a record to the next; an action is a
handler of an event: a click, a key, the pointer, a timer, a call from the page's own
script, the end of a transition. Callbacks that wait for a transition are a sequence
`due`, run in their order by the action that ends it: `CallbackList!Fire`, which calls
them one after another, each with the state that the one before has left, is what
jQuery's `dispatch` does with the handlers of one event. The form uses it for its calls
at load. A handler of the page that calls
`preventDefault` leaves the plugin's state as it is and needs no action.

| Module | What races |
|---|---|
| `Modal` | `show`, `hide`, `handleUpdate`, backdrop and dialog transitions, the focus trap |
| `Tooltip` | `enter` and `leave` with their timers, `show`, `hide`, `destroy`, content that changes |
| `TipPlacement` | nothing: the geometry of `getCalculatedOffset`, auto placement and `getViewportAdjustedDelta` in a page that scrolls |
| `Carousel` | the interval, keys, controls, indicators, hovering, `to()` waiting for a slide's end |
| `Collapse` | panels of an accordion, whose objects are made at the first use |
| `Dropdown` | toggles, clicks elsewhere, arrow keys, handlers that refuse; a click on a toggle whose menu is refused goes on to the document |
| `Tab` | a tab chosen while the panes of another still change |
| `ScrollSpy` | scrolling and a page whose contents change |
| `Affix` | the same, with `checkPosition` |

`crossed`, `hurried`, `restarted` and `fresh` are history, and `scripted`, `holds` and
`refuses` say what the page's own script does: they mark the behaviours a property speaks of (or does not; section 6 says
what happens there).

### Browser

`Browser` composes the parts of a page. They share no state, so `part` chooses one, whose
state `page` holds, and a behaviour of the whole is one of that part; the connection
keeps its own variables. `MCBrowser` gives the constants values.

What the constants must satisfy is assumed part by part, and is all that the theorems
of section 5 need. No user has the group room's name and the users are finitely many;
a field of the form that is empty or typed in is told from one that was filled; the
backdrops are finitely many; a carousel and a menu have an item; panels have the order
of their numbers; a tip fits into the window; an affixed element fits into the window
and between its offsets on every page; a page is no smaller than the window and its
sections are in order. Pages of the same height may have their sections at different
places: `ScrollSpy.prototype.process` notices a change by the height alone, so that what
was read is then wrong until the height changes or the page calls `refresh`
(`CallRefresh`); `SpyFollows` says nothing while sections have moved unnoticed
(`Unnoticed`).

### GroupRooms

`messageDispatch`'s join, leave and single-server group message over
`chatChannelGroups`. A handler reads the group of a room in one step and adds to
it, or puts a new one, in another. A leave looks up the channel of the user its message
names, who need not be the sender (`LeaveRemove`), and removes that from the room's
group. A channel that closes (`HangUp`, which takes it out of every group, and
`ClearSession`, which ends its entry in `channelMap`) is no longer found. `contested`,
`inRoom`, `joined` and `since` are history: channels whose join overlapped another join
of the room; who has joined and was not named by a leave that ended later (`inRoom`), or
that began and ended later (`joined`); and who has joined the room of a leave under way
(`since`). `Alone` restricts the properties to users with one connection: with
two, the entry may be the other one's. A join with the empty action is a join like another. In a cluster group messages go to
everyone through the exchange, whatever rooms there are (`ClusterChat`).

### OnlineList

`addChannel` lines 55-68 and the case of the list code in the consumer and the page.
The set is read in one step and pushed in another; the push is a write to each
channel of the process's group in any order, on the handler's thread or a
listener's. A teardown is `Clear`: the removal from the Redis set, which may throw
(`ClearFails`) and then ends that teardown with the user still in the set; after a close
frame (`Close`) `clearSession` runs before the channel closes and again after it, so that
one of two may fail. `last`, `past` and `cleared` are history: the last connection, if it
began when no list was on its way and nothing of it failed; who had gone by then; and
whose teardown did its work at least once. A user none of whose teardowns did stays in the
lists that follow (section 6). Only the page of `webapp/` knows the code of the list.

### Dates, RequestParams

`DateUtils` and `DateFormatUtils`, `RequestParamUtil`, as operators. A date is its
seconds; a text is the pattern it is written in and the date it shows, since which
pattern reads which is what the conversions are about. `java.util` is marked
external. `Split` is Java's: empty parts at the end are dropped. The loops that take an
array's elements one by one (the tokens of a text, the pairs of a query, the dates of
`dateSort`) are `CallbackList!Fire`, like the callbacks of an event. There is no summer
time, and the years have four digits (`DaysAssumption`): in a longer text `formatDate`
finds no date.

## 4. The runs

| Run | Question | Bounds |
|---|---|---|
| `registry_faults` | what of the registry survives failing Redis calls and crashes | two connections of one user to two processes |
| `registry_live` | two sessions of one user: nothing dangles, nobody is listed in vain, closed connections are torn down, silent ones end | two connections to one process |
| `registry_reach` | (violated) an established channel can be found by its user | same |
| `registry_version` | (violated) the unsupported-version answer is for unsupported versions | same, two versions |
| `chat_faults` | which messages are lost, and how often one is queued | two processes that share a queue, two sessions of the receiver, two private messages and a broadcast, everything may fail |
| `chat_live` | the fanout closes the race of store and connect; queues drain; the whole is a `MessageService` | two processes with a queue each, one private message and a broadcast, no failures |
| `chat_sweep` | (violated) what is taken out of the store has been sent | two private messages, no failures |
| `heartbeat` | answering clients stay, silent ones go | one page of each kind, all start times and delays |
| `browser` | the lock, the interval, and no giving up; the boxes of the chat; the form; each plugin | three sockets at a time, three users, three departments, three or four elements per plugin, two or three callbacks waiting |
| `rooms_joins` | members stay, get the room's messages, leave for good | three users, one room, three groups at a time |
| `online_list` | the last list wins | three users, two processes, one listener each; cluster and single server, failing Redis calls and publishes |
| `utilities` | the overloads, counts and conversions agree; the user id is the one written | 2 x 101 days, 390,625 and all shorter URIs |

Why the bounds are enough. Each property relates at most two connections of a user,
two messages, or two joins of a room. Two processes distinguish a local from a remote
one. Two connections on one process show every race on an entry; on two, what they
share is the Redis set. Three users in a room are one who joins, one who races him
and one who had been there; a leave of any of them may name any other. Groups are interchangeable
objects, and so are the users, each with his channel: nothing but equality is ever asked
of one, so the symmetry of both is sound. A fourth group adds no state: no more than three
are ever in use. In `online_list` the two users of one process are interchangeable; one
listener per process keeps the instance small, and lists still overtake each other in it:
one read earlier may be published later, and outside a cluster handlers write side by
side. The theorems hold of any number of listeners. Two sessions, on different
processes, give the sender a receiver who moved. The ticks divide all the code's
periods, and the room between the longest answer (60 s) and the limit is used up:
30 + 60 = 90. The dates run from December into March around 2000 (a leap
year by the 400 rule) and 2001, so that years, months of every length and a leap day
are crossed in either direction. Eight tokens are the shortest request with two
parameters.

A queue shared by two processes is the hard case for copies of a message (both take
from it, and a crash puts back what the other is about to take); with a queue each,
`chat_faults` passes as well, and the theorems cover every layout. Three
users of a page are its own and two to go back and forth between; three departments
are one with every officer, one with few and one without a stand-in, and the one that
`old.js` lists is not the one whose code says the same. Three panels,
menus or tabs are one that opens, one that closes and one untouched. The window is 10
high for the tip, the spy and the affixed element alike; the pages are 11 to 15 high for
the spy (sections apart, at the top and the bottom, two at one place, and none; two pages
of one height with their sections elsewhere) and 20 or
24 for the affixed element, with either offset, both or none. The bounds on
waiting callbacks (`MaxDue`, `MaxQueued`, `Backdrops`) are where a guard stops further
clicks, and are no less than the two that an impatient user needs to cross two
transitions; the theorems hold of any bound.

Deadlock is checked in `heartbeat` and `browser`, which go on for ever; the other
instances stop when all their connections, messages, days or tokens are used up.

### Violations

* `registry_reach`: `clearSession` removes the entry of the user id. A user who
  reconnects before the old channel is torn down loses the new channel's entry, and
  with it private messages, although the connection stands. The same holds of the
  Redis set.
* `registry_version`: `handshaker` is assigned by every upgrade request and read again
  one line later.
* `chat_sweep`: one message is read, all of its score are removed. The comment speaks
  of the first 1000; `limit 0, 1` makes it one.

### Fairness

`SessionRegistry`: a handler that has started runs on (weak, per channel); a queued
close and `channelInactive` are tasks of an event loop and happen even if frames keep
arriving before them (strong: a frame's handler makes them wait again and again, but
an event loop takes its tasks in order); the scheduler keeps running its method (weak,
per process). `ClusterChat`: a handler that has started, the connect handler and
teardown, and the listeners (weak). `ClientReconnect`: a timeout that is due runs
(weak), which also takes it that the user dismisses an `alert()`. Nothing else is
assumed of clients, the network or the clock, nor of a user's clicks: the plugins are
checked for safety only.

## 5. The proofs

All are for every value of the constants that satisfies the named assumptions.

`SessionRegistryProofs`. The invariant `IInv` has eight parts, and its steps are
lemmas, one per part. `HandlerInv` ties `pc` to what the handler has done and to what
can have happened to its channel meanwhile; without it nothing is known between two
accesses. `ScanInv` says that what the scan holds was sound when it was taken,
`EntryInv` is `MapSound` for entries, `DanglingInv` says that an entry outlives its
channel only during `clearSession`, `OnlineInv` that whoever added a user will remove
him, `RivalInv` that two sessions of one user know of each other, and `SoleInv` that
what the connect handler of a lone session has done stays done: any other teardown of
the same user would have made it a rival. `ScanNeverGivesUp`, `NoDanglingEntry`,
`OnlineAccurate` and `SoleSessionStaysReachable` follow. Assumption:
`ConstantsAssumption`.

`ClusterChatProofs`. `StoredInv` strengthens `KeptUntilSwept` to handlers that have
still to publish, since a failed publish must find the message in one of the four sets;
`PickedInv` says that a session about to sweep has written what it picked, so that the
one message the sweep does not count as swept is in `got`; `FoundInv` keeps broadcasts
out of the store. With the types they are inductive; `SetToSeqType` types the messages a
crash puts back. `OneCopyPerQueue` needs `LeftInv`: what is in a queue or with a
consumer has left the handler that published it, which hence publishes once; lemmas
(`AppendOnce`, `TailOnce`, `ConcatOnce`, `SetToSeqOnce`) say what the operations on a
queue do to the places of a message. Results: `TypeCorrect`, `NothingElseIsLost`,
`OneCopy`. Assumption: `ClusterAssumption`.

The refinement, `ChatImplementsService`, is in the same module: each action is a step of
`MessageService` or a stutter. Most actions leave every `Status` alone; those that move
a message (`DeliverStep`, `LoseStep`) need to know that nothing delivers or stores a
message before it is dispatched (`NewInv`), that whoever writes to a session has one
that was connected (`VisitInv`), and that what was stored before the first
connection is in the store as long as nothing fails (`StoreInv`).

`HeartbeatProofs`. `AnswerersStay` is not inductive: nothing in it bounds the age of a
heartbeat. `QuietInv` does for a client that owes no answer (age and time to the next
ping make at most a period), `OwingInv` for one that does (its age is at most a period
and the age of some ping it owes), `AnswererHeard` puts them together with
`Period + RoundTrip <= Limit`. `ScanInv` shares one allowance between silence and the
wait for the scan. Results: `TypeCorrect`, `AnswerersAreKept`, `SilenceIsBounded`.
Assumptions: `HeartbeatAssumption`, `SlackAssumption`; the code's numbers satisfy both,
with no slack left for answers that take longer than a minute.

`GroupRoomsProofs`. `JoinedStays` is not inductive: a join in progress could put a new
group over the member's. `KeptInv` adds that whoever joins a room that has an uncontested
member holds the room's group; `ContestInv` that two joins of a room at a time are both
contested; `HeldInv` that a group belongs to one room; `LeavingInv` and `ChannelInv` that
a leave in progress holds the group of every member that has not joined since it began,
and that the channel of a user who is connected is the one his entry names, so that what
is removed is the channel of the user named and of nobody else. Results: `TypeCorrect`,
`JoinLasts`, `MessageReaches`, `NoStrangers`. Assumption: `RoomAssumption`.

`OnlineListProofs`. Both properties speak of a state in which all is quiet; `LastInv`
says how it is reached: until the last connection has pushed its list nothing is on its
way, after that every list on its way is good, and whoever is due a list shows a good
one, or has one before him in a queue or in a write. Results: `TypeCorrect`,
`ListsComplete`, `NoGhosts`. Assumption: `OnlineListAssumption`.

`CallbackList`. One event calls every callback in the list, however long it is, and is
one step; what it leads to is an induction over the list. The induction theorems of the
library take an operator as a parameter and cannot be used, but a set of natural numbers
that is not empty has a least element (`Least`, from `WFMin`), and the first call after
which something fails contradicts what the call does. Its lemmas are about any operator and say nothing of the code by themselves; the
theorems of the other proof modules instantiate them. `FireKeeps`: what every call keeps,
the list keeps. `FireThrough`: a family of sets of states, one for each number of
calls; what leads from each to the next leads from the first to the last. `FireReaches`
and `FireLast`: what one call, or the last, brings about.

`PageProofs`. The connection: the three invariants of `ClientReconnect` are inductive
together (`LockIsFreed`, `HeartCheckRuns`), and `Browser` implements `ClientReconnect`'s
specification whatever part runs (`ConnectionImplemented`). The chat page:
`SentWhereTyped` needs `NewsInv` (whoever is listed has a box) and `ChosenInv` (the user
chosen is displayed and carries no red point); results `TypedIsSent`, `UnseenIsMarked`.
The form: `FormRight` speaks of a form that may be submitted, and what it says was set by
handlers before, so `DepartmentInv` says it of every choice of a department, submitted or
not (leaders, kind and the settlement of `d.js` unless an answer was lost; the settlement
of `old.js` in any case), and `DocInv` ties the approval document to the flag, the id and
the read-only field; result `SubmittedIsRight`.

For each plugin there is an inductive invariant, a lemma for what each method does to a
record that satisfies it, a lemma for each handler, and the property.

| Theorem | Invariant | Why it is needed |
|---|---|---|
| `MenusStayAgreed` | `Agreed` | holds between two calls of a handler that first closes the other menus |
| `ChosenPaneShows` | `TabInv`, `Calm` | what is due while panes change: every pane waits to give way to the same tab, or one has |
| `AffixComesToRest` | `AffixInv` | an element that was let go lies where some page's bottom offset is; from any such place two checks of the position reach one that a third leaves alone (`TwoChecks`, `SettledStays`) |
| `SpyIsFollowed` | `SpyInv` | what was read is one page's, and what is active is right for it, whichever page is there now; `process()` ends with the last section that is reached (`LastReached`, again by a least element) |
| `CarouselStaysAgreed` | `CarouselInv`, `Rolling` | one item is active; while another slides in, that one slide is all that is due |
| `PanelsStayAgreed` | `PanelsInv` | `Watched`: who is in transition has a callback to end it. `Orderly`: at most one panel of an accordion is open or opening, and, as objects are made at the first use, an open panel without one means that no panel has one. `show()` drops the object of the panel it closes when it made it; `Ready` is the state of a panel that is about to open once the others are dealt with |
| `DialogsStayWhole` | `DialogInv` | `DialogSafe`: the backdrops in the page and those that callbacks still owe fit into `Backdrops`, so that a new one is free. `DialogWhole`: the dialog is shown, hidden, or hiding, and each has its own list of callbacks (`ShownWhole`, `HiddenWhole`, `HidingWhole`) |
| `TipsAreRight` | `TipInv`, `PlaceInv` | `TipSound`, `Called`: timer, `hoverState` and classes agree with what asks for the tip. `Awaited`: a tip that fades out is taken by a callback or a timer. The list is that of one transition (`TipCalm`), or of a `show()` after `hide()`s (`Rescued`: `hoverState` keeps the tip) or a `hide()` after a `show()` (`Dismissed`: the last callback takes it). `PlaceInv`: how far the page is scrolled, so that a tip is placed beside its element and within the window |
| `TypesHold` | the invariants above, with those of connection, chat and form | the type of every part's state |

The invariants of the tip, the dialog, the panels and the tabs speak of calls that no
script and no hurry came between, where the properties do; their types, `DialogSafe` and
`PanelsSafe` are kept by every call.

`UtilitiesProofs`. The runs check `UserIdRead` on queries of up to eight tokens and
`DatesAgree` on 202 days; the theorems are about queries of any length and about every
day (`DayKnown`: the day is one). The invariants of the model say no more than that, so
the work is in the operators.

*Requests* (`UserIdReadAlways`). `PartsCut`: after n tokens the parts lie between the
places `pos` of the separators so far, none of which is inside a part; `CutStep` is the
step and `CallbackList`'s `FireThrough` the induction. `LastFull` and `SplitApart`: what `split`
drops at the end is empty. `LastWins` (by `PutStep`, `PutsLast`): a name has the value of
its last pair. `NoStray` then follows the value read back through the three splits to a
place in the query, and in a well-formed request (`WellFormedPage`) the parts are the
triples name, `=`, value (`NextPart`, `ListedParts`), so that the last `userId` is the one
read.

*The calendar.* `YearFound`, `YearUnique`: one of the three years that `YearAt` tries
contains the day, and no two do (400 years have 146097 days; `YearGap` bounds a year's
start from both sides). With the table of months (`MonthTable`, `MonthUnique`), lemmas
about `java.util`'s calendar as modelled: `FieldsValid`, a second has the fields of a date the calendar has, and `SecondsFields`, the
converse. A text keeps the fields its pattern shows and the epoch's for the rest
(`ShownMasked`, `ShownTwice`, `ShownAll`), which gives `Overloads` (text or date, the same
result) and `ReadBack`.

*Counting.* `compareDate` steps until it is past its second date; `StepsDays` and
`StepsMonths` show that one number of steps satisfies what `Steps` chooses. For months
`Index` numbers them through the years, `MonthsCounted` says what adding does to it, and
`MonthGap` that later months start later; a day pushed back stays in its month, so the
count is not disturbed (`DaysCounted`, `MonthsCountedBack`; `YearsCountedBack`, up to four
years, since days are divided by 365).

*The sort.* `Placed`: after n insertions there is a permutation of the n dates that
respects `Before` (earlier, or equal and first in the array); `PlaceOne` is one insertion,
and `SortIsStable` reads the place off by counting. Together: `DatesAgreeAlways`.
Assumption: `DaysAssumption`, of which the proof needs that days are integers; what a text
of another year would be is not in the model.

Only model-checked: the liveness properties (`SilentMappedEnds`, `CloseIsCleared`,
`OnlineGetsMessage`, `QueueDrains`, `NeverGivesUp`): liveness under fairness and `ENABLED`
are out of the prover's reach. Every invariant and action property of the passing runs
has a theorem. No module has a RECURSIVE operator.

## 6. Observations

Met while modelling, each visible in the lines named; no run is spent on them.

* `ChannelSessionServiceImpl.java:97`: the scan visits `channelMap` only. A channel
  displaced by a later one of its user and then silent is in no map and is never
  closed, whatever `application.yml:64` says of inactive channels.
* `RabbitConsumeServiceImpl.java:116`: an exception is logged and the message neither
  acknowledged nor rejected; with prefetch 1 that listener thread gets no other.
* `templates/.../chat.js`: the page's codes 13 and 40 are not the server's 3 and 4, and
  its `{"type":0}` has no code, so that the server closes it after the limit. Its
  `heartCheck` (line 390) opens a socket without looking at `lockReconnect`, which line
  20 says avoids duplicate connections: together with a pending `reconnect()` there
  are two.
* `WebSocketServiceImpl.java:241-245`: of two first joins of a room the second `put`
  replaces the first one's group; line 250 removes the channel of the user that the
  message names, whoever sent it: one client may take another out of a room, and one that
  names somebody else stays in it.
* `ChannelSessionServiceImpl.java:75`: a Redis removal that throws ends the teardown. If
  no other teardown of the connection follows or works, the user stays in the online set,
  and every later list shows him.
* `ChannelSessionServiceImpl.java:105` compares with a literal 90000; the configured
  `intervalMillis` (9000) is not used.
* `DateUtils`, `DateFormatUtils`: a text with its time, or a missing format, cannot be
  read, and `addXToDate` then adds to the current time; `getCurrentHour(String)` gives
  the day; `compareDate` gives -1 for every pair in the wrong order; `compareTime`'s
  hours wrap after ten days and its seconds are always 0; the week of a Sunday begins
  the day after; `getMonthFirstDate` and `getMonthLastDate` give no first or last day.
* `RequestParamUtil`: what follows the last question mark is the query; a value is cut
  at "="; a part of "=" only throws.
* `ChatServer.java:83`: the comment has the server start again every 60 s after it went
  down unexpectedly; only a bind that fails is tried again, and `channel`, which `run()`
  tests, is never assigned.
* `templates/.../chat.js`: the page waits for a list of users of type "30", a string; this
  server sends the number 3, so that the page shows nobody. `ChatPage` models it with a
  server that sends what it knows.
* `chooseUser(null, null)` hides `#box-null`: the user's box stays, and so does
  `currentChatUserId`. The next user chosen is a second box on the page, and what is typed
  in the first goes to the second's user (`SentWhereTyped` speaks of one box).
* Red points: a new list of users is built without them; the array of offline messages
  makes none, and is lost where boxes do not exist yet; a private message from a user
  without a box is lost.
* Sending clears the text before it is known that the socket is open.
* A close of the page's socket shows an `alert()` by way of `quitSend`, which holds up the
  five seconds of `reconnect()` until it is dismissed.
* Form: another choice of "has a document" clears the number and keeps the id; a
  department without leaders keeps those of the one before; `old.js` and `d.js` settle in
  advance by an id and by a code, and differ wherever these do; a leader field that is null
  ends the callback before `checkcompany`; the calls for `is_hs` and `is_cd` both
  set the reviewer, and the second overwrites what the first had set.
* Bootstrap, each within a transition: `show` during the hiding of a modal leaves a
  backdrop behind (`crossed`); a tooltip called for between two completions stays without
  pointer (`hurried`); a tab chosen while panes change leaves two of them; a panel first
  used while another moves is not closed by it; a carousel under the pointer starts again
  after a control is used; `clearMenus` tests the event of an earlier menu once it has
  assigned `e`; an affixed element flickers at the very edge; `process()` uses the offsets
  from before its own `refresh()`; a tip in a page wider than its window is placed by
  mixing coordinates of the document and of the window.
* No page of the repository carries Bootstrap's data attributes; the chat pages load
  `bootstrap.min.js` for its looks.

## 7. Not modelled

The server's start and the registration with Nacos: one task alone at start-up, with
two outcomes; a model would restate its branches. `personalMessageConsume` and
`groupMessageConsume`, which store nothing. Bootstrap's Alert and Button, single
handlers that change classes. The looks of the pages, times and the emoji conversion.
`a.js`, a form whose script is one line of dialogs that fill a field each.
`getMonthFirstDate` and `getMonthLastDate`. The controllers and sample code
(`im/elasticSearch`, `im/zk`, `im/test`), configuration classes, entities, and the
minified copies of the library. `PROJECT.json`
lists each with its reason.

------------------------------- MODULE ChatPage -------------------------------
(***************************************************************************)
(* What a chat page shows and sends (chat.js, the page of templates/ and the  *)
(* older one of webapp/): a box for the group room and one for each user of    *)
(* the list, of which chooseUser() displays some, red points for what arrives   *)
(* out of sight, and a message that goes to the user chosen last.  The page of  *)
(* templates/ waits for a list of type "30" where this repository's server      *)
(* sends the number 3: it is modelled with a server that sends what it knows.   *)
(***************************************************************************)
EXTENDS Naturals, FiniteSets

CONSTANTS Users,   \* names, the page's own among them
          Me,
          Nobody   \* currentChatUserId is not set

VARIABLE chat

GroupRoom == "group room"

\* Where a text is typed, and to whom a message goes.
Places == Users \cup {GroupRoom}

Pages == [
      page : {"templates", "webapp"},
      open : BOOLEAN,                           \* the socket
      listed : SUBSET Users,                    \* the items of the list
      boxes : SUBSET Users,                     \* users with a box, displayed or not
      shown : SUBSET Users, group : BOOLEAN,    \* the boxes displayed
      nick : Places, id : Users \cup {Nobody},  \* currentChatUserNick, currentChatUserId
      red : SUBSET Users, redGroup : BOOLEAN,   \* red points displayed
      sent : [from : Places, to : Places, alone : BOOLEAN] \cup {Nobody},
      news : SUBSET Users,                      \* history: arrived in a box not displayed since
      unmarked : SUBSET Users]                  \* history: and lost, or never had, its point

TypeOK == chat \in Pages

Init ==
    \E page \in {"templates", "webapp"} :
        chat = [page |-> page, open |-> FALSE, listed |-> {}, boxes |-> {},
                shown |-> {}, group |-> TRUE, nick |-> GroupRoom, id |-> Nobody,
                red |-> {}, redGroup |-> FALSE, sent |-> Nobody,
                news |-> {}, unmarked |-> {}]

-----------------------------------------------------------------------------
(* What arrives.                                                            *)

Opens  == ~chat.open /\ chat' = [chat EXCEPT !.open = TRUE]
Closes == chat.open /\ chat' = [chat EXCEPT !.open = FALSE]

\* systemMessage(), when somebody has come: the list is made anew, without red
\* points; boxes are only ever added, and of two with one name the first is the
\* one that is found.
SystemMessage(users) ==
    /\ chat.open /\ users # {}
    /\ chat' = [chat EXCEPT !.listed = users, !.boxes = @ \cup users,
                            !.red = {}, !.redGroup = FALSE, !.unmarked = chat.news]

\* Variant: no point for the user whose name is that of the room shown.
RedPointOther(c, from) ==
    IF c.nick # GroupRoom /\ c.id # from /\ from \in c.listed THEN [c EXCEPT !.red = @ \cup {from}] ELSE c

\* updateRedPoint() of a user: a point that is not in the list cannot be shown.
RedPoint(c, from) ==
    IF c.id # from /\ from \in c.listed THEN [c EXCEPT !.red = @ \cup {from}] ELSE c

\* A line is appended to a user's box, if he has one.
Line(c, box) == IF box \in c.boxes \ c.shown THEN [c EXCEPT !.news = @ \cup {box}] ELSE c

\* A message from somebody else, in the box of its sender.
PrivateMessage(from) ==
    /\ chat.open /\ from # Me
    /\ LET c == RedPoint(Line(chat, from), from)
       IN  chat' = [c EXCEPT !.unmarked = IF from \in c.listed THEN @ \ {from}
                                          ELSE @ \cup ({from} \cap (c.news \ c.red))]

\* One of the page's own that comes back, in the box of its receiver, unmarked.
OwnMessage(to) ==
    /\ chat.open
    /\ LET c == Line(chat, to)
       IN  chat' = [c EXCEPT !.unmarked = @ \cup ({to} \cap (c.news \ c.red))]

\* An array of messages that waited for the user: no points; the older page finds
\* no code in it.
OfflineMessages(froms) ==
    /\ chat.open /\ chat.page = "templates" /\ froms # {}
    /\ LET arrived == froms \cap (chat.boxes \ chat.shown)
       IN  chat' = [chat EXCEPT !.news = @ \cup arrived,
                                !.unmarked = @ \cup (arrived \ chat.red)]

\* The group's red point is that of updateRedPoint(null).
GroupMessage ==
    /\ chat.open
    /\ chat' = IF chat.nick # GroupRoom /\ chat.listed # {}
               THEN [chat EXCEPT !.redGroup = TRUE] ELSE chat

-----------------------------------------------------------------------------
(* What the user does.                                                      *)

Seen(c) == [c EXCEPT !.news = @ \ c.shown, !.unmarked = @ \ c.shown]

\* Variant: the user chosen before stays the one messages go to.
ChooseUserShowOnly(u) ==
    /\ u \in chat.listed
    /\ LET c == [chat EXCEPT !.red = @ \ {u}]
       IN  chat' = CASE c.nick = GroupRoom ->
                          Seen([c EXCEPT !.shown = @ \cup {u}, !.group = FALSE, !.nick = u, !.id = u])
                     [] c.nick # GroupRoom /\ c.id # u ->
                          Seen([c EXCEPT !.shown = (@ \cup {u}) \ {c.id}, !.nick = u])
                     [] OTHER -> c

\* chooseUser(u, u): from the group room the box is added to what is displayed,
\* from a user's box it replaces that.
ChooseUser(u) ==
    /\ u \in chat.listed
    /\ LET c == [chat EXCEPT !.red = @ \ {u}]
       IN  chat' = CASE c.nick = GroupRoom ->
                          Seen([c EXCEPT !.shown = @ \cup {u}, !.group = FALSE, !.nick = u, !.id = u])
                     [] c.nick # GroupRoom /\ c.id # u ->
                          Seen([c EXCEPT !.shown = (@ \cup {u}) \ {c.id}, !.nick = u, !.id = u])
                     [] OTHER -> c

\* chooseUser(null, null) hides the box named null: the user's stays displayed,
\* and his name stays the one messages go to.
ChooseGroup ==
    /\ chat.listed # {} /\ chat.nick # GroupRoom
    /\ chat' = [chat EXCEPT !.redGroup = FALSE, !.group = TRUE, !.nick = GroupRoom]

\* send(): with no connection there is an alert and nothing more.
Send(c, from, to) ==
    IF c.open THEN [c EXCEPT !.sent = [from |-> from, to |-> to,
                                       alone |-> Cardinality(c.shown) = 1]]
              ELSE c

\* The group's buttons, with a text, or an emoji.
sendMessage == chat.group /\ chat' = Send(chat, GroupRoom, GroupRoom)

\* The buttons of a user's box: what is typed there goes to currentChatUserId.
sendMessageToUser(box) == box \in chat.shown /\ chat' = Send(chat, box, chat.id)

Next ==
    \/ Opens \/ Closes \/ GroupMessage \/ ChooseGroup \/ sendMessage
    \/ \E users \in SUBSET Users : SystemMessage(users) \/ OfflineMessages(users)
    \/ \E u \in Users : \/ PrivateMessage(u) \/ OwnMessage(u) \/ ChooseUser(u)
                        \/ sendMessageToUser(u)

Spec == Init /\ [][Next]_chat

-----------------------------------------------------------------------------
(* Properties                                                               *)

\* A message goes to the one in whose box it was typed while a single user's box
\* is displayed, whatever was chosen and listed before: the user chosen last is
\* always among those displayed.  After a return to the group room there may be
\* two, and what is typed in the one goes to the other.
SentWhereTyped ==
    /\ chat.sent # Nobody /\ (chat.sent.alone \/ chat.sent.from = GroupRoom) =>
         chat.sent.from = chat.sent.to
    /\ chat.shown # {} => chat.id \in chat.shown
    /\ chat.group = (chat.nick = GroupRoom)

\* What has arrived in a box out of sight has its red point, unless the list was
\* made anew since, or it came without one; and a point without news is only
\* that of a box displayed meanwhile.
UnseenMarked ==
    /\ chat.news \ chat.unmarked \subseteq chat.red
    /\ chat.red \subseteq chat.news \cup chat.shown
=============================================================================

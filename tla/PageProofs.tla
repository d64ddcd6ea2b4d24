------------------------------ MODULE PageProofs ------------------------------
(***************************************************************************)
(* Machine-checked proofs about Browser: how its parts are put together, the  *)
(* connection, the chat page, the form, the plugins whose elements are part   *)
(* of the page, those laid over it, and the types of all parts.               *)
(***************************************************************************)
EXTENDS Browser, FiniteSetTheorems, SequenceTheorems, TLAPS

(***************************************************************************)
(* The parts.  A behaviour starts as one part's, and its every step is that   *)
(* part's or leaves its state alone.                                          *)
(***************************************************************************)
LEMMA PartInit ==
    ASSUME BrowserInit
    PROVE  /\ part \in Parts
           /\ part = "socket" => page = None
           /\ part = "chat" => Chat!Init
           /\ part = "form" => Form!Init
           /\ part = "modal" => Dialog!Init
           /\ part = "tip" => Tip!Init
           /\ part = "place" => Placing!Init
           /\ part = "carousel" => Slides!Init
           /\ part = "panels" => Accordion!Init
           /\ part = "menus" => Dropdowns!Init
           /\ part = "tabs" => TabList!Init
           /\ part = "spy" => Spy!Init
           /\ part = "affix" => Fixed!Init
BY DEF BrowserInit, Parts

LEMMA PartNext ==
    ASSUME [BrowserNext]_browser
    PROVE  /\ part' = part
           /\ part = "socket" => UNCHANGED page
           /\ part = "chat" => [Chat!Next]_page
           /\ part = "form" => [Form!Next]_page
           /\ part = "modal" => [Dialog!Next]_page
           /\ part = "tip" => [Tip!Next]_page
           /\ part = "place" => [Placing!Scroll]_page
           /\ part = "carousel" => [Slides!Next]_page
           /\ part = "panels" => [Accordion!Next]_page
           /\ part = "menus" => [Dropdowns!Next]_page
           /\ part = "tabs" => [TabList!Next]_page
           /\ part = "spy" => [Spy!Next]_page
           /\ part = "affix" => [Fixed!Next]_page
BY DEF BrowserNext, PageNext, browser

(***************************************************************************)
(* The connection.                                                          *)
(***************************************************************************)

\* A lock without a timeout, or an open page without a heart check, is not reached.
SocketInv == TypeOK /\ LockMeansRetry /\ HeartRuns

LEMMA SocketInit == Init => SocketInv
<1>1. Init => TypeOK
  <2>1. Init => /\ sock \in [Sockets -> {"none", "connecting", "open", "closing", "closed"}]
                /\ socket \in Sockets \cup {NoSocket}
                /\ intervals \in 0 .. 1
    BY DEF Init
  <2>2. Init => {lockReconnect, tt} \subseteq BOOLEAN
    BY DEF Init
  <2>3. QED
    BY <2>1, <2>2 DEF TypeOK
<1>2. Init => LockMeansRetry /\ HeartRuns
  BY DEF Init, LockMeansRetry, HeartRuns, IsOpen
<1>3. QED
  BY <1>1, <1>2 DEF SocketInv

\* The page's new socket is connecting, so that it is owed no heart check yet.
LEMMA WebsocketConnects ==
    ASSUME TypeOK, Websocket
    PROVE  /\ sock' \in [Sockets -> {"none", "connecting", "open", "closing", "closed"}]
           /\ socket' \in Sockets
           /\ sock'[socket'] = "connecting"
BY DEF TypeOK, Websocket

LEMMA SocketNext ==
    ASSUME SocketInv, [Next]_vars
    PROVE  SocketInv'
<1> USE SocketAssumption DEF SocketInv, TypeOK, LockMeansRetry, HeartRuns, IsOpen
<1>1. CASE Load
  BY <1>1, WebsocketConnects DEF Load
<1>2. CASE Retry
  BY <1>2, WebsocketConnects DEF Retry
<1>3. CASE HeartCheck
  BY <1>3, WebsocketConnects DEF HeartCheck
<1>4. ASSUME NEW s \in Sockets, Opens(s)
      PROVE  SocketInv'
  BY <1>4 DEF Opens
<1>5. ASSUME NEW s \in Sockets, Closing(s)
      PROVE  SocketInv'
  BY <1>5 DEF Closing
<1>6. ASSUME NEW s \in Sockets, Closes(s)
      PROVE  SocketInv'
  <2>1. /\ sock' = [sock EXCEPT ![s] = "closed"]
        /\ UNCHANGED <<socket, intervals>>
        /\ lockReconnect' \in BOOLEAN /\ tt' = lockReconnect'
    BY <1>6 DEF Closes, Reconnect
  <2>2. QED
    BY <2>1
<1>7. CASE UNCHANGED vars
  BY <1>7 DEF vars
<1>8. QED
  BY <1>1, <1>2, <1>3, <1>4, <1>5, <1>6, <1>7 DEF Next

LEMMA SocketKept == Spec => []SocketInv
<1>1. SocketInv /\ [Next]_vars => SocketInv'
  BY SocketNext
<1>2. QED
  BY SocketInit, <1>1, PTL DEF Spec

\* The lock of reconnect() is never held without a timeout to give it back.
THEOREM LockIsFreed == Spec => []LockMeansRetry
<1>1. SocketInv => LockMeansRetry
  BY DEF SocketInv
<1>2. QED
  BY SocketKept, <1>1, PTL

\* A connected page's heart check runs, however its sockets come and go.
THEOREM HeartCheckRuns == Spec => []HeartRuns
<1>1. SocketInv => HeartRuns
  BY DEF SocketInv
<1>2. QED
  BY SocketKept, <1>1, PTL

\* What the other parts do leaves the connection alone: the browser implements the
\* connection, with its fairness.
THEOREM ConnectionImplemented == BrowserSpec => FairSpec
<1>1. BrowserInit => Init
  BY DEF BrowserInit
<1>2. [BrowserNext]_browser => [Next]_vars
  BY DEF BrowserNext, PageNext, browser
<1>3. QED
  BY <1>1, <1>2, PTL DEF BrowserSpec, Spec, FairSpec

(***************************************************************************)
(* The chat page.                                                           *)
(***************************************************************************)
\* The user chosen last is displayed, and has no red point.
ChosenInv == /\ page.id # None => page.id \in page.shown
             /\ page.id \notin page.red

\* News are what is not displayed; whoever is listed has a box.
NewsInv == /\ page.news \cap page.shown = {}
           /\ page.listed \subseteq page.boxes

ChatInv == Chat!TypeOK /\ Chat!SentWhereTyped /\ Chat!UnseenMarked /\ ChosenInv /\ NewsInv

LEMMA ChatInit ==
    ASSUME Chat!Init
    PROVE  ChatInv
<1>1. PICK kind \in {"templates", "webapp"} :
          page = [page |-> kind, open |-> FALSE, listed |-> {}, boxes |-> {},
                  shown |-> {}, group |-> TRUE, nick |-> Chat!GroupRoom, id |-> None,
                  red |-> {}, redGroup |-> FALSE, sent |-> None,
                  news |-> {}, unmarked |-> {}]
  BY DEF Chat!Init
<1>2. Chat!TypeOK
  BY <1>1, ChatAssumption DEF Chat!TypeOK, Chat!Pages, Chat!Places
<1>3. Chat!SentWhereTyped /\ Chat!UnseenMarked /\ ChosenInv /\ NewsInv
  BY <1>1 DEF Chat!SentWhereTyped, Chat!UnseenMarked, ChosenInv, NewsInv
<1>4. QED
  BY <1>2, <1>3 DEF ChatInv

-----------------------------------------------------------------------------
(* Every step preserves the invariant, action by action.                    *)

LEMMA ChatSocketStep ==
    ASSUME ChatInv, Chat!Opens \/ Chat!Closes
    PROVE  ChatInv'
BY DEF Chat!Opens, Chat!Closes, ChatInv, Chat!TypeOK, Chat!Pages,
   Chat!SentWhereTyped, Chat!UnseenMarked, ChosenInv, NewsInv

LEMMA SystemMessageStep ==
    ASSUME ChatInv, NEW users \in SUBSET Names, Chat!SystemMessage(users)
    PROVE  ChatInv'
<1> USE ChatAssumption DEF ChatInv, Chat!TypeOK, Chat!Pages, Chat!SystemMessage
<1>1. Chat!TypeOK'
  OBVIOUS
<1>2. Chat!SentWhereTyped' /\ Chat!UnseenMarked'
  BY DEF Chat!SentWhereTyped, Chat!UnseenMarked
<1>3. ChosenInv' /\ NewsInv'
  BY DEF ChosenInv, NewsInv, Chat!SentWhereTyped
<1>4. QED
  BY <1>1, <1>2, <1>3

LEMMA PrivateMessageStep ==
    ASSUME ChatInv, NEW from \in Names, Chat!PrivateMessage(from)
    PROVE  ChatInv'
<1> USE ChatAssumption DEF ChatInv, Chat!TypeOK, Chat!Pages, Chat!PrivateMessage, Chat!RedPoint,
   Chat!Line
<1>1. Chat!TypeOK'
  OBVIOUS
<1>2. Chat!SentWhereTyped'
  BY DEF Chat!SentWhereTyped
<1>3. Chat!UnseenMarked'
  BY DEF Chat!UnseenMarked, ChosenInv, NewsInv
<1>4. ChosenInv' /\ NewsInv'
  BY DEF ChosenInv, NewsInv
<1>5. QED
  BY <1>1, <1>2, <1>3, <1>4

LEMMA OwnMessageStep ==
    ASSUME ChatInv, NEW to \in Names, Chat!OwnMessage(to)
    PROVE  ChatInv'
<1> USE ChatAssumption DEF ChatInv, Chat!TypeOK, Chat!Pages, Chat!OwnMessage, Chat!Line
<1>1. Chat!TypeOK'
  OBVIOUS
<1>2. Chat!SentWhereTyped'
  BY DEF Chat!SentWhereTyped
<1>3. Chat!UnseenMarked'
  BY DEF Chat!UnseenMarked
<1>4. ChosenInv' /\ NewsInv'
  BY DEF ChosenInv, NewsInv
<1>5. QED
  BY <1>1, <1>2, <1>3, <1>4

LEMMA OfflineMessagesStep ==
    ASSUME ChatInv, NEW froms \in SUBSET Names, Chat!OfflineMessages(froms)
    PROVE  ChatInv'
<1> USE ChatAssumption DEF ChatInv, Chat!TypeOK, Chat!Pages, Chat!OfflineMessages
<1>1. Chat!TypeOK'
  OBVIOUS
<1>2. Chat!SentWhereTyped'
  BY DEF Chat!SentWhereTyped
<1>3. Chat!UnseenMarked'
  BY DEF Chat!UnseenMarked
<1>4. ChosenInv' /\ NewsInv'
  BY DEF ChosenInv, NewsInv
<1>5. QED
  BY <1>1, <1>2, <1>3, <1>4

LEMMA GroupMessageStep ==
    ASSUME ChatInv, Chat!GroupMessage
    PROVE  ChatInv'
BY DEF Chat!GroupMessage, ChatInv, Chat!TypeOK, Chat!Pages, Chat!SentWhereTyped,
   Chat!UnseenMarked, ChosenInv, NewsInv

LEMMA SeenType ==
    ASSUME NEW c \in Chat!Pages
    PROVE  Chat!Seen(c) \in Chat!Pages
BY DEF Chat!Pages, Chat!Seen

LEMMA ChooseUserStep ==
    ASSUME ChatInv, NEW u \in Names, Chat!ChooseUser(u)
    PROVE  ChatInv'
<1>1. Chat!TypeOK'
  <2> DEFINE c == [page EXCEPT !.red = @ \ {u}]
             alone == [c EXCEPT !.shown = @ \cup {u}, !.group = FALSE, !.nick = u, !.id = u]
             other == [c EXCEPT !.shown = (@ \cup {u}) \ {c.id}, !.nick = u, !.id = u]
  <2>1. c \in Chat!Pages /\ alone \in Chat!Pages /\ other \in Chat!Pages
    BY ChatAssumption DEF ChatInv, Chat!TypeOK, Chat!Pages, Chat!Places
  <2>2. page' = Chat!Seen(alone) \/ page' = Chat!Seen(other) \/ page' = c
    BY DEF Chat!ChooseUser
  <2>3. Chat!Seen(alone) \in Chat!Pages /\ Chat!Seen(other) \in Chat!Pages
    <3> HIDE DEF alone, other
    <3>1. QED
      BY <2>1, SeenType
  <2>4. QED
    BY <2>1, <2>2, <2>3 DEF Chat!TypeOK
<1> USE ChatAssumption DEF ChatInv, Chat!TypeOK, Chat!Pages, Chat!ChooseUser, Chat!Seen, Chat!Places
<1>2. Chat!SentWhereTyped'
  BY DEF Chat!SentWhereTyped
<1>3. Chat!UnseenMarked'
  BY DEF Chat!UnseenMarked, ChosenInv, NewsInv
<1>4. ChosenInv' /\ NewsInv'
  BY DEF ChosenInv, NewsInv
<1>5. QED
  BY <1>1, <1>2, <1>3, <1>4

LEMMA ChooseGroupStep ==
    ASSUME ChatInv, Chat!ChooseGroup
    PROVE  ChatInv'
BY ChatAssumption DEF Chat!ChooseGroup, ChatInv, Chat!TypeOK, Chat!Pages, Chat!Places,
   Chat!SentWhereTyped, Chat!UnseenMarked, ChosenInv, NewsInv

LEMMA SameCardinality ==
    ASSUME NEW S
    PROVE  Chat!Cardinality(S) = Cardinality(S)
BY DEF Chat!Cardinality, Cardinality

LEMMA SendFields ==
    ASSUME NEW c \in Chat!Pages, c.open, NEW from, NEW to
    PROVE  LET d == Chat!Send(c, from, to) IN
           /\ d.sent.from = from /\ d.sent.to = to
           /\ d.sent.alone = (Cardinality(c.shown) = 1)
           /\ d.shown = c.shown /\ d.id = c.id /\ d.group = c.group /\ d.nick = c.nick
<1> DEFINE r == [from |-> from, to |-> to, alone |-> Cardinality(c.shown) = 1]
<1>1. Chat!Send(c, from, to) = [c EXCEPT !.sent = r]
  BY SameCardinality DEF Chat!Send
<1>2. r.from = from /\ r.to = to /\ r.alone = (Cardinality(c.shown) = 1)
  OBVIOUS
<1> HIDE DEF r
<1>3. QED
  BY <1>1, <1>2 DEF Chat!Pages

\* What is typed in the only box displayed goes to its user.
LEMMA SendStep ==
    ASSUME ChatInv,
           Chat!sendMessage \/ \E box \in Names : Chat!sendMessageToUser(box)
    PROVE  ChatInv'
<1> USE ChatAssumption DEF ChatInv, Chat!TypeOK, Chat!Pages, Chat!Send, Chat!Places
<1>1. CASE Chat!sendMessage
  BY ZenonT(60), <1>1 DEF Chat!sendMessage, Chat!SentWhereTyped, Chat!UnseenMarked, ChosenInv, NewsInv
<1>2. ASSUME NEW box \in Names, Chat!sendMessageToUser(box)
      PROVE  ChatInv'
  <2>1. box \in page.shown /\ page.id \in page.shown /\ page.id \in Names
    BY <1>2 DEF Chat!sendMessageToUser, Chat!SentWhereTyped
  <2>2. Cardinality(page.shown) = 1 => box = page.id
    <3>1. IsFiniteSet(page.shown)
      BY ChatAssumption, FS_Subset
    <3>2. QED
      BY <2>1, <3>1, FS_Singleton
  <2>3. page' = Chat!Send(page, box, page.id)
    BY <1>2 DEF Chat!sendMessageToUser
  <2>4. Chat!TypeOK'
    BY <2>1, <2>3
  <2>5. Chat!SentWhereTyped'
    <3>1. CASE ~page.open
      BY <2>3, <3>1 DEF Chat!SentWhereTyped
    <3>2. CASE page.open
      <4>1. /\ page'.sent.from = box /\ page'.sent.to = page.id
            /\ page'.sent.alone = (Cardinality(page.shown) = 1)
            /\ page'.shown = page.shown /\ page'.id = page.id
            /\ page'.group = page.group /\ page'.nick = page.nick
        BY <2>3, <3>2, SendFields
      <4>2. box # Chat!GroupRoom
        OBVIOUS
      <4>3. QED
        BY <2>1, <2>2, <4>1, <4>2 DEF Chat!SentWhereTyped
    <3>3. QED
      BY <3>1, <3>2
  <2>6. Chat!UnseenMarked' /\ ChosenInv' /\ NewsInv'
    BY <2>3 DEF Chat!UnseenMarked, ChosenInv, NewsInv
  <2>7. QED
    BY <2>4, <2>5, <2>6
<1>3. QED
  BY <1>1, <1>2

LEMMA ChatStutter ==
    ASSUME ChatInv, UNCHANGED page
    PROVE  ChatInv'
BY DEF ChatInv, Chat!TypeOK, Chat!Pages, Chat!SentWhereTyped, Chat!UnseenMarked, ChosenInv, NewsInv

LEMMA ChatNext ==
    ASSUME ChatInv, [Chat!Next]_page
    PROVE  ChatInv'
BY ChatSocketStep, SystemMessageStep, PrivateMessageStep, OwnMessageStep, OfflineMessagesStep,
   GroupMessageStep, ChooseUserStep, ChooseGroupStep, SendStep, ChatStutter DEF Chat!Next

LEMMA ChatKept == BrowserSpec => [](part = "chat" => ChatInv)
<1>1. BrowserInit => (part = "chat" => ChatInv)
  BY PartInit, ChatInit
<1>2. (part = "chat" => ChatInv) /\ [BrowserNext]_browser => (part = "chat" => ChatInv)'
  BY PartNext, ChatNext
<1>3. QED
  BY <1>1, <1>2, PTL DEF BrowserSpec

\* However users come, go and are chosen, a message typed in the one box displayed
\* goes to that box's user.
THEOREM TypedIsSent == BrowserSpec => []SentWhereTyped
<1>1. (part = "chat" => ChatInv) => SentWhereTyped
  BY DEF ChatInv, SentWhereTyped
<1>2. QED
  BY ChatKept, <1>1, PTL

\* What arrives in a box out of sight has its red point until the list is made anew.
THEOREM UnseenIsMarked == BrowserSpec => []UnseenMarked
<1>1. (part = "chat" => ChatInv) => UnseenMarked
  BY DEF ChatInv, UnseenMarked
<1>2. QED
  BY ChatKept, <1>1, PTL

(***************************************************************************)
(* The form.                                                                *)
(***************************************************************************)

\* What a choice has set, as far as it lost no answer, whether the form may be
\* submitted or not.
DepartmentInv ==
    page.department # None =>
        /\ ~page.cut =>
             /\ page.type = Form!Type(page.department)
             /\ page.script = "d" => (page.settlement = 1) = (OrgKind[page.department] = "travel")
             /\ "dep" \in Officers[page.department] =>
                  \A o \in {page.leader, page.manager, page.depleader, page.subleader} :
                      Form!OfDepartment(o)
        /\ page.script = "old" => (page.settlement = 1) = (page.department \in ByHeart)

\* A form that is edited has its field writable exactly while it has a document.
DocInv == /\ Form!Edited => /\ page.readonly = ~page.haveDoc
                            /\ page.docNo # None => page.haveDoc
          /\ page.docNo \in Docs => page.docId = page.docNo

FormInv == Form!TypeOK /\ DepartmentInv /\ DocInv /\ Form!UserRight

\* The set of the form's states: TypeOK is membership in it.
Forms == [
      script : Form!Scripts, mode : {"add", "update", "applicant", "view"},
      user : Form!Users, flags : [Form!Flags -> BOOLEAN \cup {None}],
      financial : {None, "huangshi", "changde"}, unanswered : SUBSET Form!Flags,
      department : Departments \cup {None},
      type : 0 .. 3 \cup {None}, settlement : 0 .. 1 \cup {None},
      leader : Form!Officer, manager : Form!Officer, depleader : Form!Officer,
      subleader : Form!Officer, cut : BOOLEAN, haveDoc : BOOLEAN, readonly : BOOLEAN,
      docNo : Docs \cup {None, "typed"}, docId : Docs \cup {None}]

LEMMA FormType == Form!TypeOK <=> page \in Forms
BY DEF Form!TypeOK, Forms

\* What the calls to the server leave alone.
Unasked(g, f) ==
    /\ g.mode = f.mode /\ g.user = f.user /\ g.unanswered = f.unanswered
    /\ g.department = f.department
    /\ g.haveDoc = f.haveDoc /\ g.readonly = f.readonly
    /\ g.docNo = f.docNo /\ g.docId = f.docId

\* The flags a call has set stay as the calls after it leave them.
LEMMA AskedSets ==
    ASSUME NEW f \in Forms, NEW call \in Form!Flags
    PROVE  LET g == Form!Asked(f, call) IN
           /\ g \in Forms
           /\ Unasked(g, f)
           /\ \A n \in Form!Flags :
                 g.flags[n] = IF call \notin f.unanswered /\ n \in Form!Inputs(call)
                              THEN call \in f.user ELSE f.flags[n]
           /\ g.financial = IF call \in f.unanswered THEN f.financial
                            ELSE Form!Financial(f, call)
<1>1. Form!Financial(f, call) \in {None, "huangshi", "changde"}
  BY DEF Forms, Form!Financial
<1>2. CASE call \in f.unanswered
  BY <1>2 DEF Form!Asked, Forms, Unasked
<1>3. CASE call \notin f.unanswered
  <2> DEFINE flags == [n \in Form!Flags |-> IF n \in Form!Inputs(call)
                                            THEN call \in f.user ELSE f.flags[n]]
             g == [f EXCEPT !.flags = flags, !.financial = Form!Financial(f, call)]
  <2>1. Form!Asked(f, call) = g
    BY <1>3 DEF Form!Asked, Forms
  <2>2. flags \in [Form!Flags -> BOOLEAN \cup {None}]
    BY DEF Forms
  <2>3. \A n \in Form!Flags : flags[n] = IF n \in Form!Inputs(call)
                                          THEN call \in f.user ELSE f.flags[n]
    OBVIOUS
  <2> HIDE DEF flags
  <2>4. /\ g \in Forms /\ Unasked(g, f)
        /\ g.flags = flags /\ g.financial = Form!Financial(f, call)
    BY ZenonT(60), <1>1, <2>2 DEF Forms, Unasked
  <2> HIDE DEF g
  <2>5. QED
    BY <1>3, <2>1, <2>3, <2>4 DEF g
<1>4. QED
  BY <1>2, <1>3

\* The same, told by the form before all the calls.
AnswerOf(g, b, f, call) ==
    /\ \A n \in Form!Flags :
          g.flags[n] = IF call \notin f.unanswered /\ n \in Form!Inputs(call)
                       THEN call \in f.user ELSE b.flags[n]
    /\ g.financial = IF call \in f.unanswered THEN b.financial ELSE Form!Financial(b, call)

LEMMA AskedOf ==
    ASSUME NEW f \in Forms, NEW b \in Forms, Unasked(b, f), NEW call \in Form!Flags
    PROVE  LET g == Form!Asked(b, call) IN
           g \in Forms /\ Unasked(g, f) /\ AnswerOf(g, b, f, call)
<1> DEFINE g == Form!Asked(b, call)
<1>1. b.unanswered = f.unanswered /\ b.user = f.user
  BY DEF Unasked
<1>2. AnswerOf(g, b, f, call) /\ g \in Forms /\ Unasked(g, b)
  BY <1>1, AskedSets DEF AnswerOf
<1> HIDE DEF g
<1>3. Unasked(g, f)
  BY <1>2 DEF Unasked
<1>4. QED
  BY <1>2, <1>3 DEF g

\* After the five calls the flags are the user's, and the reviewer that of his
\* company.
LEMMA CallsAnswered ==
    ASSUME NEW f \in Forms
    PROVE  LET g == Form!checkUserDeparts(f) IN
           /\ g \in Forms /\ Unasked(g, f)
           /\ \A n \in Form!Flags \ f.unanswered : g.flags[n] = (n \in f.user)
           /\ "is_cd" \notin f.unanswered =>
                \A n \in {"is_hs", "is_cd"} \cap f.user :
                   g.financial = (IF n = "is_hs" THEN "huangshi" ELSE "changde")
<1> DEFINE call(i) == Form!Calls[i]
<1>1. /\ Len(Form!Calls) = 5
      /\ call(1) = "is_cg" /\ call(2) = "is_yy" /\ call(3) = "is_hs" /\ call(4) = "is_cd"
      /\ call(5) = "is_cgb"
  BY DEF Form!Calls
<1>2. PICK h : /\ h[0] = f
               /\ \A i \in 1 .. 5 : h[i] = Form!Asked(h[i - 1], call(i))
               /\ h[5] = Form!checkUserDeparts(f)
  BY <1>1, Form!Asks!FireSteps DEF Form!checkUserDeparts
<1>3. /\ h[1] = Form!Asked(f, "is_cg") /\ h[2] = Form!Asked(h[1], "is_yy")
      /\ h[3] = Form!Asked(h[2], "is_hs") /\ h[4] = Form!Asked(h[3], "is_cd")
      /\ h[5] = Form!Asked(h[4], "is_cgb")
  BY <1>1, <1>2
<1> HIDE DEF call
<1>4. {"is_cg", "is_yy", "is_hs", "is_cd", "is_cgb"} = Form!Flags
  BY DEF Form!Flags
<1>5. Unasked(f, f)
  BY DEF Unasked
<1>6. h[1] \in Forms /\ Unasked(h[1], f) /\ AnswerOf(h[1], h[0], f, "is_cg")
  BY <1>2, <1>3, <1>4, <1>5, AskedOf
<1>7. h[2] \in Forms /\ Unasked(h[2], f) /\ AnswerOf(h[2], h[1], f, "is_yy")
  BY <1>3, <1>4, <1>6, AskedOf
<1>8. h[3] \in Forms /\ Unasked(h[3], f) /\ AnswerOf(h[3], h[2], f, "is_hs")
  BY <1>3, <1>4, <1>7, AskedOf
<1>9. h[4] \in Forms /\ Unasked(h[4], f) /\ AnswerOf(h[4], h[3], f, "is_cd")
  BY <1>3, <1>4, <1>8, AskedOf
<1>10. h[5] \in Forms /\ Unasked(h[5], f) /\ AnswerOf(h[5], h[4], f, "is_cgb")
  BY <1>3, <1>4, <1>9, AskedOf
<1>11. \A n \in Form!Flags \ f.unanswered : h[5].flags[n] = (n \in f.user)
  BY <1>4, <1>6, <1>7, <1>8, <1>9, <1>10 DEF AnswerOf, Form!Inputs
<1>12. "is_cd" \notin f.unanswered =>
          h[5].financial = IF "is_cd" \in f.user THEN "changde" ELSE "huangshi"
  BY <1>8, <1>9, <1>10 DEF AnswerOf, Form!Financial, Unasked
<1>13. ~({"is_hs", "is_cd"} \subseteq f.user)
  BY DEF Forms, Form!Users
<1>14. QED
  BY <1>2, <1>10, <1>11, <1>12, <1>13

LEMMA FormInit ==
    ASSUME Form!Init
    PROVE  FormInv
<1>1. PICK script \in Form!Scripts, mode \in {"add", "update", "applicant", "view"},
           user \in Form!Users, haveDoc \in BOOLEAN, doc \in Docs,
           unanswered \in {{}} \cup {{call} : call \in Form!Flags} :
        /\ mode = "add" => ~haveDoc
        /\ mode \in {"applicant", "view"} => unanswered = {}
        /\ page = Form!Loaded([
             script |-> script, mode |-> mode, user |-> user,
             flags |-> [n \in Form!Flags |-> None], financial |-> None, unanswered |-> unanswered,
             department |-> None, type |-> None, settlement |-> None, leader |-> None,
             manager |-> None, depleader |-> None, subleader |-> None, cut |-> FALSE,
             haveDoc |-> haveDoc, readonly |-> TRUE,
             docNo |-> IF haveDoc THEN doc ELSE None, docId |-> IF haveDoc THEN doc ELSE None])
  BY DEF Form!Init
<1> DEFINE f == [
             script |-> script, mode |-> mode, user |-> user,
             flags |-> [n \in Form!Flags |-> None], financial |-> None, unanswered |-> unanswered,
             department |-> None, type |-> None, settlement |-> None, leader |-> None,
             manager |-> None, depleader |-> None, subleader |-> None, cut |-> FALSE,
             haveDoc |-> haveDoc, readonly |-> TRUE,
             docNo |-> IF haveDoc THEN doc ELSE None, docId |-> IF haveDoc THEN doc ELSE None]
           g == [f EXCEPT !.readonly = ~f.haveDoc]
<1>2. f \in Forms
  BY DEF Forms, Form!Officer
<1>3. /\ f.mode = mode /\ f.haveDoc = haveDoc /\ f.department = None
      /\ f.docNo = (IF haveDoc THEN doc ELSE None) /\ f.docId = (IF haveDoc THEN doc ELSE None)
  OBVIOUS
<1>4. /\ g \in Forms /\ g.mode = mode /\ g.haveDoc = haveDoc /\ g.readonly = ~haveDoc
      /\ g.docNo = f.docNo /\ g.docId = f.docId /\ g.department = None
  <2> HIDE DEF f
  <2>1. g \in Forms
    BY ZenonT(60), <1>2 DEF Forms
  <2>2. g.mode = f.mode /\ g.haveDoc = f.haveDoc /\ g.department = f.department
    BY <1>2 DEF Forms
  <2>3. g.docNo = f.docNo /\ g.docId = f.docId
    BY <1>2 DEF Forms
  <2>4. g.readonly = ~f.haveDoc
    BY <1>2 DEF Forms
  <2>5. QED
    BY <1>3, <2>1, <2>2, <2>3, <2>4
<1>5. page = IF mode \in {"add", "update"} THEN Form!checkUserDeparts(g) ELSE f
  BY <1>1, <1>3 DEF Form!Loaded
<1> HIDE DEF f, g
<1>6. CASE mode \notin {"add", "update"}
  BY <1>2, <1>3, <1>5, <1>6, FormAssumption, FormType
  DEF FormInv, DepartmentInv, DocInv, Form!UserRight, Form!Edited
<1>7. CASE mode \in {"add", "update"}
  <2>1. page = Form!checkUserDeparts(g)
    BY <1>5, <1>7
  <2>2. /\ page \in Forms /\ Unasked(page, g)
        /\ Form!UserRight
    BY <1>4, <2>1, CallsAnswered DEF Form!UserRight, Unasked
  <2>3. QED
    BY <1>3, <1>4, <2>2, FormAssumption, FormType DEF FormInv, DepartmentInv, DocInv, Unasked
<1>8. QED
  BY <1>6, <1>7

\* What the choice of a department leaves alone.
Kept(g, f) ==
    /\ g.script = f.script /\ g.mode = f.mode /\ g.user = f.user
    /\ g.flags = f.flags /\ g.financial = f.financial /\ g.unanswered = f.unanswered
    /\ g.haveDoc = f.haveDoc /\ g.readonly = f.readonly
    /\ g.docNo = f.docNo /\ g.docId = f.docId

\* Who is found is the department's, and somebody is when it has a role asked for.
LEMMA FirstOfOfficer ==
    ASSUME NEW d \in Departments, NEW roles \in Seq(Form!Roles)
    PROVE  LET o == Form!FirstOf(d, roles) IN
           /\ o \in Form!Officer
           /\ o # None => o.department = d
           /\ (\E i \in DOMAIN roles : roles[i] \in Officers[d]) => o # None
<1> DEFINE held == {i \in DOMAIN roles : roles[i] \in Officers[d]}
<1>1. CASE held = {}
  BY <1>1 DEF Form!FirstOf, Form!Officer
<1>2. CASE held # {}
  <2>1. held \subseteq Nat
    OBVIOUS
  <2>2. \E i \in held : \A k \in held : i <= k
    BY <1>2, <2>1, Form!Asks!Least
  <2> DEFINE i == CHOOSE i \in held : \A k \in held : i <= k
             o == [department |-> d, role |-> roles[i]]
  <2>3. i \in held
    BY <2>2
  <2>4. o \in [department : Departments, role : Form!Roles] /\ o.department = d
    BY <2>3
  <2>5. Form!FirstOf(d, roles) = o
    BY <1>2 DEF Form!FirstOf
  <2>6. QED
    BY <2>4, <2>5, FormAssumption DEF Form!Officer
<1>3. QED
  BY <1>1, <1>2

LEMMA ChosenSets ==
    ASSUME NEW f \in Forms, NEW d \in Departments \cup {None}
    PROVE  LET g == Form!Chosen(f, d) IN
           /\ g \in Forms /\ Kept(g, f)
           /\ g.department = d /\ g.cut = FALSE
           /\ g.script = "old" => (g.settlement = 1) = (d \in ByHeart)
<1> DEFINE s == IF d \in ByHeart THEN 1 ELSE 0
<1>1. s \in 0 .. 1 /\ (s = 1) = (d \in ByHeart)
  OBVIOUS
<1> HIDE DEF s
<1> DEFINE g == [f EXCEPT !.department = d, !.cut = FALSE, !.settlement = s]
           h == [f EXCEPT !.department = d, !.cut = FALSE]
<1>2. g \in Forms /\ g.department = d /\ g.cut = FALSE /\ g.settlement = s
  BY <1>1 DEF Forms
<1>3. Kept(g, f)
  BY DEF Forms, Kept
<1>4. h \in Forms /\ h.department = d /\ h.cut = FALSE
  BY DEF Forms
<1>5. Kept(h, f)
  BY DEF Forms, Kept
<1>6. Form!Chosen(f, d) = IF f.script = "old" THEN g ELSE h
  BY DEF Form!Chosen, Form!ChosenBefore, s
<1> HIDE DEF g, h
<1>7. QED
  BY <1>1, <1>2, <1>3, <1>4, <1>5, <1>6 DEF Kept

OfficersOf(f) ==
    "dep" \in Officers[f.department] =>
        \A o \in {f.leader, f.manager, f.depleader, f.subleader} :
            o # None /\ o.department = f.department

LEMMA LeadersSet ==
    ASSUME NEW f \in Forms, f.department \in Departments
    PROVE  LET g == Form!SetLeaders(f) IN
           /\ g \in Forms /\ Kept(g, f)
           /\ g.department = f.department /\ g.cut = f.cut /\ g.settlement = f.settlement
           /\ OfficersOf(g)
<1> DEFINE d == f.department
           o1 == Form!FirstOf(d, <<"leader", "manager", "dep">>)
           o2 == Form!Or(Form!FirstOf(d, <<"manager", "sub", "dep">>), f.manager)
           o3 == Form!Or(Form!FirstOf(d, <<"dep">>), f.depleader)
           o4 == Form!Or(Form!FirstOf(d, <<"sub", "dep">>), f.subleader)
           g == [f EXCEPT !.leader = o1, !.manager = o2, !.depleader = o3, !.subleader = o4]
<1>1. /\ <<"leader", "manager", "dep">> \in Seq(Form!Roles)
      /\ <<"manager", "sub", "dep">> \in Seq(Form!Roles)
      /\ <<"dep">> \in Seq(Form!Roles) /\ <<"sub", "dep">> \in Seq(Form!Roles)
  BY DEF Form!Roles
<1>2. /\ f.manager \in Form!Officer /\ f.depleader \in Form!Officer
      /\ f.subleader \in Form!Officer
  BY DEF Forms
<1>3. /\ o1 \in Form!Officer /\ o2 \in Form!Officer /\ o3 \in Form!Officer
      /\ o4 \in Form!Officer
  BY <1>1, <1>2, FirstOfOfficer DEF Form!Or
<1>4. ASSUME "dep" \in Officers[d]
      PROVE  \A o \in {o1, o2, o3, o4} : o # None /\ o.department = d
  <2>1. /\ <<"leader", "manager", "dep">>[3] = "dep" /\ <<"manager", "sub", "dep">>[3] = "dep"
        /\ <<"dep">>[1] = "dep" /\ <<"sub", "dep">>[2] = "dep"
        /\ 3 \in DOMAIN <<"leader", "manager", "dep">> /\ 3 \in DOMAIN <<"manager", "sub", "dep">>
        /\ 1 \in DOMAIN <<"dep">> /\ 2 \in DOMAIN <<"sub", "dep">>
    OBVIOUS
  <2>2. o1 # None /\ o1.department = d
    BY <1>1, <1>4, <2>1, FirstOfOfficer
  <2>3. o2 # None /\ o2.department = d
    BY <1>1, <1>4, <2>1, FirstOfOfficer DEF Form!Or
  <2>4. o3 # None /\ o3.department = d
    BY <1>1, <1>4, <2>1, FirstOfOfficer DEF Form!Or
  <2>5. o4 # None /\ o4.department = d
    BY <1>1, <1>4, <2>1, FirstOfOfficer DEF Form!Or
  <2>6. QED
    BY <2>2, <2>3, <2>4, <2>5
<1>5. Form!SetLeaders(f) = g
  BY DEF Form!SetLeaders
<1> HIDE DEF o1, o2, o3, o4
<1>6. /\ g \in Forms /\ g.leader = o1 /\ g.manager = o2 /\ g.depleader = o3 /\ g.subleader = o4
  BY <1>3 DEF Forms
<1>7. Kept(g, f) /\ g.department = f.department /\ g.cut = f.cut /\ g.settlement = f.settlement
  BY DEF Forms, Kept
<1> HIDE DEF g
<1>8. QED
  BY <1>4, <1>5, <1>6, <1>7 DEF OfficersOf

LEMMA CompanySet ==
    ASSUME NEW f \in Forms, f.department \in Departments
    PROVE  LET g == Form!checkcompany(f) IN
           /\ g \in Forms /\ Kept(g, f)
           /\ g.department = f.department /\ g.cut = f.cut
           /\ g.type = Form!Type(f.department)
           /\ f.script = "d" => (g.settlement = 1) = (OrgKind[f.department] = "travel")
           /\ f.script = "old" => g.settlement = f.settlement
           /\ OfficersOf(f) => OfficersOf(g)
<1> DEFINE s == IF f.script = "d" THEN Form!PreSettlement(f.department) ELSE f.settlement
           g == [f EXCEPT !.type = Form!Type(f.department), !.settlement = s]
<1>1. Form!Type(f.department) \in 0 .. 3
  BY DEF Form!Type
<1>2. s \in 0 .. 1 \cup {None}
  BY DEF Forms, Form!PreSettlement
<1>3. /\ f.script = "d" => (s = 1) = (OrgKind[f.department] = "travel")
      /\ f.script = "old" => s = f.settlement
  BY DEF Form!PreSettlement
<1>4. Form!checkcompany(f) = g
  BY DEF Form!checkcompany, Forms
<1> HIDE DEF s
<1>5. g \in Forms /\ g.type = Form!Type(f.department) /\ g.settlement = s
  BY <1>1, <1>2 DEF Forms
<1>6. Kept(g, f) /\ g.department = f.department /\ g.cut = f.cut
  BY DEF Forms, Kept
<1>7. /\ g.leader = f.leader /\ g.manager = f.manager /\ g.depleader = f.depleader
      /\ g.subleader = f.subleader
  BY DEF Forms
<1> HIDE DEF g
<1>8. QED
  BY <1>3, <1>4, <1>5, <1>6, <1>7 DEF OfficersOf

LEMMA MissedSets ==
    ASSUME NEW f \in Forms
    PROVE  LET g == Form!Missed(f) IN
           /\ g \in Forms /\ Kept(g, f)
           /\ g.department = f.department /\ g.cut = TRUE /\ g.settlement = f.settlement
BY DEF Forms, Kept, Form!Missed

\* A choice leaves what it knows of the department, or a lost answer.
LEMMA DepartmentChosen ==
    ASSUME page \in Forms, NEW d \in Departments \cup {None}, Form!depcallback(d)
    PROVE  /\ page' \in Forms /\ Kept(page', page)
           /\ page'.department # None =>
                /\ ~page'.cut =>
                     /\ page'.type = Form!Type(page'.department)
                     /\ page'.script = "d" =>
                          (page'.settlement = 1) = (OrgKind[page'.department] = "travel")
                     /\ OfficersOf(page')
                /\ page'.script = "old" => (page'.settlement = 1) = (page'.department \in ByHeart)
<1> DEFINE f == Form!Chosen(page, d)
<1>1. /\ f \in Forms /\ Kept(f, page) /\ f.department = d /\ f.cut = FALSE
      /\ f.script = "old" => (f.settlement = 1) = (d \in ByHeart)
  BY ZenonT(60), ChosenSets DEF Kept
<1>2. PICK leaders \in {"known", "unknown", "null"}, answered \in BOOLEAN :
          page' = CASE d = None -> f
                    [] d # None /\ leaders = "null" -> Form!Missed(f)
                    [] OTHER -> LET g == IF leaders = "known" THEN Form!SetLeaders(f)
                                         ELSE Form!Missed(f)
                                IN  IF answered THEN Form!checkcompany(g) ELSE Form!Missed(g)
  BY DEF Form!depcallback
<1> HIDE DEF f
<1>3. CASE d = None
  BY <1>1, <1>2, <1>3
<1>4. CASE d # None /\ leaders = "null"
  BY <1>1, <1>2, <1>4, MissedSets DEF Kept
<1>5. CASE d # None /\ leaders # "null"
  <2> DEFINE g == IF leaders = "known" THEN Form!SetLeaders(f) ELSE Form!Missed(f)
  <2>1. d \in Departments
    BY <1>5
  <2>2. page' = IF answered THEN Form!checkcompany(g) ELSE Form!Missed(g)
    BY <1>2, <1>5
  <2>3. /\ g \in Forms /\ Kept(g, page) /\ g.department = d /\ g.settlement = f.settlement
        /\ ~g.cut => OfficersOf(g)
    <3>1. CASE leaders = "known"
      <4>1. g = Form!SetLeaders(f)
        BY <3>1
      <4> HIDE DEF g
      <4>2. QED
        BY <1>1, <2>1, <4>1, LeadersSet DEF Kept
    <3>2. CASE leaders # "known"
      <4>1. g = Form!Missed(f)
        BY <3>2
      <4> HIDE DEF g
      <4>2. QED
        BY <1>1, <2>1, <4>1, MissedSets DEF Kept
    <3>3. QED
      BY <3>1, <3>2
  <2>4. g.script = "old" => (g.settlement = 1) = (d \in ByHeart)
    BY <1>1, <2>3 DEF Kept
  <2> HIDE DEF g
  <2>5. CASE answered
    <3>1. page' = Form!checkcompany(g)
      BY <2>2, <2>5
    <3>2. /\ page' \in Forms /\ Kept(page', g)
          /\ page'.department = d /\ page'.cut = g.cut /\ page'.type = Form!Type(d)
          /\ g.script = "d" => (page'.settlement = 1) = (OrgKind[d] = "travel")
          /\ g.script = "old" => page'.settlement = g.settlement
          /\ OfficersOf(g) => OfficersOf(page')
      BY <2>1, <2>3, <3>1, CompanySet
    <3>3. Kept(page', page) /\ page'.script = g.script
      BY <2>3, <3>2 DEF Kept
    <3>4. QED
      BY <2>3, <2>4, <3>2, <3>3
  <2>6. CASE ~answered
    <3>1. page' = Form!Missed(g)
      BY <2>2, <2>6
    <3>2. /\ page' \in Forms /\ Kept(page', g) /\ page'.department = d
          /\ page'.cut = TRUE /\ page'.settlement = g.settlement
      BY <2>3, <3>1, MissedSets
    <3>3. Kept(page', page) /\ page'.script = g.script
      BY <2>3, <3>2 DEF Kept
    <3>4. QED
      BY <2>4, <3>2, <3>3
  <2>7. QED
    BY <2>5, <2>6
<1>6. QED
  BY <1>3, <1>4, <1>5

LEMMA DocumentSets ==
    ASSUME NEW f \in Forms, NEW have \in BOOLEAN, NEW no \in Docs \cup {None, "typed"},
           NEW id \in Docs \cup {None}, NEW readonly \in BOOLEAN
    PROVE  [f EXCEPT !.haveDoc = have, !.docNo = no, !.docId = id, !.readonly = readonly] \in Forms
BY ZenonT(60) DEF Forms

LEMMA FormNext ==
    ASSUME FormInv, [Form!Next]_page
    PROVE  FormInv'
<1>1. page \in Forms /\ DepartmentInv /\ DocInv /\ Form!UserRight
  BY FormType DEF FormInv
<1>2. ASSUME NEW d \in Departments \cup {None}, Form!depcallback(d)
      PROVE  FormInv'
  <2>1. page' \in Forms /\ Kept(page', page)
    BY <1>1, <1>2, DepartmentChosen
  <2>2. DepartmentInv'
    BY <1>1, <1>2, DepartmentChosen DEF DepartmentInv, OfficersOf, Form!OfDepartment
  <2>3. DocInv' /\ Form!UserRight'
    BY <1>1, <2>1 DEF Kept, DocInv, Form!UserRight, Form!Edited
  <2>4. Form!TypeOK'
    BY <2>1 DEF Forms, Form!TypeOK
  <2>5. QED
    BY <2>2, <2>3, <2>4 DEF FormInv
<1>3. ASSUME NEW have \in BOOLEAN, NEW no \in Docs \cup {None, "typed"},
             NEW id \in Docs \cup {None}, NEW readonly \in BOOLEAN,
             page' = [page EXCEPT !.haveDoc = have, !.docNo = no, !.docId = id,
                                  !.readonly = readonly],
             Form!Edited,
             readonly = ~have, no # None => have, no \in Docs => id = no
      PROVE  FormInv'
  <2>1. page' \in Forms
    BY <1>1, <1>3, DocumentSets
  <2>2. /\ page'.mode = page.mode /\ page'.haveDoc = have /\ page'.docNo = no
        /\ page'.docId = id /\ page'.readonly = readonly
    BY <1>1, <1>3 DEF Forms
  <2>3. /\ page'.department = page.department /\ page'.cut = page.cut
        /\ page'.script = page.script
        /\ page'.type = page.type /\ page'.settlement = page.settlement
        /\ page'.leader = page.leader /\ page'.manager = page.manager
        /\ page'.depleader = page.depleader /\ page'.subleader = page.subleader
    BY <1>1, <1>3 DEF Forms
  <2>4. /\ page'.user = page.user /\ page'.flags = page.flags
        /\ page'.financial = page.financial /\ page'.unanswered = page.unanswered
    BY <1>1, <1>3 DEF Forms
  <2>5. DepartmentInv'
    BY <1>1, <2>3 DEF DepartmentInv, Form!OfDepartment
  <2>6. DocInv'
    BY <1>3, <2>2 DEF DocInv
  <2>7. Form!UserRight'
    BY <1>1, <2>2, <2>4 DEF Form!UserRight, Form!Edited
  <2>8. Form!TypeOK'
    BY <2>1 DEF Forms, Form!TypeOK
  <2>9. QED
    BY <2>5, <2>6, <2>7, <2>8 DEF FormInv
<1>4. CASE Form!ChangeHaveDoc
  <2>1. page' = [page EXCEPT !.haveDoc = ~page.haveDoc, !.docNo = None, !.docId = page.docId,
                             !.readonly = page.haveDoc]
    BY <1>1, <1>4 DEF Form!ChangeHaveDoc, Forms
  <2>2. page.docId \in Docs \cup {None} /\ page.haveDoc \in BOOLEAN
    BY <1>1 DEF Forms
  <2>3. None \notin Docs /\ Form!Edited
    BY <1>4, FormAssumption DEF Form!ChangeHaveDoc
  <2>4. QED
    BY <1>3, <2>1, <2>2, <2>3
<1>5. CASE Form!PickDoc
  <2>1. PICK doc \in Docs : page' = [page EXCEPT !.docNo = doc, !.docId = doc]
    BY <1>5 DEF Form!PickDoc
  <2>2. page' = [page EXCEPT !.haveDoc = page.haveDoc, !.docNo = doc, !.docId = doc,
                             !.readonly = page.readonly]
    BY <1>1, <2>1 DEF Forms
  <2>3. page.haveDoc \in BOOLEAN /\ page.readonly \in BOOLEAN
    BY <1>1 DEF Forms
  <2>4. Form!Edited /\ page.readonly = ~page.haveDoc /\ page.haveDoc
    BY <1>1, <1>5, <2>3 DEF Form!PickDoc, DocInv
  <2>5. QED
    BY <1>3, <2>2, <2>3, <2>4
<1>6. CASE Form!TypeDocNo
  <2>1. page' = [page EXCEPT !.haveDoc = page.haveDoc, !.docNo = "typed", !.docId = page.docId,
                             !.readonly = page.readonly]
    BY <1>1, <1>6 DEF Form!TypeDocNo, Forms
  <2>2. page.haveDoc \in BOOLEAN /\ page.readonly \in BOOLEAN /\ page.docId \in Docs \cup {None}
    BY <1>1 DEF Forms
  <2>3. Form!Edited /\ page.readonly = ~page.haveDoc /\ page.haveDoc
    BY <1>1, <1>6, <2>2 DEF Form!TypeDocNo, DocInv
  <2>4. "typed" \notin Docs
    BY FormAssumption
  <2>5. QED
    BY <1>3, <2>1, <2>2, <2>3, <2>4
<1>7. CASE UNCHANGED page
  BY <1>7 DEF FormInv, Form!TypeOK, DepartmentInv, DocInv, Form!UserRight, Form!OfDepartment,
              Form!Edited
<1>8. QED
  BY <1>2, <1>4, <1>5, <1>6, <1>7 DEF Form!Next

LEMMA FormKept == BrowserSpec => [](part = "form" => FormInv)
<1>1. BrowserInit => (part = "form" => FormInv)
  BY PartInit, FormInit
<1>2. (part = "form" => FormInv) /\ [BrowserNext]_browser => (part = "form" => FormInv)'
  BY PartNext, FormNext
<1>3. QED
  BY <1>1, <1>2, PTL DEF BrowserSpec

\* Whatever departments and documents were chosen before, and whichever calls have
\* failed, a form that may be submitted is that of the department chosen last and
\* of its document, unless an answer was lost since.
THEOREM SubmittedIsRight == BrowserSpec => []FormRight
<1>1. (part = "form" => FormInv) => FormRight
  <2>1. FormInv => Form!DepartmentRight
    BY DEF FormInv, DepartmentInv, Form!DepartmentRight
  <2>2. FormInv => Form!DocRight
    BY DEF FormInv, DocInv, Form!DocRight
  <2>3. FormInv => Form!UserRight
    BY DEF FormInv
  <2>4. QED
    BY <2>1, <2>2, <2>3 DEF FormRight, Form!FormRight
<1>2. QED
  BY FormKept, <1>1, PTL

(***************************************************************************)
(* Menus.                                                                   *)
(***************************************************************************)
MenuStates == [
      touch : BOOLEAN, disabled : SUBSET Menus, holds : SUBSET Menus, refuses : SUBSET Menus,
      open : SUBSET Menus, expanded : SUBSET Menus,
      focus : Dropdowns!Focus \cup {Dropdowns!Nothing}, backdrop : BOOLEAN]

\* What MenusAgree says, of any state between two calls.
Agreed(d) ==
    /\ d \in MenuStates
    /\ \A a, b \in d.open \ d.holds : a = b
    /\ d.expanded = d.open
    /\ d.focus # Dropdowns!Nothing /\ d.focus[2] # Dropdowns!Toggle => d.focus[1] \in d.open
    /\ d.backdrop => d.open # {}

\* Closing menus leaves at most the one that was clicked into.
LEMMA ClearAgreed ==
    ASSUME NEW d, Agreed(d), NEW m, NEW inputOf \in SUBSET {m}
    PROVE  LET n == Dropdowns!clearMenus(d, inputOf) IN
           /\ Agreed(n)
           /\ n.holds = d.holds /\ n.refuses = d.refuses /\ n.disabled = d.disabled
           /\ n.touch = d.touch
           /\ inputOf = {} => n.open \subseteq d.holds
<1> DEFINE spared == {x \in inputOf : \A q \in d.open : x <= q}
           closed == d.open \ (d.holds \cup spared)
           e == [d EXCEPT !.open = @ \ closed, !.expanded = @ \ closed, !.backdrop = FALSE]
           n == [e EXCEPT !.focus = Dropdowns!Nothing]
<1>1. spared \subseteq inputOf
  OBVIOUS
<1> HIDE DEF spared
<1>2. d \in MenuStates
  BY DEF Agreed
<1>3. e \in MenuStates
  BY <1>2 DEF MenuStates
<1>4. /\ e.open = d.open \ closed /\ e.expanded = d.expanded \ closed /\ e.backdrop = FALSE
      /\ e.holds = d.holds /\ e.refuses = d.refuses /\ e.disabled = d.disabled
      /\ e.touch = d.touch /\ e.focus = d.focus
  BY <1>2 DEF MenuStates
<1>5. e.open \ e.holds \subseteq spared /\ e.expanded = e.open
  BY <1>4 DEF Agreed
<1>6. inputOf = {} => e.open \subseteq d.holds
  BY <1>1, <1>4, <1>5
<1> HIDE DEF e, closed
<1>7. n \in MenuStates
  BY <1>3 DEF MenuStates
<1>8. /\ n.open = e.open /\ n.expanded = e.expanded /\ n.backdrop = FALSE
      /\ n.holds = d.holds /\ n.refuses = d.refuses /\ n.disabled = d.disabled
      /\ n.touch = d.touch /\ n.focus = Dropdowns!Nothing
  BY <1>3, <1>4 DEF MenuStates
<1> HIDE DEF n
<1>9. Dropdowns!clearMenus(d, inputOf) =
        IF e.focus # Dropdowns!Nothing /\ e.focus[2] # Dropdowns!Toggle /\ e.focus[1] \notin e.open
        THEN n ELSE e
  BY DEF Dropdowns!clearMenus, Dropdowns!Blurred, e, n, closed, spared
<1>10. QED
  BY <1>1, <1>3, <1>4, <1>5, <1>6, <1>7, <1>8, <1>9 DEF Agreed

\* A focus on a toggle, or on an item of an open menu, is none to object to.
LEMMA FocusAgreed ==
    ASSUME NEW d, Agreed(d), NEW m \in Menus, NEW i \in Dropdowns!Toggle .. LastItem,
           i = Dropdowns!Toggle \/ m \in d.open
    PROVE  LET n == [d EXCEPT !.focus = <<m, i>>] IN
           Agreed(n) /\ n.open = d.open /\ n.focus = <<m, i>>
<1> DEFINE n == [d EXCEPT !.focus = <<m, i>>]
<1>1. <<m, i>> \in Dropdowns!Focus /\ <<m, i>>[1] = m /\ <<m, i>>[2] = i
  BY DEF Dropdowns!Focus
<1>2. /\ n \in MenuStates /\ n.focus = <<m, i>>
      /\ n.open = d.open /\ n.expanded = d.expanded /\ n.backdrop = d.backdrop
      /\ n.holds = d.holds /\ n.refuses = d.refuses
  BY <1>1 DEF Agreed, MenuStates
<1> HIDE DEF n
<1>3. QED
  BY <1>1, <1>2 DEF Agreed, n

LEMMA ToggleAgreed ==
    ASSUME NEW d, Agreed(d), NEW m \in Menus
    PROVE  Agreed(Dropdowns!toggle(d, m))
<1> DEFINE n == Dropdowns!clearMenus(d, {})
           o == [n EXCEPT !.open = @ \cup {m}, !.expanded = @ \cup {m}, !.backdrop = d.touch]
           p == [o EXCEPT !.focus = <<m, Dropdowns!Toggle>>]
<1>1. Agreed(n) /\ n.open \subseteq d.holds /\ n.holds = d.holds /\ n.refuses = d.refuses
  BY ClearAgreed
<1>2. d.touch \in BOOLEAN
  BY DEF Agreed, MenuStates
<1> HIDE DEF n
<1>3. CASE m \in d.open \cup d.refuses
  BY <1>1, <1>3 DEF Dropdowns!toggle, n
<1>4. CASE m \notin d.open \cup d.refuses
  <2>1. /\ o \in MenuStates /\ o.open = n.open \cup {m} /\ o.expanded = n.expanded \cup {m}
        /\ o.focus = n.focus /\ o.holds = n.holds /\ o.refuses = n.refuses
    BY <1>1, <1>2 DEF Agreed, MenuStates
  <2>2. p = [n EXCEPT !.open = @ \cup {m}, !.expanded = @ \cup {m}, !.backdrop = d.touch,
                      !.focus = <<m, Dropdowns!Toggle>>]
    BY <1>1 DEF Agreed, MenuStates
  <2>3. Dropdowns!toggle(d, m) = p
    BY <1>4, <2>2 DEF Dropdowns!toggle, n
  <2> HIDE DEF o
  <2>4. Agreed(o)
    BY <1>1, <2>1 DEF Agreed
  <2>5. Dropdowns!Toggle \in Dropdowns!Toggle .. LastItem
    BY MenuAssumption DEF Dropdowns!Toggle
  <2>6. Agreed(p)
    BY <2>4, <2>5, FocusAgreed
  <2>7. QED
    BY <2>3, <2>6
<1>5. QED
  BY <1>3, <1>4

LEMMA ClickedAgreed ==
    ASSUME NEW d, Agreed(d), NEW m \in Menus
    PROVE  Agreed(Dropdowns!Clicked(d, m))
BY ToggleAgreed, ClearAgreed DEF Dropdowns!Clicked

LEMMA KeydownAgreed ==
    ASSUME NEW d, Agreed(d), d.focus # Dropdowns!Nothing, NEW key
    PROVE  Agreed(Dropdowns!keydown(d, key))
<1> DEFINE m == d.focus[1]
           index == d.focus[2]
           moved == CASE key = "up" /\ index > 0 -> index - 1
                      [] key = "down" /\ index < LastItem -> index + 1
                      [] OTHER -> IF index = Dropdowns!Toggle THEN 0 ELSE index
           onDisabled == index = Dropdowns!Toggle /\ m \in d.disabled
           n == [d EXCEPT !.focus = <<m, Dropdowns!Toggle>>]
<1>1. m \in Menus /\ index \in Dropdowns!Toggle .. LastItem
  BY DEF Agreed, MenuStates, Dropdowns!Focus
<1>2. moved \in Dropdowns!Toggle .. LastItem /\ Dropdowns!Toggle \in Dropdowns!Toggle .. LastItem
  BY <1>1, MenuAssumption DEF Dropdowns!Toggle
<1>3. Agreed(n)
  BY <1>1, <1>2, FocusAgreed
<1>4. m \in d.open => Agreed([d EXCEPT !.focus = <<m, moved>>])
  BY <1>1, <1>2, FocusAgreed
<1>5. Dropdowns!keydown(d, key) =
        CASE onDisabled -> d
          [] key = "escape" /\ m \in d.open /\ ~onDisabled ->
                IF index = Dropdowns!Toggle THEN Dropdowns!Clicked(n, m)
                ELSE Dropdowns!clearMenus(n, {})
          [] key # "escape" /\ m \notin d.open /\ ~onDisabled -> Dropdowns!Clicked(d, m)
          [] key # "escape" /\ m \in d.open /\ ~onDisabled -> [d EXCEPT !.focus = <<m, moved>>]
          [] OTHER -> d
  BY DEF Dropdowns!keydown
<1> HIDE DEF n, moved, onDisabled
<1>6. Agreed(Dropdowns!Clicked(n, m)) /\ Agreed(Dropdowns!Clicked(d, m))
  BY <1>1, <1>3, ClickedAgreed
<1>7. Agreed(Dropdowns!clearMenus(n, {}))
  BY <1>3, ClearAgreed
<1>8. QED
  BY <1>4, <1>5, <1>6, <1>7

LEMMA MenusNext ==
    ASSUME Agreed(page), [Dropdowns!Next]_page
    PROVE  Agreed(page)'
<1>1. ASSUME NEW m \in Menus, Dropdowns!ClickToggle(m)
      PROVE  Agreed(page')
  BY <1>1, ClickedAgreed DEF Dropdowns!ClickToggle
<1>2. ASSUME NEW m \in Menus, Dropdowns!ClickInput(m)
      PROVE  Agreed(page')
  BY <1>2, ClearAgreed DEF Dropdowns!ClickInput
<1>3. ASSUME NEW m \in Menus, Dropdowns!Tab(m)
      PROVE  Agreed(page')
  <2>1. Dropdowns!Toggle \in Dropdowns!Toggle .. LastItem
    BY MenuAssumption DEF Dropdowns!Toggle
  <2>2. QED
    BY <1>3, <2>1, FocusAgreed DEF Dropdowns!Tab
<1>4. ASSUME NEW key, Dropdowns!Keydown(key)
      PROVE  Agreed(page')
  BY <1>4, KeydownAgreed DEF Dropdowns!Keydown
<1>5. CASE Dropdowns!ClickElsewhere
  BY <1>5, ClearAgreed DEF Dropdowns!ClickElsewhere
<1>6. CASE UNCHANGED page
  BY <1>6
<1>7. QED
  BY <1>1, <1>2, <1>3, <1>4, <1>5, <1>6 DEF Dropdowns!Next

LEMMA MenusInit ==
    ASSUME Dropdowns!Init
    PROVE  Agreed(page)
<1>1. page \in MenuStates
  BY DEF Dropdowns!Init, MenuStates
<1>2. page.open = {} /\ page.expanded = {} /\ page.focus = Dropdowns!Nothing /\ page.backdrop = FALSE
  BY DEF Dropdowns!Init
<1>3. QED
  BY <1>1, <1>2 DEF Agreed

LEMMA MenusKept == BrowserSpec => [](part = "menus" => Agreed(page))
<1>1. BrowserInit => (part = "menus" => Agreed(page))
  BY PartInit, MenusInit
<1>2. (part = "menus" => Agreed(page)) /\ [BrowserNext]_browser
        => (part = "menus" => Agreed(page))'
  BY PartNext, MenusNext
<1>3. QED
  BY <1>1, <1>2, PTL DEF BrowserSpec

\* A set whose elements are all the same has at most one.
LEMMA AtMostOne ==
    ASSUME NEW S, \A a, b \in S : a = b
    PROVE  IsFiniteSet(S) /\ Cardinality(S) \in {0, 1}
<1>1. CASE S = {}
  BY <1>1, FS_EmptySet
<1>2. ASSUME NEW a \in S
      PROVE  IsFiniteSet(S) /\ Cardinality(S) = 1
  <2>1. S = {a}
    OBVIOUS
  <2>2. QED
    BY <2>1, FS_Singleton
<1>3. QED
  BY <1>1, <1>2

\* However menus are clicked and walked through, at most one is open besides those
\* the page keeps open, and what is open, its aria-expanded, the focus and the
\* backdrop agree.
THEOREM MenusStayAgreed == BrowserSpec => []MenusAgree
<1>1. (part = "menus" => Agreed(page)) => MenusAgree
  <2> SUFFICES ASSUME Agreed(page)
               PROVE  Dropdowns!MenusAgree
    BY DEF MenusAgree
  <2>1. Cardinality(page.open \ page.holds) <= 1
    BY AtMostOne DEF Agreed
  <2>2. Dropdowns!Cardinality(page.open \ page.holds) = Cardinality(page.open \ page.holds)
    BY DEF Dropdowns!Cardinality, Cardinality
  <2>3. QED
    BY <2>1, <2>2 DEF Agreed, Dropdowns!MenusAgree
<1>2. QED
  BY MenusKept, <1>1, PTL

(***************************************************************************)
(* Tabs.                                                                    *)
(***************************************************************************)
TabStates == [
      fade : BOOLEAN, tab : Tabs, active : SUBSET Tabs, in : SUBSET Tabs,
      due : [Tabs -> Seq(TabList!Activation)], hurried : BOOLEAN]

\* A choice that nothing hurried: the panes before it all wait to give way to the
\* same tab, or one of them has.
Calm(s) ==
    \E F \in SUBSET Tabs :
        /\ F # {}
        /\ \A p \in Tabs : s.due[p] \in {<<>>, <<[from |-> F, to |-> s.tab]>>}
        /\ \/ s.active = F /\ \A p \in F : s.due[p] # <<>>
           \/ s.active = {s.tab} /\ (s.fade => s.tab \in s.in)

TabInv(s) ==
    /\ s \in TabStates
    /\ s.active # {}
    /\ ~s.fade => \A p \in Tabs : s.due[p] = <<>>
    /\ ~s.hurried => Calm(s)

\* What one callback does, of any tab's transition.
LEMMA Activated ==
    ASSUME NEW s \in TabStates, NEW a \in TabList!Activation
    PROVE  LET g == TabList!Activate(s, a) IN
           /\ g \in TabStates
           /\ g.active = (s.active \ a.from) \cup {a.to}
           /\ g.in = IF s.fade THEN s.in \cup {a.to} ELSE s.in
           /\ g.fade = s.fade /\ g.tab = s.tab /\ g.due = s.due /\ g.hurried = s.hurried
<1> DEFINE in == IF s.fade THEN s.in \cup {a.to} ELSE s.in
           active == (s.active \ a.from) \cup {a.to}
           g == [s EXCEPT !.active = active, !.in = in]
<1>1. a.to \in Tabs
  BY DEF TabList!Activation
<1>2. in \in SUBSET Tabs /\ active \in SUBSET Tabs
  BY <1>1 DEF TabStates
<1>3. TabList!Activate(s, a) = g
  BY DEF TabList!Activate, TabStates
<1> HIDE DEF in, active
<1>4. /\ g \in TabStates /\ g.active = active /\ g.in = in
      /\ g.fade = s.fade /\ g.tab = s.tab /\ g.due = s.due /\ g.hurried = s.hurried
  BY <1>2 DEF TabStates
<1> HIDE DEF g
<1>5. QED
  BY <1>3, <1>4 DEF in, active

LEMMA TabsInit ==
    ASSUME TabList!Init
    PROVE  TabInv(page)
<1>1. PICK t \in Tabs :
        page \in [fade : BOOLEAN, tab : {t}, active : {{t}}, in : {{t}},
                  due : {[p \in Tabs |-> <<>>]}, hurried : {FALSE}]
  BY DEF TabList!Init
<1>2. /\ page.fade \in BOOLEAN /\ page.tab = t /\ page.active = {t} /\ page.in = {t}
      /\ page.due = [p \in Tabs |-> <<>>] /\ page.hurried = FALSE
  BY <1>1
<1>3. [p \in Tabs |-> <<>>] \in [Tabs -> Seq(TabList!Activation)]
  OBVIOUS
<1>4. page \in TabStates
  BY <1>1, <1>3 DEF TabStates
<1>5. Calm(page)
  BY <1>2 DEF Calm
<1>6. QED
  BY <1>2, <1>4, <1>5 DEF TabInv

LEMMA ShowStep ==
    ASSUME TabInv(page), NEW t \in Tabs, TabList!Show(t)
    PROVE  TabInv(page')
<1> DEFINE activation == [from |-> page.active, to |-> t]
           s == [page EXCEPT !.tab = t, !.hurried = ~TabList!AtRest, !.in = @ \ page.active]
           due == [p \in Tabs |-> IF p \in page.active THEN Append(page.due[p], activation)
                                  ELSE page.due[p]]
           g == [s EXCEPT !.due = due]
<1>1. page \in TabStates /\ page.active # {} /\ page.active \subseteq Tabs
  BY DEF TabInv, TabStates
<1>2. activation \in TabList!Activation /\ activation.from = page.active /\ activation.to = t
  BY <1>1 DEF TabList!Activation
<1>3. TabList!AtRest \in BOOLEAN
  BY DEF TabList!AtRest
<1>4. /\ s \in TabStates /\ s.tab = t /\ s.hurried = ~TabList!AtRest /\ s.active = page.active
      /\ s.due = page.due /\ s.fade = page.fade
  BY <1>1, <1>3 DEF TabStates
<1>5. page' = IF page.fade THEN g ELSE TabList!Activate(s, activation)
  BY <1>1, <1>4 DEF TabList!Show, TabStates
<1> HIDE DEF s, activation
<1>6. CASE page.fade
  <2>1. due \in [Tabs -> Seq(TabList!Activation)]
    BY <1>1, <1>2 DEF TabStates
  <2>2. \A p \in Tabs : due[p] = IF p \in page.active THEN Append(page.due[p], activation)
                                 ELSE page.due[p]
    OBVIOUS
  <2> HIDE DEF due
  <2>3. /\ g \in TabStates /\ g.tab = t /\ g.hurried = s.hurried /\ g.active = page.active
        /\ g.due = due /\ g.fade = page.fade
    BY <1>4, <2>1 DEF TabStates
  <2> HIDE DEF g
  <2>4. ASSUME TabList!AtRest
        PROVE  Calm(g)
    <3>1. \A p \in Tabs : page.due[p] = <<>>
      BY <2>4 DEF TabList!AtRest
    <3>2. Append(<<>>, activation) = <<activation>> /\ <<activation>> # <<>>
      OBVIOUS
    <3>3. \A p \in Tabs : due[p] = IF p \in page.active THEN <<activation>> ELSE <<>>
      BY <2>2, <3>1, <3>2
    <3>4. \A p \in Tabs : g.due[p] \in {<<>>, <<[from |-> page.active, to |-> g.tab]>>}
      BY <2>3, <3>3 DEF activation
    <3>5. g.active = page.active /\ \A p \in page.active : g.due[p] # <<>>
      BY <1>1, <2>3, <3>2, <3>3
    <3>6. QED
      BY <1>1, <3>4, <3>5 DEF Calm
  <2>5. QED
    BY <1>1, <1>4, <1>5, <1>6, <2>3, <2>4 DEF TabInv
<1>7. CASE ~page.fade
  <2>1. page' = TabList!Activate(s, activation)
    BY <1>5, <1>7
  <2>2. /\ page' \in TabStates /\ page'.active = {t} /\ page'.tab = t
        /\ page'.due = page.due /\ page'.fade = FALSE
    <3>1. /\ page' \in TabStates /\ page'.active = (s.active \ activation.from) \cup {activation.to}
          /\ page'.tab = s.tab /\ page'.due = s.due /\ page'.fade = s.fade
      BY <1>2, <1>4, <2>1, Activated
    <3>2. page.fade = FALSE
      BY <1>1, <1>7 DEF TabStates
    <3>3. QED
      BY <1>2, <1>4, <3>1, <3>2
  <2>3. \A p \in Tabs : page'.due[p] = <<>>
    BY <1>7, <2>2 DEF TabInv
  <2>4. Calm(page')
    BY <2>2, <2>3 DEF Calm
  <2>5. QED
    BY <2>2, <2>3, <2>4 DEF TabInv
<1>8. QED
  BY <1>6, <1>7

LEMMA TransitionStep ==
    ASSUME TabInv(page), NEW p \in Tabs, TabList!TransitionEnd(p)
    PROVE  TabInv(page')
<1> DEFINE s == [page EXCEPT !.due[p] = <<>>]
           list == page.due[p]
           I == {x \in TabStates : /\ x.active # {} /\ x.hurried = s.hurried
                                   /\ x.fade = s.fade /\ x.due = s.due /\ x.tab = s.tab}
<1>1. page \in TabStates /\ page.active # {}
  BY DEF TabInv
<1>2. list \in Seq(TabList!Activation) /\ list # <<>>
  BY <1>1 DEF TabStates, TabList!TransitionEnd
<1>3. /\ s \in TabStates /\ s.active = page.active /\ s.hurried = page.hurried
      /\ s.fade = page.fade /\ s.tab = page.tab /\ s.in = page.in
      /\ s.due[p] = <<>> /\ \A q \in Tabs \ {p} : s.due[q] = page.due[q]
  <2> DEFINE due == [page.due EXCEPT ![p] = <<>>]
             g == [page EXCEPT !.due = due]
  <2>1. page.due \in [Tabs -> Seq(TabList!Activation)] /\ <<>> \in Seq(TabList!Activation)
    BY <1>1 DEF TabStates
  <2>2. /\ due \in [Tabs -> Seq(TabList!Activation)]
        /\ due[p] = <<>> /\ \A q \in Tabs \ {p} : due[q] = page.due[q]
    BY <2>1
  <2> HIDE DEF due
  <2>3. /\ g \in TabStates /\ g.active = page.active /\ g.hurried = page.hurried
        /\ g.fade = page.fade /\ g.tab = page.tab /\ g.in = page.in /\ g.due = due
    BY <1>1, <2>2 DEF TabStates
  <2>4. s = g
    BY DEF due
  <2>5. QED
    BY <2>2, <2>3, <2>4
<1>4. page' = TabList!Ends!Fire(s, list)
  BY DEF TabList!TransitionEnd
<1>5. page.fade
  BY <1>2 DEF TabInv
<1> HIDE DEF s, list
<1>6. page' \in I
  <2>1. s \in I
    BY <1>1, <1>3
  <2>2. ASSUME NEW x \in I, NEW i \in 1 .. Len(list)
        PROVE  TabList!Activate(x, list[i]) \in I
    <3>1. list[i] \in TabList!Activation
      BY <1>2
    <3>2. QED
      BY <3>1, Activated
  <2>3. Len(list) \in Nat
    BY <1>2
  <2> HIDE DEF I
  <2>4. QED
    BY <1>4, <2>1, <2>2, <2>3, TabList!Ends!FireKeeps
<1>7. ASSUME ~page.hurried
      PROVE  Calm(page')
  <2>1. PICK F \in SUBSET Tabs :
          /\ F # {}
          /\ \A q \in Tabs : page.due[q] \in {<<>>, <<[from |-> F, to |-> page.tab]>>}
          /\ \/ page.active = F /\ \A q \in F : page.due[q] # <<>>
             \/ page.active = {page.tab} /\ (page.fade => page.tab \in page.in)
    BY <1>7 DEF TabInv, Calm
  <2> DEFINE a == [from |-> F, to |-> page.tab]
  <2>2. list = <<a>> /\ Len(list) = 1 /\ list[1] = a
    BY <1>2, <2>1 DEF list
  <2>3. a \in TabList!Activation /\ a.from = F /\ a.to = page.tab
    BY <1>1, <2>1 DEF TabList!Activation, TabStates
  <2> HIDE DEF a
  <2>4. page' = TabList!Activate(s, a)
    BY <1>4, <2>2, TabList!Ends!FireOne
  <2>5. page'.active = (page.active \ F) \cup {page.tab}
        /\ page'.in = page.in \cup {page.tab} /\ page'.tab = page.tab /\ page'.due = s.due
    <3>1. /\ page'.active = (s.active \ a.from) \cup {a.to}
          /\ page'.in = (IF s.fade THEN s.in \cup {a.to} ELSE s.in)
          /\ page'.tab = s.tab /\ page'.due = s.due
      BY <1>3, <2>3, <2>4, Activated
    <3>2. QED
      BY <1>3, <1>5, <2>3, <3>1
  <2>6. page'.active = {page.tab}
    BY <2>1, <2>5
  <2>7. \A q \in Tabs : page'.due[q] \in {<<>>, <<[from |-> F, to |-> page'.tab]>>}
    BY <1>3, <2>1, <2>5
  <2>8. QED
    BY <2>1, <2>5, <2>6, <2>7 DEF Calm
<1>8. QED
  BY <1>3, <1>5, <1>6, <1>7 DEF TabInv

LEMMA TabsNext ==
    ASSUME TabInv(page), [TabList!Next]_page
    PROVE  TabInv(page)'
BY ShowStep, TransitionStep DEF TabList!Next

LEMMA TabsKept == BrowserSpec => [](part = "tabs" => TabInv(page))
<1>1. BrowserInit => (part = "tabs" => TabInv(page))
  BY PartInit, TabsInit
<1>2. (part = "tabs" => TabInv(page)) /\ [BrowserNext]_browser
        => (part = "tabs" => TabInv(page))'
  BY PartNext, TabsNext
<1>3. QED
  BY <1>1, <1>2, PTL DEF BrowserSpec

\* In the end the pane of the chosen tab is the only one shown, and is not faded
\* out, whatever a hurried choice before had left behind.
THEOREM ChosenPaneShows == BrowserSpec => []TabShowsPane
<1>1. (part = "tabs" => TabInv(page)) => TabShowsPane
  BY DEF TabInv, Calm, TabShowsPane, TabList!TabShowsPane, TabList!AtRest
<1>2. QED
  BY TabsKept, <1>1, PTL

(***************************************************************************)
(* An affixed element.                                                      *)
(***************************************************************************)
AffixStates == [
      offsetTop : Tops \cup {None}, offsetBottom : Bottoms \cup {None},
      scrollHeight : Heights, scrollTop : Nat, affixed : Fixed!States, top : Int]

\* An element that was let go has an offset.bottom, and lies where that is on some
\* page, the one there was when it was let go.
AffixInv(a) ==
    /\ a \in AffixStates
    /\ a.scrollTop <= a.scrollHeight - WindowHeight
    /\ a.affixed # "null"
    /\ a.affixed = "top" => a.offsetTop # None
    /\ a.affixed = "bottom" => /\ a.offsetBottom # None
                               /\ \E h \in Heights : a.top = h - Height - a.offsetBottom

\* What a check does to any element whose page has its type.
LEMMA CheckSets ==
    ASSUME NEW a \in AffixStates,
           a.affixed = "top" => a.offsetTop # None,
           a.affixed = "bottom" => a.offsetBottom # None
    PROVE  LET c == Fixed!checkPosition(a) IN
           /\ c \in AffixStates
           /\ c.offsetTop = a.offsetTop /\ c.offsetBottom = a.offsetBottom
           /\ c.scrollHeight = a.scrollHeight /\ c.scrollTop = a.scrollTop
           /\ c.affixed = Fixed!getState(a) /\ c.affixed # "null"
           /\ c.affixed = "top" => a.offsetTop # None
           /\ c.affixed = "bottom" => a.offsetBottom # None
           /\ c.top = IF c.affixed = "bottom" THEN a.scrollHeight - Height - a.offsetBottom ELSE 0
<1> DEFINE state == Fixed!getState(a)
           top == IF state = "bottom" THEN a.scrollHeight - Height - a.offsetBottom ELSE 0
           c == [a EXCEPT !.affixed = state, !.top = top]
<1>1. /\ state \in {"top", "affix", "bottom"}
      /\ state = "top" => a.offsetTop # None
      /\ state = "bottom" => a.offsetBottom # None
  BY DEF Fixed!getState, AffixStates, Fixed!States
<1>2. Fixed!checkPosition(a) = c
  BY DEF Fixed!checkPosition
<1> HIDE DEF state
<1>3. top \in Int
  <2>1. a.scrollHeight \in Nat /\ Height \in Nat
    BY AffixAssumption DEF AffixStates
  <2>2. state = "bottom" => a.offsetBottom \in Nat
    BY <1>1, AffixAssumption DEF AffixStates
  <2>3. QED
    BY <2>1, <2>2
<1> HIDE DEF top
<1>4. /\ c \in AffixStates /\ c.affixed = state /\ c.top = top
      /\ c.offsetTop = a.offsetTop /\ c.offsetBottom = a.offsetBottom
      /\ c.scrollHeight = a.scrollHeight /\ c.scrollTop = a.scrollTop
  BY <1>1, <1>3 DEF AffixStates, Fixed!States
<1> HIDE DEF c
<1>5. QED
  BY <1>1, <1>2, <1>4 DEF state, top

LEMMA CheckKeeps ==
    ASSUME NEW a \in AffixStates, a.scrollTop <= a.scrollHeight - WindowHeight,
           a.affixed = "top" => a.offsetTop # None,
           a.affixed = "bottom" => a.offsetBottom # None
    PROVE  AffixInv(Fixed!checkPosition(a))
<1> DEFINE c == Fixed!checkPosition(a)
<1>1. a.scrollHeight \in Heights
  BY DEF AffixStates
<1> HIDE DEF c
<1>2. QED
  BY <1>1, CheckSets DEF AffixInv, c

LEMMA AffixInit ==
    ASSUME Fixed!Init
    PROVE  AffixInv(page)
<1>1. PICK h \in Heights, t \in Tops \cup {None}, b \in Bottoms \cup {None} :
        \E top \in 0 .. h - WindowHeight :
          page = Fixed!checkPosition([offsetTop |-> t, offsetBottom |-> b, scrollHeight |-> h,
                                      scrollTop |-> top, affixed |-> "null", top |-> 0])
  BY DEF Fixed!Init
<1>2. PICK top \in 0 .. h - WindowHeight :
        page = Fixed!checkPosition([offsetTop |-> t, offsetBottom |-> b, scrollHeight |-> h,
                                    scrollTop |-> top, affixed |-> "null", top |-> 0])
  BY <1>1
<1> DEFINE a == [offsetTop |-> t, offsetBottom |-> b, scrollHeight |-> h,
                 scrollTop |-> top, affixed |-> "null", top |-> 0]
<1>3. a \in AffixStates /\ a.scrollTop <= a.scrollHeight - WindowHeight /\ a.affixed = "null"
  BY AffixAssumption DEF AffixStates, Fixed!States
<1> HIDE DEF a
<1>4. QED
  BY <1>2, <1>3, CheckKeeps DEF a

LEMMA AffixNext ==
    ASSUME AffixInv(page), [Fixed!Next]_page
    PROVE  AffixInv(page)'
<1>1. page \in AffixStates /\ page.scrollTop \in Nat /\ page.scrollHeight \in Heights
  BY DEF AffixInv, AffixStates
<1>2. CASE Fixed!Scroll
  <2>1. PICK top \in 0 .. page.scrollHeight - WindowHeight :
           page' = Fixed!checkPosition([page EXCEPT !.scrollTop = top])
    BY <1>2 DEF Fixed!Scroll
  <2> DEFINE a == [page EXCEPT !.scrollTop = top]
  <2>2. top \in Nat /\ top <= page.scrollHeight - WindowHeight
    BY <1>1, AffixAssumption
  <2>3. /\ a \in AffixStates /\ a.scrollTop = top /\ a.scrollHeight = page.scrollHeight
        /\ a.affixed = page.affixed /\ a.offsetTop = page.offsetTop
        /\ a.offsetBottom = page.offsetBottom
    BY <1>1, <2>2 DEF AffixStates
  <2>4. page' = Fixed!checkPosition(a)
    BY <2>1
  <2> HIDE DEF a
  <2>5. QED
    BY <2>2, <2>3, <2>4, CheckKeeps DEF AffixInv
<1>3. CASE Fixed!Change
  <2>1. PICK h \in Heights :
           page' = [page EXCEPT !.scrollHeight = h,
                                !.scrollTop = IF @ > h - WindowHeight
                                              THEN h - WindowHeight ELSE @]
    BY <1>3 DEF Fixed!Change
  <2> DEFINE top == IF page.scrollTop > h - WindowHeight THEN h - WindowHeight
                    ELSE page.scrollTop
  <2>2. top \in Nat /\ top <= h - WindowHeight
    BY <1>1, AffixAssumption
  <2>3. page' = [page EXCEPT !.scrollHeight = h, !.scrollTop = top]
    BY <1>1, <2>1 DEF AffixStates
  <2> HIDE DEF top
  <2>4. /\ page' \in AffixStates /\ page'.scrollHeight = h /\ page'.scrollTop = top
        /\ page'.affixed = page.affixed /\ page'.offsetTop = page.offsetTop
        /\ page'.offsetBottom = page.offsetBottom /\ page'.top = page.top
    BY <1>1, <2>2, <2>3 DEF AffixStates
  <2>5. QED
    BY <2>2, <2>4 DEF AffixInv
<1>4. CASE UNCHANGED page
  BY <1>4
<1>5. QED
  BY <1>2, <1>3, <1>4 DEF Fixed!Next

\* The three states, told by where the page is scrolled.
LEMMA CheckGives ==
    ASSUME NEW a, AffixInv(a)
    PROVE  LET s == Fixed!getState(a)
               pinnedTop == a.scrollTop + Pinned
               end == a.scrollHeight - a.offsetBottom
           IN
           /\ a.offsetTop # None /\ a.affixed = "top" =>
                s = IF a.scrollTop < a.offsetTop THEN "top" ELSE "affix"
           /\ a.offsetTop # None /\ a.affixed = "affix" =>
                s = IF a.scrollTop <= a.offsetTop THEN "top"
                    ELSE IF a.offsetBottom # None /\ pinnedTop + Height >= end THEN "bottom"
                    ELSE "affix"
           /\ a.offsetTop # None /\ a.affixed = "bottom" =>
                s = IF pinnedTop <= a.top THEN "affix" ELSE "bottom"
           /\ a.offsetTop = None /\ a.affixed = "affix" =>
                s = IF a.offsetBottom # None /\ pinnedTop + Height >= end THEN "bottom"
                    ELSE "affix"
           /\ a.offsetTop = None /\ a.affixed = "bottom" =>
                s = IF a.scrollTop + WindowHeight <= end THEN "affix" ELSE "bottom"
BY DEF AffixInv, AffixStates, Fixed!getState, Fixed!PositionTop

\* A state is told by its fields.
LEMMA SameAffix ==
    ASSUME NEW a \in AffixStates, NEW b \in AffixStates,
           a.offsetTop = b.offsetTop, a.offsetBottom = b.offsetBottom,
           a.scrollHeight = b.scrollHeight, a.scrollTop = b.scrollTop,
           a.affixed = b.affixed, a.top = b.top
    PROVE  a = b
BY DEF AffixStates

\* Where an element is that no further check moves.
Settled(a) ==
    \/ a.affixed = "top" /\ Fixed!AtTop(a)
    \/ a.affixed = "affix" /\ ~Fixed!AtTop(a) /\ ~Fixed!AtBottom(a)
    \/ /\ a.affixed = "bottom" /\ a.top = a.scrollHeight - Height - a.offsetBottom
       /\ IF a.offsetTop # None THEN Fixed!AtBottom(a)
          ELSE a.scrollTop + WindowHeight > a.scrollHeight - a.offsetBottom

LEMMA SettledStays ==
    ASSUME NEW a, AffixInv(a), ~Fixed!OnEdge(a), Settled(a)
    PROVE  Fixed!getState(a) = a.affixed
<1>1. /\ a.scrollTop \in Nat /\ a.scrollHeight \in Nat /\ Pinned \in Nat /\ Height \in Nat
      /\ WindowHeight \in Nat
      /\ a.offsetTop # None => a.offsetTop \in Nat
      /\ a.offsetBottom # None => a.offsetBottom \in Nat
      /\ a.affixed \in {"top", "affix", "bottom"}
  BY AffixAssumption DEF AffixInv, AffixStates, Fixed!States
<1>2. CASE a.affixed = "top"
  BY <1>1, <1>2, CheckGives DEF Settled, Fixed!AtTop, AffixInv
<1>3. CASE a.affixed = "affix"
  BY <1>1, <1>3, CheckGives DEF Settled, Fixed!AtTop, Fixed!AtBottom, Fixed!OnEdge
<1>4. CASE a.affixed = "bottom"
  BY <1>1, <1>4, CheckGives DEF Settled, Fixed!AtBottom, AffixInv
<1>5. QED
  BY <1>1, <1>2, <1>3, <1>4

\* Two checks bring an element where it belongs.
LEMMA TwoChecks ==
    ASSUME NEW a, AffixInv(a), ~Fixed!OnEdge(a)
    PROVE  LET c == Fixed!checkPosition(Fixed!checkPosition(a)) IN
           /\ Settled(c)
           /\ Fixed!AtTop(a) => c.affixed = "top"
           /\ Fixed!AtBottom(a) => c.affixed = "bottom"
           /\ ~Fixed!AtTop(a) /\ ~Fixed!AtBottom(a) /\ a.offsetTop # None => c.affixed = "affix"
<1> DEFINE b == Fixed!checkPosition(a)
           c == Fixed!checkPosition(b)
           T == a.scrollTop
           end == a.scrollHeight - a.offsetBottom
<1>1. /\ AffixInv(b)
      /\ b.offsetTop = a.offsetTop /\ b.offsetBottom = a.offsetBottom
      /\ b.scrollHeight = a.scrollHeight /\ b.scrollTop = T
      /\ b.affixed = Fixed!getState(a)
      /\ b.affixed = "bottom" => b.top = a.scrollHeight - Height - a.offsetBottom
  <2>1. /\ a \in AffixStates /\ a.scrollTop <= a.scrollHeight - WindowHeight
        /\ a.affixed = "top" => a.offsetTop # None
        /\ a.affixed = "bottom" => a.offsetBottom # None
    BY DEF AffixInv
  <2>2. QED
    BY <2>1, CheckSets, CheckKeeps
<1>2. /\ AffixInv(c)
      /\ c.offsetTop = a.offsetTop /\ c.offsetBottom = a.offsetBottom
      /\ c.scrollHeight = a.scrollHeight /\ c.scrollTop = T
      /\ c.affixed = Fixed!getState(b)
      /\ c.affixed = "bottom" => c.top = a.scrollHeight - Height - a.offsetBottom
  <2> HIDE DEF b
  <2>1. /\ b \in AffixStates /\ b.scrollTop <= b.scrollHeight - WindowHeight
        /\ b.affixed = "top" => b.offsetTop # None
        /\ b.affixed = "bottom" => b.offsetBottom # None
    BY <1>1 DEF AffixInv
  <2>2. QED
    BY <1>1, <2>1, CheckSets, CheckKeeps
<1> HIDE DEF b, c
<1>3. /\ T \in Nat /\ a.scrollHeight \in Nat /\ Pinned \in Nat /\ Height \in Nat
      /\ WindowHeight \in Nat /\ Pinned + Height <= WindowHeight
      /\ a.offsetTop # None => a.offsetTop \in Nat
      /\ a.offsetBottom # None => a.offsetBottom \in Nat
      /\ a.affixed \in {"top", "affix", "bottom"}
      /\ b.affixed \in {"top", "affix", "bottom"}
  BY <1>1, AffixAssumption DEF AffixInv, AffixStates, Fixed!States
<1>4. ASSUME a.affixed = "bottom"
      PROVE  /\ a.offsetBottom \in Nat /\ a.top \in Int
             /\ a.offsetTop # None => a.offsetTop + Pinned <= a.top
  <2>1. PICK h \in Heights : a.top = h - Height - a.offsetBottom
    BY <1>4 DEF AffixInv
  <2>2. a.offsetBottom \in Bottoms /\ (a.offsetTop # None => a.offsetTop \in Tops)
    BY <1>4 DEF AffixInv, AffixStates
  <2>3. h \in Nat /\ a.offsetBottom \in Nat
    BY <2>2, AffixAssumption
  <2>4. a.offsetTop # None => a.offsetTop + Pinned + Height + a.offsetBottom <= h
    BY <2>2, AffixAssumption
  <2>5. QED
    BY <1>3, <2>1, <2>3, <2>4
<1>5. /\ Fixed!AtTop(c) <=> Fixed!AtTop(a)
      /\ Fixed!AtBottom(c) <=> Fixed!AtBottom(a)
  BY <1>2 DEF Fixed!AtTop, Fixed!AtBottom
<1>6. /\ Fixed!AtTop(a) <=> a.offsetTop # None /\ T < a.offsetTop
      /\ Fixed!AtBottom(a) <=> a.offsetBottom # None /\ T + Pinned + Height > end
      /\ a.offsetTop # None => T # a.offsetTop
      /\ a.offsetBottom # None => T + Pinned + Height # end
      /\ ~(Fixed!AtTop(a) /\ Fixed!AtBottom(a))
  BY DEF Fixed!AtTop, Fixed!AtBottom, Fixed!OnEdge
<1>7. CASE a.offsetTop # None
  <2>1. /\ a.affixed = "top" => b.affixed = IF T < a.offsetTop THEN "top" ELSE "affix"
        /\ a.affixed = "affix" =>
             b.affixed = IF T <= a.offsetTop THEN "top"
                         ELSE IF a.offsetBottom # None /\ T + Pinned + Height >= end
                         THEN "bottom" ELSE "affix"
        /\ a.affixed = "bottom" => b.affixed = IF T + Pinned <= a.top THEN "affix" ELSE "bottom"
    BY <1>1, <1>7, CheckGives
  <2>2. /\ b.affixed = "top" => c.affixed = IF T < a.offsetTop THEN "top" ELSE "affix"
        /\ b.affixed = "affix" =>
             c.affixed = IF T <= a.offsetTop THEN "top"
                         ELSE IF a.offsetBottom # None /\ T + Pinned + Height >= end
                         THEN "bottom" ELSE "affix"
        /\ b.affixed = "bottom" => c.affixed = IF T + Pinned <= b.top THEN "affix" ELSE "bottom"
    BY <1>1, <1>2, <1>7, CheckGives
  <2>3. a.affixed = "bottom" /\ b.affixed = "bottom" => T # a.offsetTop /\ ~(T < a.offsetTop)
    BY <1>3, <1>4, <1>6, <1>7, <2>1
  <2>4. /\ Fixed!AtTop(a) => c.affixed = "top"
        /\ Fixed!AtBottom(a) => c.affixed = "bottom"
        /\ ~Fixed!AtTop(a) /\ ~Fixed!AtBottom(a) => c.affixed = "affix"
    <3>1. CASE a.affixed = "top"
      BY <1>3, <1>6, <1>7, <2>1, <2>2, <3>1
    <3>2. CASE a.affixed = "affix"
      <4>1. CASE T < a.offsetTop
        BY <1>3, <1>6, <1>7, <2>1, <2>2, <3>2, <4>1
      <4>2. CASE ~(T < a.offsetTop) /\ Fixed!AtBottom(a)
        <5>1. a.offsetBottom # None /\ a.offsetBottom \in Nat /\ T + Pinned + Height > end /\ ~(T <= a.offsetTop)
          BY <1>3, <1>6, <1>7, <4>2
        <5>2. b.affixed = "bottom" /\ b.top = end - Height
          BY <1>1, <1>3, <2>1, <3>2, <5>1
        <5>3. c.affixed = "bottom"
          BY <1>3, <2>2, <5>1, <5>2
        <5>4. QED
          BY <1>6, <4>2, <5>3
      <4>3. CASE ~(T < a.offsetTop) /\ ~Fixed!AtBottom(a)
        <5>1. ~(T <= a.offsetTop) /\ ~(a.offsetBottom # None /\ T + Pinned + Height >= end)
          BY <1>3, <1>6, <1>7, <4>3
        <5>2. b.affixed = "affix" /\ c.affixed = "affix"
          BY <2>1, <2>2, <3>2, <5>1
        <5>3. QED
          BY <1>6, <4>3, <5>2
      <4>4. QED
        BY <4>1, <4>2, <4>3
    <3>3. CASE a.affixed = "bottom"
      <4>1. a.offsetBottom # None /\ a.offsetBottom \in Nat /\ a.offsetTop \in Nat
        BY <1>3, <1>4, <1>7, <3>3 DEF AffixInv
      <4>2. CASE T + Pinned <= a.top
        <5>1. b.affixed = "affix"
          BY <2>1, <3>3, <4>2
        <5>2. QED
          BY <1>3, <1>6, <1>7, <2>2, <4>1, <5>1
      <4>3. CASE ~(T + Pinned <= a.top)
        <5>1. b.affixed = "bottom" /\ b.top = end - Height /\ ~Fixed!AtTop(a)
          BY <1>1, <1>3, <1>6, <2>1, <2>3, <3>3, <4>1, <4>3
        <5>2. QED
          BY <1>3, <1>6, <2>2, <4>1, <5>1
      <4>4. QED
        BY <4>2, <4>3
    <3>4. QED
      BY <1>3, <3>1, <3>2, <3>3
  <2>5. Settled(c)
    <3>1. CASE Fixed!AtTop(a)
      BY <1>5, <2>4, <3>1 DEF Settled
    <3>2. CASE Fixed!AtBottom(a)
      <4>1. c.affixed = "bottom" /\ Fixed!AtBottom(c)
        BY <1>5, <2>4, <3>2
      <4>2. c.top = c.scrollHeight - Height - c.offsetBottom /\ c.offsetTop # None
        BY <1>2, <1>7, <4>1
      <4>3. QED
        BY <4>1, <4>2 DEF Settled
    <3>3. CASE ~Fixed!AtTop(a) /\ ~Fixed!AtBottom(a)
      BY <1>5, <2>4, <3>3 DEF Settled
    <3>4. QED
      BY <3>1, <3>2, <3>3
  <2>6. QED
    BY <2>4, <2>5 DEF b, c
<1>8. CASE a.offsetTop = None
  <2>1. /\ a.affixed = "affix" =>
             b.affixed = IF a.offsetBottom # None /\ T + Pinned + Height >= end
                         THEN "bottom" ELSE "affix"
        /\ a.affixed = "bottom" =>
             b.affixed = IF T + WindowHeight <= end THEN "affix" ELSE "bottom"
    BY <1>1, <1>8, CheckGives
  <2>2. /\ b.affixed = "affix" =>
             c.affixed = IF a.offsetBottom # None /\ T + Pinned + Height >= end
                         THEN "bottom" ELSE "affix"
        /\ b.affixed = "bottom" =>
             c.affixed = IF T + WindowHeight <= end THEN "affix" ELSE "bottom"
    BY <1>1, <1>2, <1>8, CheckGives
  <2>3. a.affixed # "top" /\ b.affixed # "top" /\ ~Fixed!AtTop(a)
    BY <1>1, <1>6, <1>8 DEF AffixInv
  <2>4. /\ Fixed!AtBottom(a) => c.affixed = "bottom"
        /\ c.affixed = "affix" => ~Fixed!AtBottom(a)
        /\ c.affixed = "bottom" => a.offsetBottom # None /\ T + WindowHeight > end
        /\ c.affixed \in {"affix", "bottom"}
    <3>1. CASE a.affixed = "affix"
      BY <1>3, <1>6, <2>1, <2>2, <3>1
    <3>2. CASE a.affixed = "bottom"
      BY <1>3, <1>4, <1>6, AffixAssumption, <2>1, <2>2, <3>2 DEF AffixInv
    <3>3. QED
      BY <1>3, <2>3, <3>1, <3>2
  <2>5. Settled(c)
    <3>1. CASE c.affixed = "affix"
      BY <1>5, <2>3, <2>4, <3>1 DEF Settled
    <3>2. CASE c.affixed = "bottom"
      <4>1. /\ c.top = c.scrollHeight - Height - c.offsetBottom /\ c.offsetTop = None
            /\ c.scrollTop + WindowHeight > c.scrollHeight - c.offsetBottom
        BY <1>2, <1>8, <2>4, <3>2
      <4>2. QED
        BY <3>2, <4>1 DEF Settled
    <3>3. QED
      BY <2>4, <3>1, <3>2
  <2>6. QED
    BY <1>8, <2>3, <2>4, <2>5 DEF b, c
<1>9. QED
  BY <1>7, <1>8

LEMMA AffixKept == BrowserSpec => [](part = "affix" => AffixInv(page))
<1>1. BrowserInit => (part = "affix" => AffixInv(page))
  BY PartInit, AffixInit
<1>2. (part = "affix" => AffixInv(page)) /\ [BrowserNext]_browser
        => (part = "affix" => AffixInv(page))'
  BY PartNext, AffixNext
<1>3. QED
  BY <1>1, <1>2, PTL DEF BrowserSpec

\* Wherever the page is scrolled and however its height changes, two checks bring
\* the element where it belongs and a third leaves it there.
THEOREM AffixComesToRest == BrowserSpec => []AffixSettles
<1>1. (part = "affix" => AffixInv(page)) => AffixSettles
  <2> SUFFICES ASSUME AffixInv(page)
               PROVE  Fixed!AffixSettles
    BY DEF AffixSettles
  <2> DEFINE b == Fixed!checkPosition(page)
             c == Fixed!checkPosition(b)
             d == Fixed!checkPosition(c)
  <2>1. AffixInv(b)
    BY CheckKeeps DEF AffixInv
  <2>2. /\ b.offsetTop = page.offsetTop /\ b.offsetBottom = page.offsetBottom
        /\ b.scrollHeight = page.scrollHeight /\ b.scrollTop = page.scrollTop
    BY CheckSets DEF AffixInv
  <2>3. ASSUME ~Fixed!OnEdge(page)
        PROVE  /\ Settled(c)
               /\ Fixed!AtTop(page) => c.affixed = "top"
               /\ Fixed!AtBottom(page) => c.affixed = "bottom"
               /\ ~Fixed!AtTop(page) /\ ~Fixed!AtBottom(page) /\ page.offsetTop # None
                    => c.affixed = "affix"
    BY <2>3, TwoChecks
  <2> HIDE DEF b
  <2>4. /\ AffixInv(c)
        /\ c.offsetTop = b.offsetTop /\ c.offsetBottom = b.offsetBottom
        /\ c.scrollHeight = b.scrollHeight /\ c.scrollTop = b.scrollTop
        /\ c.top = IF c.affixed = "bottom" THEN c.scrollHeight - Height - c.offsetBottom ELSE 0
    BY <2>1, CheckSets, CheckKeeps DEF AffixInv
  <2> HIDE DEF c
  <2>5. ASSUME ~Fixed!OnEdge(page)
        PROVE  d = c
    <3>1. ~Fixed!OnEdge(c)
      BY <2>2, <2>4, <2>5 DEF Fixed!OnEdge, Fixed!AtTop, Fixed!AtBottom
    <3>2. Fixed!getState(c) = c.affixed
      BY <2>3, <2>4, <2>5, <3>1, SettledStays
    <3>3. /\ c \in AffixStates /\ d \in AffixStates
          /\ d.offsetTop = c.offsetTop /\ d.offsetBottom = c.offsetBottom
          /\ d.scrollHeight = c.scrollHeight /\ d.scrollTop = c.scrollTop
          /\ d.affixed = c.affixed
          /\ d.top = IF d.affixed = "bottom" THEN c.scrollHeight - Height - c.offsetBottom ELSE 0
      BY <2>4, <3>2, CheckSets DEF AffixInv
    <3> HIDE DEF d
    <3>4. QED
      BY <2>4, <3>3, SameAffix
  <2>6. QED
    BY <2>3, <2>5 DEF Fixed!AffixSettles, b, c
<1>2. QED
  BY AffixKept, <1>1, PTL

(***************************************************************************)
(* The scroll spy.                                                          *)
(***************************************************************************)
SpyStates == [
      layout : Layouts, scrollTop : Spy!Positions,
      offsets : {l.tops : l \in Layouts}, scrollHeight : {l.height : l \in Layouts},
      activeTarget : Spy!Targets, fresh : BOOLEAN]

\* What SpyFollows says of an active target.
Follows(s, target) ==
    LET tops == s.layout.tops
    IN  IF s.scrollTop + WindowHeight = s.layout.height THEN target = Len(tops)
        ELSE \A i \in DOMAIN tops : s.scrollTop + SpyOffset >= tops[i] <=> i <= target

\* What was read is one page's, and what was made active by this page's sections is
\* right.
SpyInv(s) ==
    /\ s \in SpyStates
    /\ s.scrollTop \in 0 .. s.layout.height - WindowHeight
    /\ \E l \in Layouts : s.offsets = l.tops /\ s.scrollHeight = l.height
    /\ s.fresh => s.scrollHeight = s.layout.height
    /\ s.fresh /\ s.offsets = s.layout.tops /\ s.offsets # <<>> => Follows(s, s.activeTarget)

\* A list of sections has a last one that is reached, unless the first is not.
LEMMA LastReached ==
    ASSUME NEW tops \in Seq(Nat), tops # <<>>, NEW x \in Int, tops[1] <= x
    PROVE  \E i \in DOMAIN tops : x >= tops[i] /\ (i = Len(tops) \/ x < tops[i + 1])
<1> DEFINE above == {j \in DOMAIN tops : x < tops[j]}
<1>1. DOMAIN tops = 1 .. Len(tops) /\ Len(tops) \in Nat \ {0} /\ tops[1] \in Nat
  OBVIOUS
<1>2. CASE above = {}
  <2>1. Len(tops) \in DOMAIN tops /\ tops[Len(tops)] \in Nat
    BY <1>1
  <2>2. QED
    BY <1>2, <2>1
<1>3. CASE above # {}
  <2>1. PICK j \in above : \A k \in above : j <= k
    <3>1. above \subseteq Nat
      BY <1>1
    <3> HIDE DEF above
    <3>2. QED
      BY <1>3, <3>1, TabList!Ends!Least
  <2>2. j - 1 \in DOMAIN tops /\ j - 1 \notin above /\ tops[j - 1] \in Nat
    BY <1>1, <2>1
  <2>3. x >= tops[j - 1] /\ x < tops[(j - 1) + 1]
    BY <2>1, <2>2
  <2>4. QED
    BY <2>2, <2>3
<1>4. QED
  BY <1>2, <1>3

\* What process() makes active is right when it has read this page's sections.
LEMMA ActivatedFollows ==
    ASSUME NEW s \in SpyStates, s.scrollTop \in 0 .. s.layout.height - WindowHeight,
           s.offsets = s.layout.tops, s.offsets # <<>>
    PROVE  Follows(s, Spy!Activated(s))
<1> DEFINE tops == s.layout.tops
           x == s.scrollTop + SpyOffset
           end == SpyOffset + s.layout.height - WindowHeight
           reached(i) == x >= tops[i] /\ (i = Len(tops) \/ x < tops[i + 1])
<1>1. s.layout \in Layouts
  BY DEF SpyStates
<1>2. /\ s.layout.height \in Nat /\ WindowHeight \in Nat /\ SpyOffset \in Int
      /\ tops \in Seq(Nat) /\ tops # <<>> /\ s.scrollTop \in Int
      /\ \A i, j \in DOMAIN tops : i <= j => tops[i] <= tops[j]
  BY <1>1, LayoutAssumption
<1>3. /\ DOMAIN tops = 1 .. Len(tops) /\ Len(tops) \in Nat \ {0}
      /\ \A i \in DOMAIN tops : tops[i] \in Nat
  BY SMTT(40), <1>2
<1>4. /\ x \in Int /\ end \in Int
      /\ x >= end <=> s.scrollTop + WindowHeight = s.layout.height
  <2>1. /\ s.layout.height \in Int /\ WindowHeight \in Int /\ SpyOffset \in Int
        /\ s.scrollTop \in Int /\ s.scrollTop <= s.layout.height - WindowHeight
    BY <1>2
  <2>2. QED
    BY <2>1
<1>5. Spy!Activated(s) =
        CASE x >= end -> Len(tops)
          [] x < end /\ s.activeTarget # 0 /\ tops # <<>> /\ x < tops[1] -> 0
          [] x < end /\ \E i \in DOMAIN tops : reached(i) -> CHOOSE i \in DOMAIN tops : reached(i)
          [] OTHER -> s.activeTarget
  BY DEF Spy!Activated, Spy!NoTarget
<1>6. s.activeTarget \in Nat
  <2>1. \A l \in Layouts : DOMAIN l.tops \subseteq Nat
    BY LayoutAssumption
  <2>2. QED
    BY <2>1 DEF SpyStates, Spy!Targets, Spy!NoTarget
<1> HIDE DEF tops, x, end, reached
<1>7. CASE x >= end
  BY <1>4, <1>5, <1>7 DEF Follows, tops
<1>8. CASE ~(x >= end) /\ x < tops[1]
  <2>1. ASSUME NEW i \in DOMAIN tops
        PROVE  x < tops[i]
    <3>1. 1 \in DOMAIN tops /\ i \in Int /\ 1 <= i
      BY <1>3
    <3>2. tops[1] <= tops[i]
      BY <1>2, <3>1
    <3>3. tops[1] \in Int /\ tops[i] \in Int /\ x \in Int
      BY <1>3, <1>4, <3>1
    <3>4. QED
      BY <1>8, <3>2, <3>3
  <2>2. Spy!Activated(s) = 0
    <3>1. ~(\E i \in DOMAIN tops : reached(i))
      BY <1>3, <1>4, <2>1 DEF reached
    <3>2. x < end /\ (s.activeTarget # 0 \/ s.activeTarget = 0)
      BY <1>4, <1>8
    <3>3. QED
      BY <1>2, <1>5, <1>8, <3>1, <3>2
  <2>3. \A i \in DOMAIN tops : x >= tops[i] <=> i <= 0
    BY <1>3, <1>4, <2>1
  <2>4. QED
    BY <1>4, <1>8, <2>2, <2>3 DEF Follows, tops, x
<1>9. CASE ~(x >= end) /\ ~(x < tops[1])
  <2>1. \E i \in DOMAIN tops : reached(i)
    <3>1. tops[1] <= x
      BY <1>3, <1>4, <1>9
    <3>2. QED
      BY <1>2, <1>4, <3>1, LastReached DEF reached
  <2> DEFINE t == CHOOSE i \in DOMAIN tops : reached(i)
  <2>2. t \in DOMAIN tops /\ reached(t)
    BY <2>1
  <2>3. Spy!Activated(s) = t
    <3>1. x < end
      BY <1>4, <1>9
    <3>2. QED
      BY <1>5, <1>9, <2>1, <3>1
  <2> HIDE DEF t
  <2>4. ASSUME NEW i \in DOMAIN tops
        PROVE  x >= tops[i] <=> i <= t
    <3>1. CASE i <= t
      BY <1>2, <1>3, <1>4, <2>2, <3>1 DEF reached
    <3>2. CASE i > t
      <4>1. t + 1 \in DOMAIN tops /\ t + 1 <= i /\ x < tops[t + 1]
        BY <1>3, <2>2, <3>2 DEF reached
      <4>2. tops[t + 1] <= tops[i] /\ tops[t + 1] \in Nat /\ tops[i] \in Nat
        BY <1>2, <1>3, <4>1
      <4>3. ~(x >= tops[i])
        BY <1>4, <4>1, <4>2
      <4>4. QED
        BY <1>3, <2>2, <3>2, <4>3
    <3>3. QED
      BY <1>3, <2>2, <3>1, <3>2
  <2>5. QED
    BY <1>4, <1>9, <2>3, <2>4 DEF Follows, tops, x
<1>10. QED
  BY <1>7, <1>8, <1>9

LEMMA ActivatedType ==
    ASSUME NEW s \in SpyStates
    PROVE  Spy!Activated(s) \in Spy!Targets
<1> DEFINE tops == s.offsets
           first == tops # <<>> /\ s.scrollTop + SpyOffset < tops[1]
           reached(i) == /\ s.scrollTop + SpyOffset >= tops[i]
                         /\ i = Len(tops) \/ s.scrollTop + SpyOffset < tops[i + 1]
           below == s.scrollTop + SpyOffset < SpyOffset + s.layout.height - WindowHeight
           end == s.scrollTop + SpyOffset >= SpyOffset + s.layout.height - WindowHeight
<1>1. PICK l \in Layouts : tops = l.tops
  BY DEF SpyStates
<1>2. tops \in Seq(Nat) /\ DOMAIN tops \subseteq Spy!Targets /\ 0 \in Spy!Targets
  BY <1>1, LayoutAssumption DEF Spy!Targets, Spy!NoTarget
<1>3. Len(tops) \in Spy!Targets
  <2>1. Len(tops) = 0 \/ Len(tops) \in DOMAIN tops
    BY <1>2
  <2>2. QED
    BY <1>2, <2>1
<1>4. s.activeTarget \in Spy!Targets
  BY DEF SpyStates
<1>5. Spy!Activated(s) =
        CASE end -> Len(tops)
          [] below /\ s.activeTarget # 0 /\ first -> 0
          [] below /\ \E i \in DOMAIN tops : reached(i) -> CHOOSE i \in DOMAIN tops : reached(i)
          [] OTHER -> s.activeTarget
  BY DEF Spy!Activated, Spy!NoTarget
<1> HIDE DEF tops, first, reached, below, end
<1>6. (\E i \in DOMAIN tops : reached(i)) => (CHOOSE i \in DOMAIN tops : reached(i)) \in DOMAIN tops
  OBVIOUS
<1>7. QED
  BY <1>2, <1>3, <1>4, <1>5, <1>6

\* process() reads a page and makes right what it has read.
LEMMA ProcessKeeps ==
    ASSUME NEW s \in SpyStates, s.scrollTop \in 0 .. s.layout.height - WindowHeight,
           \E l \in Layouts : s.offsets = l.tops /\ s.scrollHeight = l.height
    PROVE  SpyInv(Spy!process(s))
<1> DEFINE a == Spy!Activated(s)
           f == [s EXCEPT !.activeTarget = a, !.fresh = TRUE]
           r == Spy!refresh(s)
           g == [r EXCEPT !.activeTarget = a, !.fresh = FALSE]
<1>1. a \in Spy!Targets
  BY ActivatedType
<1>2. s.layout \in Layouts
  BY DEF SpyStates
<1>3. Spy!process(s) = IF s.scrollHeight = s.layout.height THEN f ELSE g
  BY DEF Spy!process
<1>4. CASE s.scrollHeight = s.layout.height
  <2>2. s.offsets = s.layout.tops /\ s.offsets # <<>> => Follows(s, a)
    BY ActivatedFollows
  <2> HIDE DEF a
  <2>3. /\ f \in SpyStates
        /\ f.scrollTop = s.scrollTop /\ f.layout = s.layout /\ f.offsets = s.offsets
        /\ f.scrollHeight = s.scrollHeight /\ f.activeTarget = a
    BY <1>1 DEF SpyStates
  <2> HIDE DEF f
  <2>4. f.offsets = f.layout.tops /\ f.offsets # <<>> => Follows(f, f.activeTarget)
    BY <2>2, <2>3 DEF Follows
  <2>5. QED
    BY <1>3, <1>4, <2>3, <2>4 DEF SpyInv
<1>5. CASE s.scrollHeight # s.layout.height
  <2> HIDE DEF a
  <2>1. /\ r \in SpyStates
        /\ r.scrollTop = s.scrollTop /\ r.layout = s.layout /\ r.offsets = s.layout.tops
        /\ r.scrollHeight = s.layout.height
    BY <1>2 DEF SpyStates, Spy!refresh
  <2> HIDE DEF r
  <2>2. /\ g \in SpyStates
        /\ g.scrollTop = r.scrollTop /\ g.layout = r.layout /\ g.offsets = r.offsets
        /\ g.scrollHeight = r.scrollHeight /\ g.fresh = FALSE
    BY <1>1, <2>1 DEF SpyStates
  <2> HIDE DEF g
  <2>3. QED
    BY <1>2, <1>3, <1>5, <2>1, <2>2 DEF SpyInv
<1>6. QED
  BY <1>4, <1>5

LEMMA SpyInit ==
    ASSUME Spy!Init
    PROVE  SpyInv(page)
<1>1. PICK l \in Layouts : \E top \in 0 .. l.height - WindowHeight :
        page = Spy!process([layout |-> l, scrollTop |-> top, offsets |-> l.tops,
                            scrollHeight |-> l.height, activeTarget |-> Spy!NoTarget,
                            fresh |-> TRUE])
  BY Zenon DEF Spy!Init
<1>2. PICK top \in 0 .. l.height - WindowHeight :
        page = Spy!process([layout |-> l, scrollTop |-> top, offsets |-> l.tops,
                            scrollHeight |-> l.height, activeTarget |-> Spy!NoTarget,
                            fresh |-> TRUE])
  BY <1>1
<1> DEFINE s == [layout |-> l, scrollTop |-> top, offsets |-> l.tops,
                 scrollHeight |-> l.height, activeTarget |-> Spy!NoTarget, fresh |-> TRUE]
<1>3. s \in SpyStates
  BY <1>2 DEF SpyStates, Spy!Positions, Spy!Targets
<1>4. /\ s.scrollTop = top /\ s.layout = l /\ s.offsets = l.tops /\ s.scrollHeight = l.height
      /\ page = Spy!process(s)
  BY <1>2
<1> HIDE DEF s
<1>5. QED
  BY <1>3, <1>4, <1>2, ProcessKeeps

LEMMA SpyNext ==
    ASSUME SpyInv(page), Spy!Next
    PROVE  SpyInv(page')
<1>1. CASE Spy!Scroll
  <2>1. PICK top \in 0 .. page.layout.height - WindowHeight :
          page' = Spy!process([page EXCEPT !.scrollTop = top])
    BY <1>1 DEF Spy!Scroll
  <2> DEFINE s == [page EXCEPT !.scrollTop = top]
  <2>2. page \in SpyStates /\ page.layout \in Layouts
    BY DEF SpyInv, SpyStates
  <2>3. top \in Spy!Positions
    BY <2>2 DEF Spy!Positions
  <2>4. /\ s \in SpyStates /\ s.scrollTop = top /\ s.layout = page.layout
        /\ s.offsets = page.offsets /\ s.scrollHeight = page.scrollHeight
    BY <2>2, <2>3 DEF SpyStates
  <2>5. page' = Spy!process(s)
    BY <2>1
  <2> HIDE DEF s
  <2>6. QED
    BY <2>4, <2>5, ProcessKeeps DEF SpyInv
<1>2. CASE Spy!Change
  <2>1. PICK l \in Layouts :
          page' = [page EXCEPT !.layout = l, !.fresh = FALSE,
                               !.scrollTop = IF @ > l.height - WindowHeight
                                             THEN l.height - WindowHeight ELSE @]
    BY <1>2 DEF Spy!Change
  <2> DEFINE top == IF page.scrollTop > l.height - WindowHeight
                    THEN l.height - WindowHeight ELSE page.scrollTop
             n == [page EXCEPT !.layout = l, !.fresh = FALSE, !.scrollTop = top]
  <2>2. page \in SpyStates /\ page.layout \in Layouts
    BY DEF SpyInv, SpyStates
  <2>3. top \in 0 .. l.height - WindowHeight
    <3>1. l.height \in Int /\ WindowHeight \in Int /\ WindowHeight <= l.height
      BY LayoutAssumption
    <3>2. page.scrollTop \in Int /\ page.scrollTop >= 0
      BY DEF SpyInv
    <3>3. QED
      BY <3>1, <3>2
  <2>4. page' = n
    BY <2>1, <2>2 DEF SpyStates
  <2> HIDE DEF top
  <2>5. top \in Spy!Positions
    BY <2>3 DEF Spy!Positions
  <2>6. /\ n \in SpyStates /\ n.scrollTop = top /\ n.layout = l /\ n.fresh = FALSE
        /\ n.offsets = page.offsets /\ n.scrollHeight = page.scrollHeight
    BY <2>2, <2>5 DEF SpyStates
  <2> HIDE DEF n
  <2>7. QED
    BY <2>3, <2>4, <2>6 DEF SpyInv
<1>3. CASE Spy!CallRefresh
  <2> DEFINE n == [Spy!refresh(page) EXCEPT !.fresh = @ /\ page.offsets = page.layout.tops]
  <2>1. page \in SpyStates /\ page.layout \in Layouts
    BY DEF SpyInv, SpyStates
  <2>2. /\ n \in SpyStates /\ n.scrollTop = page.scrollTop /\ n.layout = page.layout
        /\ n.offsets = page.layout.tops /\ n.scrollHeight = page.layout.height
        /\ n.activeTarget = page.activeTarget
        /\ n.fresh <=> page.fresh /\ page.offsets = page.layout.tops
    BY <2>1 DEF SpyStates, Spy!refresh
  <2>3. page' = n
    BY <1>3 DEF Spy!CallRefresh
  <2> HIDE DEF n
  <2>4. QED
    BY <2>1, <2>2, <2>3 DEF SpyInv, Follows
<1>4. QED
  BY <1>1, <1>2, <1>3 DEF Spy!Next

LEMMA SpyKept == BrowserSpec => [](part = "spy" => SpyInv(page))
<1>1. BrowserInit => (part = "spy" => SpyInv(page))
  BY PartInit, SpyInit
<1>2. (part = "spy" => SpyInv(page)) /\ [BrowserNext]_browser => (part = "spy" => SpyInv(page))'
  BY PartNext, SpyNext
<1>3. QED
  BY <1>1, <1>2, PTL DEF BrowserSpec

\* The active link follows the scrolling, once the page that it has changed to was read;
\* sections that move while the page's height stays are not noticed.
THEOREM SpyIsFollowed == BrowserSpec => []SpyFollows
<1>1. (part = "spy" => SpyInv(page)) => SpyFollows
  BY DEF SpyInv, SpyFollows, Follows, Spy!SpyFollows, Spy!Unnoticed
<1>2. QED
  BY SpyKept, <1>1, PTL

(***************************************************************************)
(* The carousel.                                                            *)
(***************************************************************************)
CarouselStates == [
      wrap : BOOLEAN, animated : BOOLEAN, ride : BOOLEAN, scripted : BOOLEAN,
      made : BOOLEAN, option : BOOLEAN,
      active : SUBSET Slides!Items, indicator : Slides!Items,
      sliding : BOOLEAN, paused : BOOLEAN, interval : BOOLEAN,
      due : Seq([from : SUBSET Slides!Items, to : Slides!Items]), slid : 0 .. 2,
      queued : Seq(Slides!Items), hovered : BOOLEAN, restarted : BOOLEAN]

\* One item is active; while another slides in, that is all that is due.
Rolling(c) ==
    /\ c \in CarouselStates
    /\ \E a \in Slides!Items :
          /\ c.active = {a}
          /\ \/ c.due = <<>> /\ ~c.sliding /\ c.indicator = a
             \/ /\ c.sliding
                /\ \E t \in Slides!Items :
                      /\ t # a
                      /\ c.due = <<[from |-> {a}, to |-> t]>>
                      /\ c.indicator = t

CarouselInv(c) == Rolling(c) /\ (c.interval => ~c.hovered \/ c.restarted)

\* What CarouselInv looks at.
LEMMA SameCarousel ==
    ASSUME NEW c, CarouselInv(c), NEW n \in CarouselStates,
           n.active = c.active, n.due = c.due, n.sliding = c.sliding, n.indicator = c.indicator,
           n.interval => ~n.hovered \/ n.restarted
    PROVE  CarouselInv(n)
BY DEF CarouselInv, Rolling

LEMMA CycleKeeps ==
    ASSUME NEW c, CarouselInv(c), NEW event \in BOOLEAN, event => ~c.hovered
    PROVE  CarouselInv(Slides!Cycle(c, event))
<1> DEFINE paused == c.paused /\ event
           interval == c.option /\ ~paused
           restarted == c.restarted \/ (c.hovered /\ ~event)
           n == [c EXCEPT !.paused = paused, !.interval = interval, !.restarted = restarted]
<1>1. c \in CarouselStates /\ (c.hovered => restarted)
  BY DEF CarouselInv, Rolling
<1>2. paused \in BOOLEAN /\ interval \in BOOLEAN /\ restarted \in BOOLEAN
  OBVIOUS
<1>3. Slides!Cycle(c, event) = n
  BY DEF Slides!Cycle
<1> HIDE DEF paused, interval, restarted
<1>4. /\ n \in CarouselStates
      /\ n.active = c.active /\ n.due = c.due /\ n.sliding = c.sliding
      /\ n.indicator = c.indicator /\ n.hovered = c.hovered /\ n.restarted = restarted
  BY <1>1, <1>2 DEF CarouselStates
<1> HIDE DEF n
<1>5. QED
  BY <1>1, <1>3, <1>4, SameCarousel

LEMMA PauseKeeps ==
    ASSUME NEW c, CarouselInv(c), NEW event \in BOOLEAN
    PROVE  CarouselInv(Slides!Pause(c, event)) /\ Slides!Pause(c, event).hovered = c.hovered
<1> DEFINE paused == c.paused \/ ~event
           n == [c EXCEPT !.paused = paused, !.interval = FALSE]
<1>1. c \in CarouselStates
  BY DEF CarouselInv, Rolling
<1>2. paused \in BOOLEAN
  OBVIOUS
<1>3. Slides!Pause(c, event) = n
  BY <1>1 DEF Slides!Pause, CarouselStates
<1> HIDE DEF paused
<1>4. /\ n \in CarouselStates
      /\ n.active = c.active /\ n.due = c.due /\ n.sliding = c.sliding
      /\ n.indicator = c.indicator /\ n.hovered = c.hovered /\ n.interval = FALSE
  BY <1>1, <1>2 DEF CarouselStates
<1> HIDE DEF n
<1>5. QED
  BY <1>3, <1>4, SameCarousel

LEMMA SlideKeeps ==
    ASSUME NEW c, CarouselInv(c), ~c.sliding, NEW next \in Slides!Items
    PROVE  CarouselInv(Slides!Slide(c, next))
<1> DEFINE n == [c EXCEPT !.indicator = next]
           moving == [n EXCEPT !.sliding = TRUE,
                               !.due = Append(@, [from |-> c.active, to |-> next])]
           moved == [n EXCEPT !.active = {next}, !.sliding = FALSE]
           stays == [c EXCEPT !.sliding = FALSE]
           m == [moving EXCEPT !.paused = @ /\ ~c.interval]
           d == [moved EXCEPT !.paused = @ /\ ~c.interval]
<1>1. PICK a \in Slides!Items : c.active = {a} /\ c.due = <<>> /\ c.indicator = a
  BY DEF CarouselInv, Rolling
<1>2. c \in CarouselStates
  BY DEF CarouselInv, Rolling
<1>3. CASE next \in c.active
  <2>1. /\ stays \in CarouselStates
        /\ stays.active = c.active /\ stays.due = c.due /\ stays.sliding = c.sliding
        /\ stays.indicator = c.indicator /\ stays.interval = c.interval
        /\ stays.hovered = c.hovered /\ stays.restarted = c.restarted
    BY <1>2 DEF CarouselStates
  <2>2. Slides!Slide(c, next) = stays
    BY <1>3 DEF Slides!Slide
  <2> HIDE DEF stays
  <2>3. QED
    BY <2>1, <2>2, SameCarousel DEF CarouselInv
<1>4. CASE next \notin c.active /\ c.animated
  <2>1. Slides!Slide(c, next) = m
    BY <1>4 DEF Slides!Slide
  <2>2. /\ n \in CarouselStates /\ n.active = c.active /\ n.due = c.due
        /\ n.indicator = next /\ n.interval = c.interval /\ n.hovered = c.hovered
        /\ n.restarted = c.restarted /\ n.paused = c.paused
    BY <1>2 DEF CarouselStates
  <2> HIDE DEF n
  <2>3. [from |-> {a}, to |-> next] \in [from : SUBSET Slides!Items, to : Slides!Items]
    OBVIOUS
  <2> DEFINE due == Append(<<>>, [from |-> {a}, to |-> next])
  <2>7. /\ due \in Seq([from : SUBSET Slides!Items, to : Slides!Items])
        /\ due = <<[from |-> {a}, to |-> next]>>
    BY <2>3
  <2>8. moving = [n EXCEPT !.sliding = TRUE, !.due = due]
    BY <1>1, <2>2 DEF CarouselStates
  <2> HIDE DEF due
  <2>4. /\ moving \in CarouselStates /\ moving.active = {a}
        /\ moving.due = <<[from |-> {a}, to |-> next]>> /\ moving.sliding
        /\ moving.indicator = next /\ moving.interval = c.interval
        /\ moving.hovered = c.hovered /\ moving.restarted = c.restarted
    BY <1>1, <2>2, <2>7, <2>8 DEF CarouselStates
  <2> HIDE DEF moving
  <2>5. /\ m \in CarouselStates /\ m.active = {a}
        /\ m.due = <<[from |-> {a}, to |-> next]>> /\ m.sliding
        /\ m.indicator = next /\ m.interval = c.interval
        /\ m.hovered = c.hovered /\ m.restarted = c.restarted
    BY <1>2, <2>4 DEF CarouselStates
  <2> HIDE DEF m
  <2>6. QED
    BY <1>1, <1>4, <2>1, <2>5 DEF CarouselInv, Rolling
<1>5. CASE next \notin c.active /\ ~c.animated
  <2>1. Slides!Slide(c, next) = d
    BY <1>5 DEF Slides!Slide
  <2>2. /\ n \in CarouselStates /\ n.due = c.due
        /\ n.indicator = next /\ n.interval = c.interval /\ n.hovered = c.hovered
        /\ n.restarted = c.restarted
    BY <1>2 DEF CarouselStates
  <2> HIDE DEF n
  <2>3. /\ moved \in CarouselStates /\ moved.active = {next} /\ moved.due = <<>>
        /\ ~moved.sliding /\ moved.indicator = next /\ moved.interval = c.interval
        /\ moved.hovered = c.hovered /\ moved.restarted = c.restarted
    BY <1>1, <2>2 DEF CarouselStates
  <2> HIDE DEF moved
  <2>4. /\ d \in CarouselStates /\ d.active = {next} /\ d.due = <<>>
        /\ ~d.sliding /\ d.indicator = next /\ d.interval = c.interval
        /\ d.hovered = c.hovered /\ d.restarted = c.restarted
    BY <1>2, <2>3 DEF CarouselStates
  <2> HIDE DEF d
  <2>5. QED
    BY <2>1, <2>4 DEF CarouselInv, Rolling
<1>6. QED
  BY <1>3, <1>4, <1>5

LEMMA ToKeeps ==
    ASSUME NEW c, CarouselInv(c), NEW pos \in Slides!Items
    PROVE  CarouselInv(Slides!To(c, pos))
<1> DEFINE queued == Append(c.queued, pos)
           n == [c EXCEPT !.queued = queued]
<1>1. c \in CarouselStates
  BY DEF CarouselInv, Rolling
<1>2. CASE c.sliding
  <2>1. /\ n \in CarouselStates
        /\ n.active = c.active /\ n.due = c.due /\ n.sliding = c.sliding
        /\ n.indicator = c.indicator /\ n.interval = c.interval /\ n.hovered = c.hovered
        /\ n.restarted = c.restarted
    <3>1. queued \in Seq(Slides!Items)
      BY <1>1 DEF CarouselStates
    <3> HIDE DEF queued
    <3>2. QED
      BY <1>1, <3>1 DEF CarouselStates
  <2>2. Slides!To(c, pos) = n
    BY <1>1, <1>2 DEF Slides!To, CarouselStates
  <2> HIDE DEF n
  <2>3. QED
    BY <2>1, <2>2, SameCarousel DEF CarouselInv
<1>3. CASE ~c.sliding /\ c.active = {pos}
  <2>1. Slides!To(c, pos) = Slides!Cycle(Slides!Pause(c, FALSE), FALSE)
    BY <1>3 DEF Slides!To
  <2>2. QED
    BY <2>1, PauseKeeps, CycleKeeps
<1>4. CASE ~c.sliding /\ c.active # {pos}
  <2>1. Slides!To(c, pos) = Slides!Slide(c, pos)
    BY <1>4 DEF Slides!To
  <2>2. QED
    BY <1>4, <2>1, SlideKeeps
<1>5. QED
  BY <1>2, <1>3, <1>4

LEMMA MoveKeeps ==
    ASSUME NEW c, CarouselInv(c), NEW direction \in {"prev", "next"}
    PROVE  CarouselInv(Slides!Move(c, direction))
<1>1. ASSUME ~c.sliding
      PROVE  Slides!getItemForDirection(c, direction) \in Slides!Items
  <2>1. PICK a \in Slides!Items : c.active = {a}
    BY DEF CarouselInv, Rolling
  <2>2. a \in 0 .. LastSlide /\ LastSlide \in Nat
    BY SlideAssumption DEF Slides!Items
  <2>3. Slides!Min(c.active) = a
    BY <2>1, <2>2 DEF Slides!Min
  <2> DEFINE i == Slides!getItemForDirection(c, direction)
  <2>4. \/ i \in {0, LastSlide, a}
        \/ i = a - 1 /\ a # 0
        \/ i = a + 1 /\ a # LastSlide
    <3>1. CASE direction = "prev"
      BY <2>2, <2>3, <3>1 DEF Slides!getItemForDirection
    <3>2. CASE direction = "next"
      BY <2>2, <2>3, <3>2 DEF Slides!getItemForDirection
    <3>3. QED
      BY <3>1, <3>2
  <2> HIDE DEF i
  <2>5. i \in 0 .. LastSlide
    BY <2>2, <2>4
  <2>6. QED
    BY <2>5 DEF Slides!Items, i
<1>2. QED
  BY <1>1, SlideKeeps DEF Slides!Move

LEMMA MadeKeeps ==
    ASSUME NEW c, CarouselInv(c), NEW option \in BOOLEAN
    PROVE  CarouselInv(Slides!Made(c, option)) /\ Slides!Made(c, option).hovered = c.hovered
<1> DEFINE n == [c EXCEPT !.made = TRUE, !.option = option]
<1>1. /\ n \in CarouselStates
      /\ n.active = c.active /\ n.due = c.due /\ n.sliding = c.sliding
      /\ n.indicator = c.indicator /\ n.interval = c.interval /\ n.hovered = c.hovered
      /\ n.restarted = c.restarted
  BY DEF CarouselInv, Rolling, CarouselStates
<1> HIDE DEF n
<1>2. CarouselInv(n)
  BY <1>1, SameCarousel DEF CarouselInv
<1>3. QED
  BY <1>1, <1>2 DEF Slides!Made, n

LEMMA CarouselInit ==
    ASSUME Slides!Init
    PROVE  CarouselInv(page)
<1>1. 0 \in Slides!Items
  BY SlideAssumption DEF Slides!Items
<1>2. /\ page.active = {0} /\ page.due = <<>> /\ page.sliding = FALSE /\ page.indicator = 0
      /\ page.interval = FALSE
  BY DEF Slides!Init
<1>3. /\ {0} \in SUBSET Slides!Items /\ 0 \in 0 .. 2 /\ <<>> \in Seq(Slides!Items)
      /\ <<>> \in Seq([from : SUBSET Slides!Items, to : Slides!Items])
  BY <1>1
<1>5. page \in CarouselStates
  BY <1>1, <1>3 DEF Slides!Init, CarouselStates
<1>4. QED
  BY <1>1, <1>2, <1>5 DEF CarouselInv, Rolling

LEMMA CarouselNext ==
    ASSUME CarouselInv(page), Slides!Next
    PROVE  CarouselInv(page')
<1>1. page \in CarouselStates
  BY DEF CarouselInv, Rolling
<1>2. ASSUME NEW direction \in {"prev", "next"}, Slides!Control(direction) \/ Slides!Keydown(direction)
      PROVE  CarouselInv(page')
  BY <1>2, MadeKeeps, MoveKeeps DEF Slides!Control, Slides!Keydown
<1>3. ASSUME NEW pos \in Slides!Items, Slides!Indicator(pos)
      PROVE  CarouselInv(page')
  BY <1>3, MadeKeeps, ToKeeps DEF Slides!Indicator
<1>4. CASE Slides!Plugin
  BY <1>4, MadeKeeps, PauseKeeps, CycleKeeps DEF Slides!Plugin
<1>5. CASE Slides!Tick
  BY <1>5, MoveKeeps DEF Slides!Tick
<1>6. CASE Slides!MouseEnter
  <2> DEFINE restarted == ~page.made
             c == [page EXCEPT !.hovered = TRUE, !.restarted = restarted]
  <2>1. restarted \in BOOLEAN
    OBVIOUS
  <2>2. page' = IF c.made THEN Slides!Pause(c, TRUE) ELSE c
    BY <1>6 DEF Slides!MouseEnter
  <2> DEFINE p == [c EXCEPT !.interval = FALSE]
  <2>3. c.made = page.made /\ (restarted <=> ~page.made)
    BY <1>1 DEF CarouselStates
  <2> HIDE DEF restarted
  <2>4. /\ c \in CarouselStates
        /\ c.active = page.active /\ c.due = page.due /\ c.sliding = page.sliding
        /\ c.indicator = page.indicator /\ c.restarted = restarted
    BY <1>1, <2>1 DEF CarouselStates
  <2> HIDE DEF c
  <2>5. CASE page.made
    <3>1. /\ p \in CarouselStates
          /\ p.active = page.active /\ p.due = page.due /\ p.sliding = page.sliding
          /\ p.indicator = page.indicator /\ p.interval = FALSE
      BY <2>4 DEF CarouselStates
    <3>2. Slides!Pause(c, TRUE) = p
      <4>1. [c EXCEPT !.paused = @ \/ FALSE] = c
        BY <2>4 DEF CarouselStates
      <4>2. QED
        BY <2>4, <4>1 DEF Slides!Pause, CarouselStates
    <3>3. page' = p
      BY <2>2, <2>3, <2>5, <3>2
    <3> HIDE DEF p
    <3>4. QED
      BY <3>1, <3>3, SameCarousel
  <2>6. CASE ~page.made
    <3>1. page' = c /\ c.restarted
      BY <2>2, <2>3, <2>4, <2>6
    <3>2. QED
      BY <2>4, <3>1, SameCarousel
  <2>7. QED
    BY <2>5, <2>6
<1>7. CASE Slides!MouseLeave
  <2> DEFINE c == [page EXCEPT !.hovered = FALSE, !.restarted = FALSE]
  <2>1. page' = IF c.made THEN Slides!Cycle(c, TRUE) ELSE c
    BY <1>7 DEF Slides!MouseLeave
  <2>2. /\ c \in CarouselStates
        /\ c.active = page.active /\ c.due = page.due /\ c.sliding = page.sliding
        /\ c.indicator = page.indicator /\ ~c.hovered
    BY <1>1 DEF CarouselStates
  <2> HIDE DEF c
  <2>3. CarouselInv(c)
    BY <2>2, SameCarousel
  <2>4. QED
    BY <2>1, <2>2, <2>3, CycleKeeps
<1>8. CASE Slides!CallPause
  BY <1>8, PauseKeeps DEF Slides!CallPause
<1>9. CASE Slides!CallCycle
  BY <1>9, CycleKeeps DEF Slides!CallCycle
<1>10. CASE Slides!TransitionEnd
  <2> DEFINE slide == Head(page.due)
             active == (page.active \ slide.from) \cup {slide.to}
             due == Tail(page.due)
             slid == page.slid + 1
             n == [page EXCEPT !.active = active, !.sliding = FALSE, !.due = due, !.slid = slid]
  <2>1. page' = n /\ page.due # <<>> /\ page.slid < 2
    BY <1>1, <1>10 DEF Slides!TransitionEnd, Slides!Room, CarouselStates
  <2>2. PICK a \in Slides!Items, t \in Slides!Items :
          /\ page.active = {a} /\ page.due = <<[from |-> {a}, to |-> t]>> /\ page.indicator = t
    BY <2>1 DEF CarouselInv, Rolling
  <2>3. active = {t} /\ due = <<>>
    BY <2>2
  <2>4. slid \in 0 .. 2
    BY <1>1, <2>1 DEF CarouselStates
  <2> HIDE DEF active, due, slid
  <2>5. active \in SUBSET Slides!Items
        /\ due \in Seq([from : SUBSET Slides!Items, to : Slides!Items])
    BY <2>3
  <2>6. /\ n \in CarouselStates
        /\ n.active = {t} /\ n.due = <<>> /\ n.sliding = FALSE /\ n.indicator = t
        /\ n.interval = page.interval /\ n.hovered = page.hovered
        /\ n.restarted = page.restarted
    BY <1>1, <2>2, <2>3, <2>4, <2>5 DEF CarouselStates
  <2> HIDE DEF n
  <2>7. QED
    BY <2>1, <2>6 DEF CarouselInv, Rolling
<1>11. CASE Slides!Slid
  <2> DEFINE slid == page.slid - 1
             none == <<>>
             n == [page EXCEPT !.slid = slid, !.queued = none]
             Good == {c \in CarouselStates : CarouselInv(c)}
  <2>1. page' = Slides!Slids!Fire(n, page.queued) /\ page.slid > 0
    BY <1>1, <1>11 DEF Slides!Slid, CarouselStates
  <2>2. slid \in 0 .. 2 /\ none \in Seq(Slides!Items) /\ page.queued \in Seq(Slides!Items)
    BY <1>1, <2>1 DEF CarouselStates
  <2> HIDE DEF slid, none
  <2>3. /\ n \in CarouselStates
        /\ n.active = page.active /\ n.due = page.due /\ n.sliding = page.sliding
        /\ n.indicator = page.indicator /\ n.interval = page.interval
        /\ n.hovered = page.hovered /\ n.restarted = page.restarted
    BY <1>1, <2>2 DEF CarouselStates
  <2> HIDE DEF n
  <2>4. n \in Good
    BY <2>3, SameCarousel DEF CarouselInv
  <2>5. \A c \in Good, i \in 1 .. Len(page.queued) : Slides!To(c, page.queued[i]) \in Good
    <3>1. \A i \in 1 .. Len(page.queued) : page.queued[i] \in Slides!Items
      BY <2>2
    <3>2. \A c : CarouselInv(c) => c \in CarouselStates
      BY DEF CarouselInv, Rolling
    <3>3. QED
      BY <3>1, <3>2, ToKeeps
  <2>6. Len(page.queued) \in Nat
    BY <2>2
  <2> HIDE DEF Good
  <2>7. Slides!Slids!Fire(n, page.queued) \in Good
    BY <2>4, <2>5, <2>6, Slides!Slids!FireKeeps
  <2>8. QED
    BY <2>1, <2>7 DEF Good
<1>12. QED
  BY <1>2, <1>3, <1>4, <1>5, <1>6, <1>7, <1>8, <1>9, <1>10, <1>11 DEF Slides!Next

LEMMA CarouselKept == BrowserSpec => [](part = "carousel" => CarouselInv(page))
<1>1. BrowserInit => (part = "carousel" => CarouselInv(page))
  BY PartInit, CarouselInit
<1>2. (part = "carousel" => CarouselInv(page)) /\ [BrowserNext]_browser
        => (part = "carousel" => CarouselInv(page))'
  BY PartNext, CarouselNext
<1>3. QED
  BY <1>1, <1>2, PTL DEF BrowserSpec

\* One item is active, the indicators show it or the one that slides in, and the
\* pointer stops the carousel.
THEOREM CarouselStaysAgreed == BrowserSpec => []CarouselAgrees
<1>1. (part = "carousel" => CarouselInv(page)) => CarouselAgrees
  <2> SUFFICES ASSUME CarouselInv(page)
               PROVE  Slides!CarouselAgrees
    BY DEF CarouselAgrees
  <2>1. PICK a \in Slides!Items :
          /\ page.active = {a}
          /\ \/ page.due = <<>> /\ ~page.sliding /\ page.indicator = a
             \/ /\ page.sliding
                /\ \E t \in Slides!Items :
                      page.due = <<[from |-> {a}, to |-> t]>> /\ page.indicator = t
    BY DEF CarouselInv, Rolling
  <2>2. page \in CarouselStates
    BY DEF CarouselInv, Rolling
  <2>3. Slides!Cardinality(page.active) = 1
    <3>1. Cardinality({a}) = 1
      BY FS_Singleton
    <3>2. Slides!Cardinality({a}) = Cardinality({a})
      BY DEF Slides!Cardinality, Cardinality
    <3>3. QED
      BY <2>1, <3>1, <3>2
  <2>4. Slides!Min(page.active) = a
    <3>1. a \in Int
      BY SlideAssumption DEF Slides!Items
    <3>2. QED
      BY <2>1, <3>1 DEF Slides!Min
  <2>5. page.interval => ~page.hovered \/ page.restarted
    BY DEF CarouselInv
  <2>6. page.sliding = (page.due # <<>>)
    <3>1. page.sliding <=> page.due # <<>>
      <4>1. \A slide : <<slide>> # <<>>
        OBVIOUS
      <4>2. QED
        BY <2>1, <4>1, Zenon
    <3>2. page.sliding \in BOOLEAN
      BY <2>2 DEF CarouselStates
    <3>3. QED
      BY <3>1, <3>2
  <2>7. page.sliding => page.due[Len(page.due)].to = page.indicator
    <3>1. SUFFICES ASSUME page.sliding
                   PROVE  page.due[Len(page.due)].to = page.indicator
      OBVIOUS
    <3>2. PICK t : page.due = <<[from |-> {a}, to |-> t]>> /\ page.indicator = t
      BY <2>1, <3>1
    <3>3. Len(page.due) = 1 /\ page.due[1] = [from |-> {a}, to |-> t]
      BY <3>2
    <3>4. QED
      BY <3>2, <3>3
  <2>8. page.sliding \/ page.indicator = a
    BY <2>1
  <2>9. QED
    BY <2>3, <2>4, <2>5, <2>6, <2>7, <2>8 DEF Slides!CarouselAgrees
<1>2. QED
  BY CarouselKept, <1>1, PTL

(***************************************************************************)
(* Panels.                                                                  *)
(***************************************************************************)
PanelStates == [
      parent : BOOLEAN, scripted : BOOLEAN, class : [Panels -> Accordion!Classes],
      collapsed : [Panels -> BOOLEAN], data : [Panels -> {"none", "idle", "transitioning"}],
      grouped : [Panels -> BOOLEAN], due : [Panels -> Seq(Accordion!Due)], hurried : BOOLEAN]

SamePage(s, n) == n.parent = s.parent /\ n.scripted = s.scripted /\ n.hurried = s.hurried

SamePanel(s, n, q) ==
    /\ n.class[q] = s.class[q] /\ n.collapsed[q] = s.collapsed[q]
    /\ n.data[q] = s.data[q] /\ n.due[q] = s.due[q]

Waits(q, what, live) == [panel |-> q, what |-> what, live |-> live]

LEMMA AppendIn ==
    ASSUME NEW D, NEW list \in Seq(D), NEW x \in D
    PROVE  Append(list, x) \in Seq(D)
OBVIOUS

LEMMA NotEmpty ==
    ASSUME NEW D, NEW list \in Seq(D), list # <<>>
    PROVE  1 \in DOMAIN list
OBVIOUS

(* What the methods do to one panel.                                        *)

LEMMA WaitsDue ==
    ASSUME NEW q \in Panels, NEW what \in {"shown", "hidden"}, NEW live \in BOOLEAN
    PROVE  Waits(q, what, live) \in Accordion!Due
BY DEF Waits, Accordion!Due

LEMMA HideIs ==
    ASSUME NEW s \in PanelStates, NEW ps \in SUBSET Panels
    PROVE  LET n == Accordion!Hide(s, ps) IN
           /\ n \in PanelStates /\ SamePage(s, n) /\ n.grouped = s.grouped
           /\ \A q \in Panels :
                 IF q \in ps /\ s.data[q] # "transitioning" /\ s.class[q] = "in"
                 THEN /\ n.class[q] = "collapsing" /\ n.collapsed[q] = TRUE
                      /\ n.data[q] = "transitioning"
                      /\ n.due[q] = Append(s.due[q], Waits(q, "hidden", TRUE))
                 ELSE SamePanel(s, n, q)
<1> DEFINE closing == {p \in ps : s.data[p] # "transitioning" /\ s.class[p] = "in"}
           class == [p \in Panels |-> IF p \in closing THEN "collapsing" ELSE s.class[p]]
           collapsed == [p \in Panels |-> p \in closing \/ s.collapsed[p]]
           data == [p \in Panels |-> IF p \in closing THEN "transitioning" ELSE s.data[p]]
           due == [p \in Panels |-> IF p \in closing
                                    THEN Append(s.due[p], Waits(p, "hidden", TRUE)) ELSE s.due[p]]
           n == [s EXCEPT !.class = class, !.collapsed = collapsed, !.data = data, !.due = due]
<1>1. /\ s.class \in [Panels -> Accordion!Classes] /\ s.collapsed \in [Panels -> BOOLEAN]
      /\ s.data \in [Panels -> {"none", "idle", "transitioning"}]
      /\ s.due \in [Panels -> Seq(Accordion!Due)]
  BY DEF PanelStates
<1>2. Accordion!Hide(s, ps) = n
  BY DEF Accordion!Hide, Waits, PanelStates
<1>3. class \in [Panels -> Accordion!Classes] /\ data \in [Panels -> {"none", "idle", "transitioning"}]
  BY <1>1 DEF Accordion!Classes
<1>4. collapsed \in [Panels -> BOOLEAN]
  BY <1>1
<1>5. due \in [Panels -> Seq(Accordion!Due)]
  <2>1. \A p \in Panels : Waits(p, "hidden", TRUE) \in Accordion!Due
    BY WaitsDue
  <2>2. \A p \in Panels : s.due[p] \in Seq(Accordion!Due)
    BY <1>1
  <2>3. \A p \in Panels : Append(s.due[p], Waits(p, "hidden", TRUE)) \in Seq(Accordion!Due)
    BY <2>1, <2>2, AppendIn
  <2>4. QED
    BY <2>2, <2>3
<1>6. \A q \in Panels :
         IF q \in closing
         THEN /\ class[q] = "collapsing" /\ collapsed[q] = TRUE /\ data[q] = "transitioning"
              /\ due[q] = Append(s.due[q], Waits(q, "hidden", TRUE))
         ELSE class[q] = s.class[q] /\ collapsed[q] = s.collapsed[q] /\ data[q] = s.data[q]
              /\ due[q] = s.due[q]
  BY <1>1
<1> HIDE DEF class, collapsed, data, due
<1>7. /\ n \in PanelStates /\ SamePage(s, n) /\ n.grouped = s.grouped
      /\ n.class = class /\ n.collapsed = collapsed /\ n.data = data /\ n.due = due
  BY <1>3, <1>4, <1>5 DEF PanelStates, SamePage
<1> HIDE DEF n
<1>8. QED
  BY <1>2, <1>6, <1>7 DEF SamePanel

LEMMA MadeIs ==
    ASSUME NEW s \in PanelStates, NEW ps \in SUBSET Panels, NEW grouped \in BOOLEAN
    PROVE  LET n == Accordion!Made(s, ps, grouped) IN
           /\ n \in PanelStates /\ SamePage(s, n) /\ n.class = s.class /\ n.due = s.due
           /\ \A q \in Panels :
                 /\ n.data[q] = IF q \in ps THEN "idle" ELSE s.data[q]
                 /\ n.grouped[q] = IF q \in ps THEN grouped ELSE s.grouped[q]
                 /\ n.collapsed[q] = IF grouped \/ q \in ps THEN s.class[q] # "in"
                                     ELSE s.collapsed[q]
<1> DEFINE qs == IF grouped THEN Panels ELSE ps
           data == [p \in Panels |-> IF p \in ps THEN "idle" ELSE s.data[p]]
           group == [p \in Panels |-> IF p \in ps THEN grouped ELSE s.grouped[p]]
           collapsed == [p \in Panels |-> IF p \in qs THEN s.class[p] # "in" ELSE s.collapsed[p]]
           n == [s EXCEPT !.data = data, !.grouped = group, !.collapsed = collapsed]
<1>1. /\ s.class \in [Panels -> Accordion!Classes] /\ s.collapsed \in [Panels -> BOOLEAN]
      /\ s.data \in [Panels -> {"none", "idle", "transitioning"}]
      /\ s.grouped \in [Panels -> BOOLEAN]
  BY DEF PanelStates
<1>2. Accordion!Made(s, ps, grouped) = n
  BY DEF Accordion!Made, PanelStates
<1>3. /\ data \in [Panels -> {"none", "idle", "transitioning"}]
      /\ group \in [Panels -> BOOLEAN] /\ collapsed \in [Panels -> BOOLEAN]
  BY <1>1
<1>4. \A q \in Panels :
         /\ data[q] = IF q \in ps THEN "idle" ELSE s.data[q]
         /\ group[q] = IF q \in ps THEN grouped ELSE s.grouped[q]
         /\ collapsed[q] = IF grouped \/ q \in ps THEN s.class[q] # "in" ELSE s.collapsed[q]
  BY <1>1
<1> HIDE DEF data, group, collapsed
<1>5. /\ n \in PanelStates /\ SamePage(s, n) /\ n.class = s.class /\ n.due = s.due
      /\ n.data = data /\ n.grouped = group /\ n.collapsed = collapsed
  BY <1>3 DEF PanelStates, SamePage
<1> HIDE DEF n
<1>6. QED
  BY <1>2, <1>4, <1>5

LEMMA DropIs ==
    ASSUME NEW s \in PanelStates, NEW ps \in SUBSET Panels
    PROVE  LET n == Accordion!Drop(s, ps) IN
           /\ n \in PanelStates /\ SamePage(s, n) /\ n.class = s.class
           /\ n.collapsed = s.collapsed /\ n.grouped = s.grouped
           /\ \A q \in Panels :
                 /\ n.data[q] = IF q \in ps THEN "none" ELSE s.data[q]
                 /\ n.due[q] = IF q \in ps
                               THEN [i \in DOMAIN s.due[q] |-> [s.due[q][i] EXCEPT !.live = FALSE]]
                               ELSE s.due[q]
<1> DEFINE data == [p \in Panels |-> IF p \in ps THEN "none" ELSE s.data[p]]
           dead(p) == [i \in DOMAIN s.due[p] |-> [s.due[p][i] EXCEPT !.live = FALSE]]
           due == [p \in Panels |-> IF p \in ps THEN dead(p) ELSE s.due[p]]
           n == [s EXCEPT !.data = data, !.due = due]
<1>1. /\ s.data \in [Panels -> {"none", "idle", "transitioning"}]
      /\ s.due \in [Panels -> Seq(Accordion!Due)]
  BY DEF PanelStates
<1>2. Accordion!Drop(s, ps) = n
  BY DEF Accordion!Drop, PanelStates
<1>3. data \in [Panels -> {"none", "idle", "transitioning"}]
  BY <1>1
<1>4. due \in [Panels -> Seq(Accordion!Due)]
  <2>1. ASSUME NEW p \in Panels
        PROVE  dead(p) \in Seq(Accordion!Due)
    <3>1. s.due[p] \in Seq(Accordion!Due)
      BY <1>1
    <3>2. DOMAIN s.due[p] = 1 .. Len(s.due[p]) /\ Len(s.due[p]) \in Nat
      BY <3>1
    <3>3. \A i \in DOMAIN s.due[p] : s.due[p][i] \in Accordion!Due
      BY <3>1
    <3>4. \A x \in Accordion!Due : [x EXCEPT !.live = FALSE] \in Accordion!Due
      BY DEF Accordion!Due
    <3>5. \A i \in 1 .. Len(s.due[p]) : [s.due[p][i] EXCEPT !.live = FALSE] \in Accordion!Due
      BY <3>2, <3>3, <3>4
    <3>6. QED
      BY <3>2, <3>5
  <2> HIDE DEF dead
  <2>2. QED
    BY <1>1, <2>1
<1>5. \A q \in Panels :
         /\ data[q] = IF q \in ps THEN "none" ELSE s.data[q]
         /\ due[q] = IF q \in ps THEN dead(q) ELSE s.due[q]
  BY <1>1
<1> HIDE DEF data, due
<1>6. /\ n \in PanelStates /\ SamePage(s, n) /\ n.class = s.class
      /\ n.collapsed = s.collapsed /\ n.grouped = s.grouped /\ n.data = data /\ n.due = due
  BY <1>3, <1>4 DEF PanelStates, SamePage
<1> HIDE DEF n
<1>7. QED
  BY <1>2, <1>5, <1>6

LEMMA OpenIs ==
    ASSUME NEW s \in PanelStates, NEW p \in Panels
    PROVE  LET n == Accordion!Open(s, p) IN
           /\ n \in PanelStates /\ SamePage(s, n) /\ n.grouped = s.grouped
           /\ n.class[p] = "collapsing" /\ n.collapsed[p] = FALSE /\ n.data[p] = "transitioning"
           /\ n.due[p] = Append(s.due[p], Waits(p, "shown", TRUE))
           /\ \A q \in Panels \ {p} : SamePanel(s, n, q)
<1> DEFINE class == [s.class EXCEPT ![p] = "collapsing"]
           collapsed == [s.collapsed EXCEPT ![p] = FALSE]
           data == [s.data EXCEPT ![p] = "transitioning"]
           due == [s.due EXCEPT ![p] = Append(@, Waits(p, "shown", TRUE))]
           n == [s EXCEPT !.class = class, !.collapsed = collapsed, !.data = data, !.due = due]
<1>1. /\ s.class \in [Panels -> Accordion!Classes] /\ s.collapsed \in [Panels -> BOOLEAN]
      /\ s.data \in [Panels -> {"none", "idle", "transitioning"}]
      /\ s.due \in [Panels -> Seq(Accordion!Due)]
  BY DEF PanelStates
<1>2. Accordion!Open(s, p) = n
  BY DEF Accordion!Open, Waits, PanelStates
<1>3. /\ class \in [Panels -> Accordion!Classes] /\ collapsed \in [Panels -> BOOLEAN]
      /\ data \in [Panels -> {"none", "idle", "transitioning"}]
  BY <1>1 DEF Accordion!Classes
<1>4. due \in [Panels -> Seq(Accordion!Due)]
  <2>1. Waits(p, "shown", TRUE) \in Accordion!Due
    BY WaitsDue
  <2>2. s.due[p] \in Seq(Accordion!Due)
    BY <1>1
  <2>3. Append(s.due[p], Waits(p, "shown", TRUE)) \in Seq(Accordion!Due)
    BY <2>1, <2>2, AppendIn
  <2>4. QED
    BY <1>1, <2>3
<1>5. /\ class[p] = "collapsing" /\ collapsed[p] = FALSE /\ data[p] = "transitioning"
      /\ due[p] = Append(s.due[p], Waits(p, "shown", TRUE))
      /\ \A q \in Panels \ {p} : /\ class[q] = s.class[q] /\ collapsed[q] = s.collapsed[q]
                                 /\ data[q] = s.data[q] /\ due[q] = s.due[q]
  BY <1>1
<1> HIDE DEF class, collapsed, data, due
<1>6. /\ n \in PanelStates /\ SamePage(s, n) /\ n.grouped = s.grouped
      /\ n.class = class /\ n.collapsed = collapsed /\ n.data = data /\ n.due = due
  BY <1>3, <1>4 DEF PanelStates, SamePage
<1> HIDE DEF n
<1>7. QED
  BY <1>2, <1>5, <1>6 DEF SamePanel

(* No panel is left half open: a callback waits for each that moves, one that its *)
(* object will hear if the panel has it still.                                    *)

Watched(s, q) ==
    /\ \A i \in DOMAIN s.due[q] : s.due[q][i].panel = q
    /\ s.class[q] = "collapsing" => s.due[q] # <<>>
    /\ s.data[q] = "transitioning" => \E i \in DOMAIN s.due[q] : s.due[q][i].live

PanelsSafe(s) == s \in PanelStates /\ \A q \in Panels : Watched(s, q)

LEMMA SameWatched ==
    ASSUME NEW s, NEW n, NEW q, Watched(s, q), SamePanel(s, n, q)
    PROVE  Watched(n, q)
BY DEF Watched, SamePanel

LEMMA AppendWatched ==
    ASSUME NEW s \in PanelStates, NEW n, NEW q \in Panels, Watched(s, q),
           NEW what \in {"shown", "hidden"}, n.due[q] = Append(s.due[q], Waits(q, what, TRUE))
    PROVE  Watched(n, q)
<1> DEFINE list == s.due[q]
           w == Waits(q, what, TRUE)
           longer == Append(list, w)
<1>1. list \in Seq(Accordion!Due) /\ \A i \in DOMAIN list : list[i].panel = q
  BY DEF PanelStates, Watched
<1>2. w \in Accordion!Due /\ w.panel = q /\ w.live
  BY WaitsDue DEF Waits
<1>3. n.due[q] = longer
  OBVIOUS
<1> HIDE DEF list, w
<1>4. /\ DOMAIN longer = 1 .. Len(list) + 1 /\ Len(list) \in Nat /\ longer # <<>>
      /\ longer[Len(list) + 1] = w
      /\ \A i \in 1 .. Len(list) : longer[i] = list[i] /\ i \in DOMAIN list
  BY <1>1, <1>2
<1> HIDE DEF longer
<1>5. /\ \A i \in DOMAIN longer : longer[i].panel = q
      /\ \E i \in DOMAIN longer : longer[i].live
  <2>1. Len(list) + 1 \in DOMAIN longer
    BY <1>4
  <2>2. ASSUME NEW i \in DOMAIN longer
        PROVE  longer[i].panel = q
    BY <1>1, <1>2, <1>4
  <2>3. QED
    BY <1>2, <1>4, <2>1, <2>2
<1>6. QED
  BY <1>3, <1>4, <1>5 DEF Watched

LEMMA HideSafe ==
    ASSUME NEW s, PanelsSafe(s), NEW ps \in SUBSET Panels
    PROVE  PanelsSafe(Accordion!Hide(s, ps))
<1> DEFINE n == Accordion!Hide(s, ps)
<1>1. s \in PanelStates /\ \A q \in Panels : Watched(s, q)
  BY DEF PanelsSafe
<1>2. /\ n \in PanelStates
      /\ \A q \in Panels : \/ n.due[q] = Append(s.due[q], Waits(q, "hidden", TRUE))
                           \/ SamePanel(s, n, q)
  BY <1>1, HideIs
<1> HIDE DEF n
<1>3. \A q \in Panels : Watched(n, q)
  BY <1>1, <1>2, SameWatched, AppendWatched
<1>4. QED
  BY <1>2, <1>3 DEF PanelsSafe, n

LEMMA MadeSafe ==
    ASSUME NEW s, PanelsSafe(s), NEW ps \in SUBSET Panels, NEW grouped \in BOOLEAN
    PROVE  PanelsSafe(Accordion!Made(s, ps, grouped))
<1> DEFINE n == Accordion!Made(s, ps, grouped)
<1>1. s \in PanelStates /\ \A q \in Panels : Watched(s, q)
  BY DEF PanelsSafe
<1>2. /\ n \in PanelStates /\ n.class = s.class /\ n.due = s.due
      /\ \A q \in Panels : n.data[q] = "idle" \/ n.data[q] = s.data[q]
  BY <1>1, MadeIs
<1> HIDE DEF n
<1>3. \A q \in Panels : Watched(n, q)
  BY <1>1, <1>2 DEF Watched
<1>4. QED
  BY <1>2, <1>3 DEF PanelsSafe, n

LEMMA DropSafe ==
    ASSUME NEW s, PanelsSafe(s), NEW ps \in SUBSET Panels
    PROVE  PanelsSafe(Accordion!Drop(s, ps))
<1> DEFINE n == Accordion!Drop(s, ps)
           dead(q) == [i \in DOMAIN s.due[q] |-> [s.due[q][i] EXCEPT !.live = FALSE]]
<1>1. s \in PanelStates /\ \A q \in Panels : Watched(s, q)
  BY DEF PanelsSafe
<1>2. /\ n \in PanelStates /\ n.class = s.class
      /\ \A q \in Panels : /\ n.data[q] = IF q \in ps THEN "none" ELSE s.data[q]
                           /\ n.due[q] = IF q \in ps THEN dead(q) ELSE s.due[q]
  BY <1>1, DropIs
<1> HIDE DEF n
<1>3. ASSUME NEW q \in Panels
      PROVE  Watched(n, q)
  <2>1. CASE q \notin ps
    <3>1. n.due[q] = s.due[q] /\ n.data[q] = s.data[q] /\ n.class[q] = s.class[q]
      BY <1>2, <2>1
    <3> HIDE DEF dead
    <3>2. QED
      BY <1>1, <3>1 DEF Watched
  <2>2. CASE q \in ps
    <3>1. s.due[q] \in Seq(Accordion!Due)
      BY <1>1 DEF PanelStates
    <3>2. DOMAIN dead(q) = DOMAIN s.due[q]
      OBVIOUS
    <3>3. \A i \in DOMAIN s.due[q] : dead(q)[i].panel = q
      <4>1. \A i \in DOMAIN s.due[q] : s.due[q][i] \in Accordion!Due /\ s.due[q][i].panel = q
        BY <1>1, <3>1 DEF Watched
      <4>2. \A x \in Accordion!Due : [x EXCEPT !.live = FALSE].panel = x.panel
        BY DEF Accordion!Due
      <4>3. \A i \in DOMAIN s.due[q] : dead(q)[i] = [s.due[q][i] EXCEPT !.live = FALSE]
        OBVIOUS
      <4> HIDE DEF dead
      <4>4. QED
        BY <4>1, <4>2, <4>3
    <3>4. s.due[q] # <<>> => dead(q) # <<>>
      <4>1. s.due[q] # <<>> => 1 \in DOMAIN s.due[q]
        BY <3>1, NotEmpty
      <4>2. 1 \notin DOMAIN <<>>
        OBVIOUS
      <4> HIDE DEF dead
      <4>3. QED
        BY <3>2, <4>1, <4>2
    <3> HIDE DEF dead
    <3>5. n.due[q] = dead(q) /\ n.data[q] = "none" /\ n.class[q] = s.class[q]
      BY <1>2, <2>2
    <3>6. QED
      BY <1>1, <3>2, <3>3, <3>4, <3>5 DEF Watched
  <2>3. QED
    BY <2>1, <2>2
<1>4. QED
  BY <1>2, <1>3 DEF PanelsSafe, n

LEMMA OpenSafe ==
    ASSUME NEW s, PanelsSafe(s), NEW p \in Panels
    PROVE  PanelsSafe(Accordion!Open(s, p))
<1> DEFINE n == Accordion!Open(s, p)
<1>1. s \in PanelStates /\ \A q \in Panels : Watched(s, q)
  BY DEF PanelsSafe
<1>2. /\ n \in PanelStates
      /\ \A q \in Panels : \/ q = p /\ n.due[q] = Append(s.due[q], Waits(q, "shown", TRUE))
                           \/ SamePanel(s, n, q)
  <2>1. /\ n \in PanelStates
        /\ n.due[p] = Append(s.due[p], Waits(p, "shown", TRUE))
        /\ \A q \in Panels \ {p} : SamePanel(s, n, q)
    BY <1>1, OpenIs
  <2> HIDE DEF n
  <2>2. QED
    BY <2>1
<1> HIDE DEF n
<1>3. \A q \in Panels : Watched(n, q)
  BY <1>1, <1>2, SameWatched, AppendWatched
<1>4. QED
  BY <1>2, <1>3 DEF PanelsSafe, n

LEMMA FirstPanel ==
    ASSUME NEW ps \in SUBSET Panels, ps # {}
    PROVE  Accordion!Min(ps) \in ps
<1>1. ps \in SUBSET Nat
  BY PanelAssumption
<1>2. \E x \in ps : \A y \in ps : x <= y
  BY <1>1, TabList!Ends!Least
<1>3. QED
  BY <1>2 DEF Accordion!Min

LEMMA ShowSafe ==
    ASSUME NEW s, PanelsSafe(s), NEW p \in Panels,
           NEW seen \in [Panels -> {"none", "idle", "transitioning"}]
    PROVE  PanelsSafe(Accordion!Show(s, p, seen))
<1> DEFINE actives == IF s.grouped[p] THEN {q \in Panels : s.class[q] \in {"in", "collapsing"}}
                      ELSE {}
           first == seen[Accordion!Min(actives)]
           hidden == Accordion!PluginHide(s, actives)
<1>1. actives \in SUBSET Panels
  OBVIOUS
<1>2. actives # {} => first \in {"none", "idle", "transitioning"}
  BY <1>1, FirstPanel
<1>3. PanelsSafe(hidden)
  <2> HIDE DEF actives
  <2>1. {q \in actives : s.data[q] = "none"} \in SUBSET Panels
    BY <1>1
  <2>2. PanelsSafe(Accordion!Made(s, {q \in actives : s.data[q] = "none"}, FALSE))
    BY <2>1, MadeSafe
  <2>3. QED
    BY <1>1, <2>2, HideSafe DEF Accordion!PluginHide
<1> HIDE DEF hidden
<1>4. Accordion!Show(s, p, seen) \in
        {s, Accordion!Open(s, p), Accordion!Open(hidden, p),
         Accordion!Open(Accordion!Drop(hidden, actives), p)}
  <2>1. Accordion!Show(s, p, seen) =
          IF s.data[p] = "transitioning" \/ s.class[p] = "in" THEN s
          ELSE CASE actives = {} -> Accordion!Open(s, p)
                 [] actives # {} /\ first = "transitioning" -> s
                 [] actives # {} /\ first = "none" ->
                      Accordion!Open(Accordion!Drop(hidden, actives), p)
                 [] actives # {} /\ first = "idle" -> Accordion!Open(hidden, p)
    BY DEF Accordion!Show, hidden
  <2> HIDE DEF actives, first
  <2>2. QED
    BY <1>2, <2>1
<1> HIDE DEF actives
<1>5. QED
  BY <1>1, <1>3, <1>4, DropSafe, OpenSafe

LEMMA ToggleSafe ==
    ASSUME NEW s, PanelsSafe(s), NEW p \in Panels,
           NEW seen \in [Panels -> {"none", "idle", "transitioning"}]
    PROVE  PanelsSafe(Accordion!Toggle(s, p, seen))
<1>1. {p} \in SUBSET Panels
  OBVIOUS
<1>2. QED
  BY <1>1, HideSafe, ShowSafe DEF Accordion!Toggle

LEMMA UsedIs ==
    ASSUME PanelsSafe(page), NEW p \in Panels, NEW grouped \in BOOLEAN
    PROVE  LET n == Accordion!Used(p, grouped)
               m == Accordion!Made(page, {p}, grouped) IN
           /\ PanelsSafe(n) /\ n.scripted = page.scripted /\ n.parent = page.parent
           /\ page.data[p] # "none" => n = page
           /\ page.data[p] = "none" =>
                 /\ n.hurried = (page.hurried \/ \E q \in Panels : page.class[q] = "collapsing")
                 /\ n.class = m.class /\ n.data = m.data /\ n.due = m.due
                 /\ n.grouped = m.grouped /\ n.collapsed = m.collapsed
<1> DEFINE m == Accordion!Made(page, {p}, grouped)
           moving == \E q \in Panels : page.class[q] = "collapsing"
           hurried == m.hurried \/ moving
           n == [m EXCEPT !.hurried = hurried]
<1>1. CASE page.data[p] # "none"
  BY <1>1 DEF Accordion!Used
<1>2. CASE page.data[p] = "none"
  <2>1. PanelsSafe(m)
    BY MadeSafe
  <2>2. m \in PanelStates /\ SamePage(page, m)
    <3>1. page \in PanelStates
      BY DEF PanelsSafe
    <3>2. QED
      BY <3>1, MadeIs
  <2>3. Accordion!Used(p, grouped) = n
    BY <1>2, <2>2 DEF Accordion!Used, PanelStates
  <2> HIDE DEF m
  <2>4. hurried \in BOOLEAN
    OBVIOUS
  <2> DEFINE h == hurried
  <2>5. hurried = (page.hurried \/ moving)
    BY <2>2 DEF SamePage
  <2> HIDE DEF hurried
  <2>6. /\ n \in PanelStates /\ n.hurried = hurried /\ n.scripted = m.scripted
        /\ n.parent = m.parent /\ n.class = m.class /\ n.data = m.data /\ n.due = m.due
        /\ n.grouped = m.grouped /\ n.collapsed = m.collapsed
    BY <2>2, <2>4 DEF PanelStates
  <2> HIDE DEF n
  <2>7. PanelsSafe(n)
    BY <2>1, <2>6 DEF PanelsSafe, Watched
  <2>8. QED
    BY <1>2, <2>2, <2>3, <2>5, <2>6, <2>7 DEF SamePage, m, moving
<1>3. QED
  BY <1>1, <1>2

\* The callbacks of one panel.
LEMMA CompleteIs ==
    ASSUME NEW s \in PanelStates, NEW c \in Accordion!Due
    PROVE  LET n == Accordion!Complete(s, c) IN
           /\ n \in PanelStates /\ SamePage(s, n) /\ n.grouped = s.grouped
           /\ n.collapsed = s.collapsed /\ n.due = s.due
           /\ n.class[c.panel] = IF c.what = "shown" THEN "in" ELSE "collapse"
           /\ n.data[c.panel] = IF c.live THEN "idle" ELSE s.data[c.panel]
           /\ \A q \in Panels \ {c.panel} : SamePanel(s, n, q)
<1> DEFINE p == c.panel
           class == [s.class EXCEPT ![p] = IF c.what = "shown" THEN "in" ELSE "collapse"]
           data == [s.data EXCEPT ![p] = IF c.live THEN "idle" ELSE @]
           n == [s EXCEPT !.class = class, !.data = data]
<1>1. /\ s.class \in [Panels -> Accordion!Classes]
      /\ s.data \in [Panels -> {"none", "idle", "transitioning"}]
  BY DEF PanelStates
<1>2. p \in Panels
  BY DEF Accordion!Due
<1>3. Accordion!Complete(s, c) = n
  BY DEF Accordion!Complete, PanelStates
<1>4. /\ class \in [Panels -> Accordion!Classes]
      /\ data \in [Panels -> {"none", "idle", "transitioning"}]
  BY <1>1, <1>2 DEF Accordion!Classes
<1>5. /\ class[p] = IF c.what = "shown" THEN "in" ELSE "collapse"
      /\ data[p] = IF c.live THEN "idle" ELSE s.data[p]
      /\ \A q \in Panels \ {p} : class[q] = s.class[q] /\ data[q] = s.data[q]
  BY <1>1, <1>2
<1> HIDE DEF class, data
<1>6. /\ n \in PanelStates /\ SamePage(s, n) /\ n.grouped = s.grouped
      /\ n.collapsed = s.collapsed /\ n.due = s.due /\ n.class = class /\ n.data = data
  BY <1>4 DEF PanelStates, SamePage
<1> HIDE DEF n
<1>7. QED
  BY <1>3, <1>5, <1>6 DEF SamePanel

LEMMA EndSafe ==
    ASSUME PanelsSafe(page), NEW p \in Panels, Accordion!TransitionEnd(p)
    PROVE  PanelsSafe(page') /\ SamePage(page, page')
<1> DEFINE list == page.due[p]
           none == [page.due EXCEPT ![p] = <<>>]
           s == [page EXCEPT !.due = none]
           Here == {n \in PanelStates :
                      /\ SamePage(page, n) /\ n.due = none
                      /\ \A q \in Panels \ {p} : n.class[q] = page.class[q]
                                                 /\ n.data[q] = page.data[q]}
           Still == {n \in Here : n.data[p] # "transitioning"}
           Idle == {n \in Here : n.data[p] = "idle"}
           There == {n \in Here : n.class[p] # "collapsing"}
<1>1. page \in PanelStates /\ \A q \in Panels : Watched(page, q)
  BY DEF PanelsSafe
<1>2. /\ list \in Seq(Accordion!Due) /\ list # <<>>
      /\ \A i \in DOMAIN list : list[i].panel = p
  BY <1>1 DEF Accordion!TransitionEnd, PanelStates, Watched
<1>3. page' = Accordion!Ends!Fire(s, list)
  BY <1>1 DEF Accordion!TransitionEnd, PanelStates
<1>4. /\ Len(list) \in Nat \ {0} /\ DOMAIN list = 1 .. Len(list)
      /\ \A i \in 1 .. Len(list) : list[i] \in Accordion!Due /\ list[i].panel = p
  BY <1>2
<1>5. /\ none \in [Panels -> Seq(Accordion!Due)]
      /\ none[p] = <<>> /\ \A q \in Panels \ {p} : none[q] = page.due[q]
  BY <1>1 DEF PanelStates
<1> HIDE DEF none, list
<1>6. s \in Here /\ s.data = page.data
  BY <1>1, <1>5 DEF PanelStates, SamePage
<1> HIDE DEF s
<1>7. \A n \in Here, i \in 1 .. Len(list) :
         LET m == Accordion!Complete(n, list[i]) IN
         /\ m \in Here /\ m.class[p] # "collapsing"
         /\ m.data[p] = IF list[i].live THEN "idle" ELSE n.data[p]
  <2> SUFFICES ASSUME NEW n \in Here, NEW i \in 1 .. Len(list)
               PROVE  LET m == Accordion!Complete(n, list[i]) IN
                      /\ m \in Here /\ m.class[p] # "collapsing"
                      /\ m.data[p] = IF list[i].live THEN "idle" ELSE n.data[p]
    OBVIOUS
  <2> DEFINE m == Accordion!Complete(n, list[i])
  <2>1. n \in PanelStates /\ list[i] \in Accordion!Due /\ list[i].panel = p
    BY <1>4
  <2>2. /\ m \in PanelStates /\ SamePage(n, m) /\ m.due = n.due
        /\ m.class[p] = IF list[i].what = "shown" THEN "in" ELSE "collapse"
        /\ m.data[p] = IF list[i].live THEN "idle" ELSE n.data[p]
        /\ \A q \in Panels \ {p} : SamePanel(n, m, q)
    BY <2>1, CompleteIs
  <2> HIDE DEF m
  <2>3. m \in Here
    BY <2>2 DEF SamePage, SamePanel
  <2>4. m.class[p] # "collapsing"
    BY <2>2
  <2>5. QED
    BY <2>2, <2>3, <2>4 DEF m
<1> HIDE DEF Here
<1>8. page' \in There
  <2>1. \A n \in Here, i \in 1 .. Len(list) : Accordion!Complete(n, list[i]) \in Here
    BY <1>7
  <2>2. \A n \in Here : Accordion!Complete(n, list[Len(list)]) \in There
    BY <1>4, <1>7
  <2> HIDE DEF There
  <2>3. QED
    BY <1>3, <1>4, <1>6, <2>1, <2>2, Accordion!Ends!FireLast
<1>9. page'.data[p] # "transitioning"
  <2>1. CASE \E i \in 1 .. Len(list) : list[i].live
    <3>1. PICK k \in 1 .. Len(list) : list[k].live
      BY <2>1
    <3>2. \A n \in Here, i \in 1 .. Len(list) : Accordion!Complete(n, list[i]) \in Here
      BY <1>7
    <3>3. \A n \in Here : Accordion!Complete(n, list[k]) \in Idle
      BY <1>7, <3>1
    <3>4. \A n \in Idle, i \in 1 .. Len(list) : Accordion!Complete(n, list[i]) \in Idle
      BY <1>7
    <3> HIDE DEF Idle
    <3>5. page' \in Idle
      BY <1>3, <1>4, <1>6, <3>2, <3>3, <3>4, Accordion!Ends!FireReaches
    <3>6. QED
      BY <3>5 DEF Idle
  <2>2. CASE ~ \E i \in 1 .. Len(list) : list[i].live
    <3>1. s \in Still
      BY <1>1, <1>4, <1>6, <2>2 DEF Watched, list
    <3>2. \A n \in Still, i \in 1 .. Len(list) : Accordion!Complete(n, list[i]) \in Still
      BY <1>7, <2>2
    <3> HIDE DEF Still
    <3>3. page' \in Still
      BY <1>3, <1>4, <3>1, <3>2, Accordion!Ends!FireKeeps
    <3>4. QED
      BY <3>3 DEF Still
  <2>3. QED
    BY <2>1, <2>2
<1>10. /\ page' \in PanelStates /\ SamePage(page, page') /\ page'.due = none
       /\ page'.class[p] # "collapsing"
       /\ \A q \in Panels \ {p} : page'.class[q] = page.class[q] /\ page'.data[q] = page.data[q]
  BY <1>8 DEF Here
<1>11. ASSUME NEW q \in Panels
       PROVE  Watched(page', q)
  <2>1. CASE q = p
    <3>1. page'.due[p] = <<>> /\ DOMAIN <<>> = {}
      BY <1>5, <1>10
    <3>2. QED
      BY <1>9, <1>10, <2>1, <3>1 DEF Watched
  <2>2. CASE q # p
    <3>1. /\ page'.due[q] = page.due[q] /\ page'.class[q] = page.class[q]
          /\ page'.data[q] = page.data[q]
      BY <1>5, <1>10, <2>2
    <3>2. QED
      BY <1>1, <3>1 DEF Watched
  <2>3. QED
    BY <2>1, <2>2
<1>12. QED
  BY <1>10, <1>11 DEF PanelsSafe

(* A page whose panels are only clicked, and used for the first time while nothing *)
(* moves: an object that is dropped in the middle of closing belongs to the panel   *)
(* that was open at first, and then only the panel that was clicked has one.        *)

Whole(s, q) ==
    /\ \/ /\ s.class[q] # "collapsing" /\ s.due[q] = <<>> /\ s.data[q] # "transitioning"
          /\ s.collapsed[q] = (s.class[q] # "in")
       \/ /\ s.class[q] = "collapsing" /\ s.data[q] = "transitioning"
          /\ \/ s.due[q] = <<Waits(q, "shown", TRUE)>> /\ s.collapsed[q] = FALSE
             \/ s.due[q] = <<Waits(q, "hidden", TRUE)>> /\ s.collapsed[q] = TRUE
       \/ /\ s.class[q] = "collapsing" /\ s.data[q] = "none"
          /\ s.due[q] = <<Waits(q, "hidden", FALSE)>> /\ s.collapsed[q] = TRUE
    /\ s.data[q] # "none" => s.grouped[q] = s.parent

AllWhole(s) ==
    /\ \A q \in Panels : Whole(s, q)
    /\ s.parent => \A q, r \in Panels : ~s.collapsed[q] /\ ~s.collapsed[r] => q = r

Orderly(s) ==
    /\ AllWhole(s)
    /\ s.parent =>
          /\ \A q, r \in Panels : s.class[q] = "in" /\ s.data[q] = "none" => s.data[r] = "none"
          /\ \A q, r, t \in Panels :
                s.class[q] = "collapsing" /\ s.data[q] = "none" /\ s.data[r] # "none"
                    /\ s.data[t] # "none" => r = t

PanelsInv(s) == PanelsSafe(s) /\ (~s.hurried /\ ~s.scripted => Orderly(s))

\* A panel that is about to be shown, with an object.
Ready(s, p) ==
    /\ AllWhole(s)
    /\ s.data[p] = "idle" /\ s.class[p] = "collapse"
    /\ s.parent => \A q, r \in Panels : s.data[q] = "none" /\ s.class[q] # "collapse" /\ r # p
                                           => s.data[r] = "none"

LEMMA OneDue ==
    ASSUME NEW w
    PROVE  Append(<<>>, w) = <<w>>
OBVIOUS

LEMMA DeadDue ==
    ASSUME NEW q, NEW what, NEW live
    PROVE  [i \in DOMAIN <<Waits(q, what, live)>> |->
               [<<Waits(q, what, live)>>[i] EXCEPT !.live = FALSE]] = <<Waits(q, what, FALSE)>>
<1> DEFINE S == [panel : {q}, what : {what}, live : {live, FALSE}]
           w == Waits(q, what, live)
           v == [w EXCEPT !.live = FALSE]
           f == [i \in 1 .. 1 |-> v]
<1>1. w \in S /\ w.panel = q /\ w.what = what
  BY DEF Waits
<1> HIDE DEF w
<1>2. v \in S /\ v.live = FALSE /\ v.panel = q /\ v.what = what
  BY <1>1
<1>3. \A x \in S : x = [panel |-> x.panel, what |-> x.what, live |-> x.live]
  OBVIOUS
<1>4. [i \in DOMAIN <<w>> |-> [<<w>>[i] EXCEPT !.live = FALSE]] = f
  <2> DEFINE D(x) == [x EXCEPT !.live = FALSE]
             g == [i \in DOMAIN <<w>> |-> D(<<w>>[i])]
  <2>1. DOMAIN <<w>> = 1 .. 1 /\ <<w>>[1] = w
    OBVIOUS
  <2>2. v = D(w)
    OBVIOUS
  <2> HIDE DEF D, v
  <2>3. \A i \in 1 .. 1 : i = 1
    OBVIOUS
  <2>4. g = f
    BY <2>1, <2>2, <2>3
  <2>5. QED
    BY <2>4 DEF D
<1> HIDE DEF v, S
<1>5. v = Waits(q, what, FALSE)
  <2>1. v = [panel |-> v.panel, what |-> v.what, live |-> v.live]
    BY <1>2, <1>3
  <2>2. QED
    BY <1>2, <2>1 DEF Waits
<1>6. f = <<v>>
  <2>1. f \in Seq({v}) /\ Len(f) = 1 /\ f[1] = v
    OBVIOUS
  <2>2. <<v>> \in Seq({v}) /\ Len(<<v>>) = 1 /\ <<v>>[1] = v
    OBVIOUS
  <2> HIDE DEF f
  <2>3. QED
    BY <2>1, <2>2, SeqEqual
<1> HIDE DEF f
<1>7. QED
  BY <1>4, <1>5, <1>6 DEF w

LEMMA SameWhole ==
    ASSUME NEW s, NEW n, NEW q, Whole(s, q), SamePanel(s, n, q),
           n.grouped[q] = s.grouped[q], n.parent = s.parent
    PROVE  Whole(n, q)
BY DEF Whole, SamePanel

LEMMA OpenOrderly ==
    ASSUME NEW s \in PanelStates, NEW p \in Panels, AllWhole(s),
           s.data[p] = "idle", s.class[p] = "collapse",
           s.parent => \A q \in Panels : s.collapsed[q] /\ s.class[q] # "in",
           s.parent => \A q, r \in Panels :
                          s.class[q] = "collapsing" /\ s.data[q] = "none" /\ s.data[r] # "none"
                          => r = p
    PROVE  Orderly(Accordion!Open(s, p))
<1> DEFINE n == Accordion!Open(s, p)
<1>1. /\ n \in PanelStates /\ n.parent = s.parent /\ n.grouped = s.grouped
      /\ n.class[p] = "collapsing" /\ n.collapsed[p] = FALSE /\ n.data[p] = "transitioning"
      /\ n.due[p] = Append(s.due[p], Waits(p, "shown", TRUE))
      /\ \A q \in Panels \ {p} : SamePanel(s, n, q)
  BY OpenIs DEF SamePage
<1> HIDE DEF n
<1>2. n.due[p] = <<Waits(p, "shown", TRUE)>> /\ n.grouped[p] = n.parent
  <2>1. s.due[p] = <<>> /\ s.grouped[p] = s.parent
    BY DEF AllWhole, Whole
  <2>2. QED
    BY <1>1, <2>1, OneDue
<1>3. ASSUME NEW q \in Panels
      PROVE  Whole(n, q)
  <2>1. CASE q = p
    BY <1>1, <1>2, <2>1 DEF Whole
  <2>2. CASE q # p
    <3>1. Whole(s, q) /\ SamePanel(s, n, q)
      BY <1>1, <2>2 DEF AllWhole
    <3>2. QED
      BY <1>1, <3>1, SameWhole
  <2>3. QED
    BY <2>1, <2>2
<1>4. n.parent => \A q \in Panels \ {p} : n.collapsed[q] /\ n.class[q] # "in"
  BY <1>1 DEF SamePanel
<1>5. n.parent => \A q, r \in Panels :
                     n.class[q] = "collapsing" /\ n.data[q] = "none" /\ n.data[r] # "none" => r = p
  <2> SUFFICES ASSUME n.parent, NEW q \in Panels, NEW r \in Panels, r # p,
                      n.class[q] = "collapsing", n.data[q] = "none", n.data[r] # "none"
               PROVE  FALSE
    OBVIOUS
  <2>1. q # p
    BY <1>1
  <2>2. /\ n.class[q] = s.class[q] /\ n.data[q] = s.data[q] /\ n.data[r] = s.data[r]
        /\ s.parent
    BY <1>1, <2>1 DEF SamePanel
  <2>3. QED
    BY <2>2
<1>6. n.parent => \A q \in Panels : n.class[q] # "in"
  BY <1>1, <1>4
<1>7. n.parent => \A q, r \in Panels : ~n.collapsed[q] /\ ~n.collapsed[r] => q = r
  BY <1>4
<1>8. AllWhole(n)
  BY <1>3, <1>7 DEF AllWhole
<1>9. n.parent => \A q, r, t \in Panels :
                     n.class[q] = "collapsing" /\ n.data[q] = "none" /\ n.data[r] # "none"
                         /\ n.data[t] # "none" => r = t
  <2> SUFFICES ASSUME n.parent, NEW q \in Panels, NEW r \in Panels, NEW t \in Panels,
                      n.class[q] = "collapsing", n.data[q] = "none",
                      n.data[r] # "none", n.data[t] # "none"
               PROVE  r = t
    OBVIOUS
  <2>1. r = p
    BY <1>5
  <2>2. t = p
    BY <1>5
  <2>3. QED
    BY <2>1, <2>2
<1>10. Orderly(n)
  BY <1>6, <1>8, <1>9 DEF Orderly
<1>11. QED
  BY <1>10 DEF n

LEMMA ShowOrderly ==
    ASSUME NEW s \in PanelStates, NEW p \in Panels, Ready(s, p),
           NEW seen \in [Panels -> {"none", "idle", "transitioning"}],
           \A q \in Panels \ {p} : seen[q] = s.data[q]
    PROVE  Orderly(Accordion!Show(s, p, seen))
<1> DEFINE actives == IF s.grouped[p] THEN {q \in Panels : s.class[q] \in {"in", "collapsing"}}
                      ELSE {}
           first == seen[Accordion!Min(actives)]
           bare == {q \in actives : s.data[q] = "none"}
           made == Accordion!Made(s, bare, FALSE)
           hidden == Accordion!Hide(made, actives)
           dropped == Accordion!Drop(hidden, actives)
           dead(q) == [i \in DOMAIN hidden.due[q] |-> [hidden.due[q][i] EXCEPT !.live = FALSE]]
<1>1. /\ \A q \in Panels : Whole(s, q)
      /\ s.parent => \A q, r \in Panels : ~s.collapsed[q] /\ ~s.collapsed[r] => q = r
      /\ s.data[p] = "idle" /\ s.class[p] = "collapse" /\ AllWhole(s)
  BY DEF Ready, AllWhole
<1>2. s.grouped[p] = s.parent
  BY <1>1 DEF Whole
<1>3. /\ actives \in SUBSET Panels /\ bare \in SUBSET Panels
      /\ \A q \in Panels : q \in bare <=> q \in actives /\ s.data[q] = "none"
  OBVIOUS
<1>14. s.parent => \A q, r \in Panels : s.data[q] = "none" /\ s.class[q] # "collapse" /\ r # p
                                            => s.data[r] = "none"
  BY DEF Ready
<1>4. Accordion!Show(s, p, seen) =
        CASE actives = {} -> Accordion!Open(s, p)
          [] actives # {} /\ first = "transitioning" -> s
          [] actives # {} /\ first = "none" -> Accordion!Open(dropped, p)
          [] actives # {} /\ first = "idle" -> Accordion!Open(hidden, p)
  BY <1>1 DEF Accordion!Show, Accordion!PluginHide
<1>5. \A q \in Panels : s.class[q] \in {"collapse", "collapsing", "in"}
  BY DEF PanelStates, Accordion!Classes
<1>6. \A q \in Panels : q \in actives <=> s.parent /\ s.class[q] # "collapse"
  BY <1>2, <1>5
<1> HIDE DEF bare, actives
<1>7. /\ made \in PanelStates /\ SamePage(s, made) /\ made.class = s.class /\ made.due = s.due
      /\ \A q \in Panels :
            /\ made.data[q] = IF q \in bare THEN "idle" ELSE s.data[q]
            /\ made.grouped[q] = IF q \in bare THEN FALSE ELSE s.grouped[q]
            /\ made.collapsed[q] = IF q \in bare THEN s.class[q] # "in" ELSE s.collapsed[q]
  <2>1. /\ made \in PanelStates /\ SamePage(s, made) /\ made.class = s.class /\ made.due = s.due
        /\ \A q \in Panels :
              /\ made.data[q] = IF q \in bare THEN "idle" ELSE s.data[q]
              /\ made.grouped[q] = IF q \in bare THEN FALSE ELSE s.grouped[q]
              /\ made.collapsed[q] = IF FALSE \/ q \in bare THEN s.class[q] # "in"
                                     ELSE s.collapsed[q]
    BY <1>3, MadeIs
  <2> HIDE DEF made
  <2>2. QED
    BY <2>1
<1> HIDE DEF made
<1>8. /\ hidden \in PanelStates /\ SamePage(made, hidden) /\ hidden.grouped = made.grouped
      /\ \A q \in Panels :
            IF q \in actives /\ made.data[q] # "transitioning" /\ made.class[q] = "in"
            THEN /\ hidden.class[q] = "collapsing" /\ hidden.collapsed[q] = TRUE
                 /\ hidden.data[q] = "transitioning"
                 /\ hidden.due[q] = Append(made.due[q], Waits(q, "hidden", TRUE))
            ELSE SamePanel(made, hidden, q)
  BY <1>3, <1>7, HideIs
<1> HIDE DEF hidden
<1>9. /\ dropped \in PanelStates /\ SamePage(hidden, dropped) /\ dropped.class = hidden.class
      /\ dropped.collapsed = hidden.collapsed /\ dropped.grouped = hidden.grouped
      /\ \A q \in Panels :
            /\ dropped.data[q] = IF q \in actives THEN "none" ELSE hidden.data[q]
            /\ dropped.due[q] = IF q \in actives THEN dead(q) ELSE hidden.due[q]
  BY <1>3, <1>8, DropIs
<1> HIDE DEF dropped, dead
<1>10. hidden.parent = s.parent /\ dropped.parent = s.parent
  BY <1>7, <1>8, <1>9 DEF SamePage
<1>11. CASE actives = {}
  <2>1. s.parent => \A q \in Panels : s.class[q] = "collapse"
    BY <1>6, <1>11
  <2>2. s.parent => \A q \in Panels : s.collapsed[q] /\ s.class[q] # "in"
    BY <1>1, <2>1 DEF Whole
  <2>3. Orderly(Accordion!Open(s, p))
    BY <1>1, <2>1, <2>2, OpenOrderly
  <2>4. QED
    BY <1>4, <1>11, <2>3
<1>12. CASE actives # {}
  <2> DEFINE m == Accordion!Min(actives)
  <2>1. m \in actives /\ m \in Panels /\ m # p /\ s.parent /\ first = s.data[m]
    BY <1>1, <1>3, <1>6, <1>12, FirstPanel
  <2>2. first \in {"none", "idle", "transitioning"}
    BY <2>1
  <2> HIDE DEF m, first, actives
  <2>3. \A q \in actives : q \in Panels /\ q # p /\ s.class[q] # "collapse"
    BY <1>1, <1>3, <1>6
  <2>4. p \notin actives /\ p \notin bare
    BY <1>3, <2>3
  <2>9. \A q \in Panels :
           /\ s.class[q] = "in" => s.due[q] = <<>> /\ s.data[q] # "transitioning"
           /\ s.class[q] = "collapsing" /\ s.data[q] = "none" =>
                 s.due[q] = <<Waits(q, "hidden", FALSE)>> /\ s.collapsed[q] = TRUE
    BY <1>1 DEF Whole
  <2>5. CASE first = "transitioning"
    <3>1. \A q \in Panels : s.class[q] # "collapse" => s.data[q] # "none"
      BY <1>1, <1>14, <2>1, <2>5
    <3>2. \A q \in Panels : s.class[q] \in {"in", "collapsing"} => s.data[q] # "none"
      BY <3>1
    <3>4. Orderly(s)
      BY <1>1, <3>2 DEF Orderly
    <3>3. QED
      BY <1>4, <1>12, <2>5, <3>4
  <2>6. CASE first = "none"
    <3>1. \A q \in Panels \ {p} : s.data[q] = "none"
      BY <1>14, <2>1, <2>3, <2>6
    <3>2. ASSUME NEW q \in Panels
          PROVE  /\ Whole(dropped, q) /\ dropped.collapsed[q] /\ dropped.class[q] # "in"
                 /\ q # p => dropped.data[q] = "none"
                 /\ q = p => dropped.data[q] = "idle" /\ dropped.class[q] = "collapse"
      <4>1. CASE q \notin actives
        <5>1. q \notin bare /\ s.class[q] = "collapse"
          BY <1>3, <1>6, <2>1, <4>1
        <5>4. /\ made.class[q] = s.class[q] /\ made.collapsed[q] = s.collapsed[q]
              /\ made.data[q] = s.data[q] /\ made.due[q] = s.due[q]
              /\ made.grouped[q] = s.grouped[q]
          BY <1>7, <5>1
        <5>5. /\ hidden.class[q] = s.class[q] /\ hidden.collapsed[q] = s.collapsed[q]
              /\ hidden.data[q] = s.data[q] /\ hidden.due[q] = s.due[q]
              /\ hidden.grouped[q] = s.grouped[q]
          BY <1>8, <4>1, <5>4 DEF SamePanel
        <5>2. /\ dropped.class[q] = s.class[q] /\ dropped.collapsed[q] = s.collapsed[q]
              /\ dropped.data[q] = s.data[q] /\ dropped.due[q] = s.due[q]
              /\ dropped.grouped[q] = s.grouped[q]
          BY <1>9, <4>1, <5>5
        <5>3. Whole(dropped, q)
          <6>1. SamePanel(s, dropped, q)
            BY <5>2 DEF SamePanel
          <6>2. QED
            BY <1>1, <1>10, <5>2, <6>1, SameWhole
        <5>6. s.collapsed[q]
          <6>1. Whole(s, q)
            BY <1>1
          <6>2. QED
            BY <5>1, <6>1 DEF Whole
        <5>7. QED
          BY <1>1, <3>1, <5>1, <5>2, <5>3, <5>6
      <4>2. CASE q \in actives /\ s.class[q] = "in"
        <5>1. q \in bare /\ q # p /\ s.due[q] = <<>>
          BY <1>3, <2>3, <2>9, <3>1, <4>2
        <5>2. /\ hidden.class[q] = "collapsing" /\ hidden.collapsed[q] = TRUE
              /\ hidden.due[q] = Append(<<>>, Waits(q, "hidden", TRUE))
          <6>1. made.data[q] = "idle" /\ made.class[q] = "in"
            BY <1>7, <4>2, <5>1
          <6>2. made.due[q] = <<>>
            BY <1>7, <5>1
          <6>3. /\ hidden.class[q] = "collapsing" /\ hidden.collapsed[q] = TRUE
                /\ hidden.due[q] = Append(made.due[q], Waits(q, "hidden", TRUE))
            BY <1>8, <4>2, <6>1
          <6>4. QED
            BY <6>2, <6>3
        <5>3. hidden.due[q] = <<Waits(q, "hidden", TRUE)>>
          BY <5>2, OneDue
        <5>4. dropped.due[q] = [i \in DOMAIN <<Waits(q, "hidden", TRUE)>> |->
                                   [<<Waits(q, "hidden", TRUE)>>[i] EXCEPT !.live = FALSE]]
          <6>1. dropped.due[q] = dead(q)
            BY <1>9, <4>2
          <6> DEFINE w == Waits(q, "hidden", TRUE)
          <6> HIDE DEF w
          <6>2. hidden.due[q] = <<w>>
            BY <5>3 DEF w
          <6>3. dead(q) = [i \in DOMAIN <<w>> |-> [<<w>>[i] EXCEPT !.live = FALSE]]
            BY <6>2 DEF dead
          <6>4. QED
            BY <6>1, <6>3 DEF w
        <5>5. dropped.due[q] = <<Waits(q, "hidden", FALSE)>>
          BY <5>4, DeadDue
        <5>6. dropped.data[q] = "none" /\ dropped.class[q] = "collapsing" /\ dropped.collapsed[q] = TRUE
          BY <1>9, <4>2, <5>2
        <5>7. QED
          BY <5>1, <5>5, <5>6 DEF Whole
      <4>3. CASE q \in actives /\ s.class[q] # "in"
        <5>1. /\ q \in bare /\ q # p /\ s.class[q] = "collapsing" /\ s.data[q] = "none"
              /\ s.due[q] = <<Waits(q, "hidden", FALSE)>> /\ s.collapsed[q] = TRUE
          BY <1>3, <1>5, <2>3, <2>9, <3>1, <4>3
        <5>2. /\ hidden.class[q] = "collapsing" /\ hidden.collapsed[q] = TRUE
              /\ hidden.due[q] = <<Waits(q, "hidden", FALSE)>>
          <6> DEFINE list == <<Waits(q, "hidden", FALSE)>>
          <6> HIDE DEF list
          <6>1. s.class[q] # "in" /\ s.class[q] = "collapsing" /\ s.due[q] = list
            BY <4>3, <5>1 DEF list
          <6>2. made.class[q] = s.class[q] /\ made.due[q] = s.due[q] /\ made.collapsed[q] = TRUE
            BY <1>7, <5>1, <6>1
          <6>3. /\ hidden.class[q] = made.class[q] /\ hidden.due[q] = made.due[q]
                /\ hidden.collapsed[q] = made.collapsed[q]
            BY <1>8, <6>1, <6>2 DEF SamePanel
          <6>4. hidden.due[q] = list
            BY <6>1, <6>2, <6>3
          <6>5. QED
            BY <6>1, <6>2, <6>3, <6>4 DEF list
        <5>3. dropped.due[q] = [i \in DOMAIN <<Waits(q, "hidden", FALSE)>> |->
                                   [<<Waits(q, "hidden", FALSE)>>[i] EXCEPT !.live = FALSE]]
          BY <1>9, <4>3, <5>2 DEF dead
        <5>4. dropped.due[q] = <<Waits(q, "hidden", FALSE)>>
          BY <5>3, DeadDue
        <5>5. dropped.data[q] = "none" /\ dropped.class[q] = "collapsing" /\ dropped.collapsed[q] = TRUE
          BY <1>9, <4>3, <5>2
        <5>6. QED
          BY <5>1, <5>4, <5>5 DEF Whole
      <4>4. QED
        BY <4>1, <4>2, <4>3
    <3>3. AllWhole(dropped) /\ dropped.data[p] = "idle" /\ dropped.class[p] = "collapse"
      BY <3>2 DEF AllWhole
    <3>4. Orderly(Accordion!Open(dropped, p))
      BY <1>9, <3>2, <3>3, OpenOrderly
    <3>5. QED
      BY <1>4, <1>12, <2>6, <3>4
  <2>7. CASE first = "idle"
    <3>1. \A q \in Panels : s.class[q] # "collapse" => s.data[q] # "none"
      BY <1>1, <1>14, <2>1, <2>7
    <3>2. bare = {}
      BY <1>3, <2>3, <3>1
    <3>3. ~s.collapsed[m] /\ s.class[m] = "in"
      BY <1>1, <1>6, <2>1, <2>7, <1>5 DEF Whole
    <3>4. \A q \in Panels \ {m} : s.collapsed[q]
      BY <1>1, <2>1, <3>3
    <3>5. ASSUME NEW q \in Panels
          PROVE  /\ Whole(hidden, q) /\ hidden.collapsed[q] /\ hidden.class[q] # "in"
                 /\ hidden.class[q] = "collapsing" => hidden.data[q] # "none"
                 /\ q = p => hidden.data[q] = "idle" /\ hidden.class[q] = "collapse"
      <4>1. /\ made.data[q] = s.data[q] /\ made.class[q] = s.class[q]
            /\ made.collapsed[q] = s.collapsed[q] /\ made.due[q] = s.due[q]
            /\ made.grouped[q] = s.grouped[q]
        BY <1>7, <3>2
      <4>2. CASE s.class[q] = "in"
        <5>1. q \in actives /\ q # p /\ s.data[q] # "transitioning" /\ s.due[q] = <<>>
          BY <1>1, <1>6, <2>1, <4>2 DEF Whole
        <5>2. /\ hidden.class[q] = "collapsing" /\ hidden.collapsed[q] = TRUE
              /\ hidden.data[q] = "transitioning"
              /\ hidden.due[q] = Append(<<>>, Waits(q, "hidden", TRUE))
              /\ hidden.grouped[q] = s.grouped[q]
          BY <1>8, <4>1, <4>2, <5>1
        <5>3. s.grouped[q] = s.parent
          BY <1>1, <3>1, <4>2 DEF Whole
        <5>4. QED
          BY <1>10, <5>1, <5>2, <5>3, OneDue DEF Whole
      <4>3. CASE s.class[q] # "in"
        <5>1. SamePanel(s, hidden, q) /\ hidden.grouped[q] = s.grouped[q]
          BY <1>8, <4>1, <4>3 DEF SamePanel
        <5>2. s.collapsed[q]
          BY <3>3, <3>4, <4>3
        <5>3. Whole(hidden, q)
          BY <1>1, <1>10, <5>1, SameWhole
        <5>4. /\ hidden.class[q] = s.class[q] /\ hidden.collapsed[q] = s.collapsed[q]
              /\ hidden.data[q] = s.data[q]
          BY <5>1 DEF SamePanel
        <5>5. QED
          BY <1>1, <3>1, <4>3, <5>2, <5>3, <5>4
      <4>4. QED
        BY <4>2, <4>3
    <3>6. AllWhole(hidden) /\ hidden.data[p] = "idle" /\ hidden.class[p] = "collapse"
      BY <3>5 DEF AllWhole
    <3>7. Orderly(Accordion!Open(hidden, p))
      BY <1>8, <3>5, <3>6, OpenOrderly
    <3>8. QED
      BY <1>4, <1>12, <2>7, <3>7
  <2>8. QED
    BY <2>2, <2>5, <2>6, <2>7
<1>13. QED
  BY <1>11, <1>12

LEMMA ShowSame ==
    ASSUME NEW s, PanelsSafe(s), NEW p \in Panels,
           NEW seen \in [Panels -> {"none", "idle", "transitioning"}]
    PROVE  SamePage(s, Accordion!Show(s, p, seen))
<1> DEFINE actives == IF s.grouped[p] THEN {q \in Panels : s.class[q] \in {"in", "collapsing"}}
                      ELSE {}
           first == seen[Accordion!Min(actives)]
           bare == {q \in actives : s.data[q] = "none"}
           made == Accordion!Made(s, bare, FALSE)
           hidden == Accordion!Hide(made, actives)
           dropped == Accordion!Drop(hidden, actives)
<1>1. s \in PanelStates /\ actives \in SUBSET Panels /\ bare \in SUBSET Panels
  BY DEF PanelsSafe
<1>2. actives # {} => first \in {"none", "idle", "transitioning"}
  BY <1>1, FirstPanel
<1>3. Accordion!Show(s, p, seen) =
        IF s.data[p] = "transitioning" \/ s.class[p] = "in" THEN s
        ELSE CASE actives = {} -> Accordion!Open(s, p)
               [] actives # {} /\ first = "transitioning" -> s
               [] actives # {} /\ first = "none" -> Accordion!Open(dropped, p)
               [] actives # {} /\ first = "idle" -> Accordion!Open(hidden, p)
  BY DEF Accordion!Show, Accordion!PluginHide
<1> HIDE DEF actives, bare, first
<1>4. made \in PanelStates /\ SamePage(s, made)
  BY <1>1, MadeIs
<1> HIDE DEF made
<1>5. hidden \in PanelStates /\ SamePage(made, hidden)
  BY <1>1, <1>4, HideIs
<1> HIDE DEF hidden
<1>6. dropped \in PanelStates /\ SamePage(hidden, dropped)
  BY <1>1, <1>5, DropIs
<1> HIDE DEF dropped
<1>7. /\ SamePage(s, Accordion!Open(s, p)) /\ SamePage(hidden, Accordion!Open(hidden, p))
      /\ SamePage(dropped, Accordion!Open(dropped, p))
  BY <1>1, <1>5, <1>6, OpenIs
<1>8. Accordion!Show(s, p, seen) \in
        {s, Accordion!Open(s, p), Accordion!Open(hidden, p), Accordion!Open(dropped, p)}
  BY <1>2, <1>3
<1>9. QED
  BY <1>4, <1>5, <1>6, <1>7, <1>8 DEF SamePage

LEMMA HideOrderly ==
    ASSUME NEW s \in PanelStates, NEW p \in Panels, AllWhole(s),
           s.data[p] = "idle", s.class[p] = "in",
           s.parent => \A q, r, t \in Panels :
               s.class[q] = "collapsing" /\ s.data[q] = "none" /\ s.data[r] # "none"
                   /\ s.data[t] # "none" => r = t
    PROVE  Orderly(Accordion!Hide(s, {p}))
<1> DEFINE n == Accordion!Hide(s, {p})
<1>1. /\ n \in PanelStates /\ SamePage(s, n) /\ n.grouped = s.grouped
      /\ n.class[p] = "collapsing" /\ n.collapsed[p] = TRUE /\ n.data[p] = "transitioning"
      /\ n.due[p] = Append(s.due[p], Waits(p, "hidden", TRUE))
      /\ \A q \in Panels \ {p} : SamePanel(s, n, q)
  <2>1. {p} \in SUBSET Panels
    OBVIOUS
  <2>2. /\ n \in PanelStates /\ SamePage(s, n) /\ n.grouped = s.grouped
        /\ \A q \in Panels :
              IF q \in {p} /\ s.data[q] # "transitioning" /\ s.class[q] = "in"
              THEN /\ n.class[q] = "collapsing" /\ n.collapsed[q] = TRUE
                   /\ n.data[q] = "transitioning"
                   /\ n.due[q] = Append(s.due[q], Waits(q, "hidden", TRUE))
              ELSE SamePanel(s, n, q)
    BY <2>1, HideIs
  <2> HIDE DEF n
  <2>3. QED
    BY <2>2
<1> HIDE DEF n
<1>2. n.parent = s.parent
  BY <1>1 DEF SamePage
<1>3. /\ s.due[p] = <<>> /\ s.grouped[p] = s.parent /\ s.collapsed[p] = FALSE
  <2>1. Whole(s, p) /\ s.collapsed[p] \in BOOLEAN
    BY DEF AllWhole, PanelStates
  <2>2. QED
    BY <2>1 DEF Whole
<1>4. Whole(n, p)
  <2>1. n.due[p] = <<Waits(p, "hidden", TRUE)>> /\ n.grouped[p] = n.parent
    BY <1>1, <1>2, <1>3, OneDue
  <2>2. QED
    BY <1>1, <2>1 DEF Whole
<1>5. ASSUME NEW q \in Panels
      PROVE  Whole(n, q)
  <2>1. CASE q = p
    BY <1>4, <2>1
  <2>2. CASE q # p
    <3>1. Whole(s, q) /\ SamePanel(s, n, q) /\ n.grouped[q] = s.grouped[q]
      BY <1>1, <2>2 DEF AllWhole
    <3>2. QED
      BY <1>2, <3>1, SameWhole
  <2>3. QED
    BY <2>1, <2>2
<1>6. ASSUME n.parent, NEW q \in Panels
      PROVE  n.collapsed[q] /\ n.class[q] # "in"
  <2>1. CASE q = p
    BY <1>1, <2>1
  <2>2. CASE q # p
    <3>1. s.collapsed[q]
      BY <1>2, <1>3, <1>6, <2>2 DEF AllWhole
    <3>2. s.class[q] # "in"
      <4>1. Whole(s, q)
        BY DEF AllWhole
      <4>2. QED
        BY <3>1, <4>1 DEF Whole
    <3>3. QED
      BY <1>1, <2>2, <3>1, <3>2 DEF SamePanel
  <2>3. QED
    BY <2>1, <2>2
<1>7. AllWhole(n)
  BY <1>5, <1>6 DEF AllWhole
<1>8. \A r \in Panels : n.data[r] # "none" => s.data[r] # "none"
  BY <1>1 DEF SamePanel
<1>9. ASSUME n.parent, NEW q \in Panels, NEW r \in Panels, NEW t \in Panels,
             n.class[q] = "collapsing", n.data[q] = "none", n.data[r] # "none", n.data[t] # "none"
      PROVE  r = t
  <2>1. q # p
    BY <1>1, <1>9
  <2>2. s.class[q] = "collapsing" /\ s.data[q] = "none"
    BY <1>1, <1>9, <2>1 DEF SamePanel
  <2>3. s.data[r] # "none" /\ s.data[t] # "none" /\ s.parent
    BY <1>2, <1>8, <1>9
  <2>4. QED
    BY <2>2, <2>3
<1>10. Orderly(n)
  BY <1>6, <1>7, <1>9 DEF Orderly
<1>11. QED
  BY <1>10 DEF n

\* A panel that is at rest when it is used for the first time.
LEMMA UsedWhole ==
    ASSUME PanelsSafe(page), Orderly(page), NEW p \in Panels, page.data[p] = "none",
           \A q \in Panels : page.class[q] # "collapsing"
    PROVE  LET n == Accordion!Used(p, page.parent) IN
           /\ AllWhole(n) /\ n.data[p] = "idle" /\ n.class = page.class
           /\ \A q \in Panels \ {p} : n.data[q] = page.data[q]
<1> DEFINE m == Accordion!Made(page, {p}, page.parent)
           n == Accordion!Used(p, page.parent)
<1>1. page \in PanelStates /\ {p} \in SUBSET Panels /\ page.parent \in BOOLEAN
  BY DEF PanelsSafe, PanelStates
<1>2. /\ m.class = page.class /\ m.due = page.due
      /\ \A q \in Panels :
            /\ m.data[q] = IF q \in {p} THEN "idle" ELSE page.data[q]
            /\ m.grouped[q] = IF q \in {p} THEN page.parent ELSE page.grouped[q]
            /\ m.collapsed[q] = IF page.parent \/ q \in {p} THEN page.class[q] # "in"
                                ELSE page.collapsed[q]
  BY <1>1, MadeIs
<1>3. /\ n.parent = page.parent
      /\ n.class = m.class /\ n.data = m.data /\ n.due = m.due
      /\ n.grouped = m.grouped /\ n.collapsed = m.collapsed
  BY <1>1, UsedIs
<1> HIDE DEF n, m
<1>4. ASSUME NEW q \in Panels
      PROVE  /\ page.due[q] = <<>> /\ page.data[q] # "transitioning"
             /\ page.collapsed[q] = (page.class[q] # "in")
             /\ page.data[q] # "none" => page.grouped[q] = page.parent
  <2>1. Whole(page, q) /\ page.class[q] # "collapsing"
    BY DEF Orderly, AllWhole
  <2>2. QED
    BY <2>1 DEF Whole
<1>5. ASSUME NEW q \in Panels
      PROVE  n.collapsed[q] = page.collapsed[q] /\ n.collapsed[q] = (n.class[q] # "in")
  <2>1. m.collapsed[q] = page.collapsed[q]
    BY <1>2, <1>4
  <2>2. QED
    BY <1>2, <1>3, <1>4, <2>1
<1>6. ASSUME NEW q \in Panels
      PROVE  Whole(n, q)
  <2>1. n.class[q] # "collapsing" /\ n.due[q] = <<>>
    BY <1>2, <1>3, <1>4
  <2>2. n.data[q] # "transitioning" /\ (n.data[q] # "none" => n.grouped[q] = n.parent)
    BY <1>2, <1>3, <1>4
  <2>3. QED
    BY <1>5, <2>1, <2>2 DEF Whole
<1>7. page.parent => \A q, r \in Panels : ~page.collapsed[q] /\ ~page.collapsed[r] => q = r
  BY DEF Orderly, AllWhole
<1>8. AllWhole(n)
  <2>1. n.parent => \A q, r \in Panels : ~n.collapsed[q] /\ ~n.collapsed[r] => q = r
    BY <1>3, <1>5, <1>7
  <2>2. QED
    BY <1>6, <2>1 DEF AllWhole
<1>9. QED
  BY <1>2, <1>3, <1>8 DEF n

LEMMA ClickOrderly ==
    ASSUME PanelsInv(page), NEW p \in Panels, Accordion!Click(p)
    PROVE  PanelsInv(page')
<1> DEFINE n == Accordion!Used(p, page.parent)
           m == Accordion!Toggle(n, p, page.data)
<1>1. page' = m
  BY DEF Accordion!Click
<1>2. /\ PanelsSafe(page) /\ page \in PanelStates /\ page.parent \in BOOLEAN
      /\ page.data \in [Panels -> {"none", "idle", "transitioning"}]
      /\ page.class \in [Panels -> {"collapse", "collapsing", "in"}]
      /\ {p} \in SUBSET Panels
  BY DEF PanelsInv, PanelsSafe, PanelStates, Accordion!Classes
<1>3. /\ PanelsSafe(n) /\ n.scripted = page.scripted /\ n.parent = page.parent
      /\ page.data[p] # "none" => n = page
      /\ page.data[p] = "none" =>
            n.hurried = (page.hurried \/ \E q \in Panels : page.class[q] = "collapsing")
  BY <1>2, UsedIs
<1>4. ASSUME page.data[p] = "none", Orderly(page),
             \A q \in Panels : page.class[q] # "collapsing"
      PROVE  /\ AllWhole(n) /\ n.data[p] = "idle" /\ n.class = page.class
             /\ \A q \in Panels \ {p} : n.data[q] = page.data[q]
  BY <1>2, <1>4, UsedWhole
<1> HIDE DEF n
<1>5. m = IF n.class[p] = "in" THEN Accordion!Hide(n, {p}) ELSE Accordion!Show(n, p, page.data)
  BY DEF Accordion!Toggle
<1>6. n \in PanelStates
  BY <1>3 DEF PanelsSafe
<1>7. SamePage(n, m)
  <2>1. SamePage(n, Accordion!Hide(n, {p}))
    BY <1>2, <1>6, HideIs
  <2>2. SamePage(n, Accordion!Show(n, p, page.data))
    BY <1>2, <1>3, ShowSame
  <2>3. QED
    BY <1>5, <2>1, <2>2
<1>8. PanelsSafe(m)
  BY <1>2, <1>3, ToggleSafe
<1> HIDE DEF m
<1>9. ASSUME ~m.hurried, ~m.scripted
      PROVE  Orderly(m)
  <2>1. ~n.hurried /\ ~page.scripted
    BY <1>3, <1>7, <1>9 DEF SamePage
  <2>2. CASE page.data[p] = "none"
    <3>1. ~page.hurried /\ \A q \in Panels : page.class[q] # "collapsing"
      BY <1>3, <2>1, <2>2
    <3>2. Orderly(page)
      BY <2>1, <3>1 DEF PanelsInv
    <3>3. /\ AllWhole(n) /\ n.data[p] = "idle" /\ n.class = page.class
          /\ \A q \in Panels \ {p} : n.data[q] = page.data[q]
      BY <1>4, <2>2, <3>1, <3>2
    <3>4. \A q \in Panels : n.class[q] # "collapsing" /\ n.class[q] \in {"collapse", "in"}
      BY <1>2, <3>1, <3>3
    <3>5. CASE n.class[p] = "in"
      BY <1>5, <1>6, <3>3, <3>4, <3>5, HideOrderly
    <3>6. CASE n.class[p] # "in"
      <4>1. n.class[p] = "collapse"
        BY <3>4, <3>6
      <4>2. ASSUME n.parent, NEW q \in Panels, NEW r \in Panels,
                   n.data[q] = "none", n.class[q] # "collapse", r # p
            PROVE  n.data[r] = "none"
        <5>1. q # p
          BY <3>3, <4>2
        <5>2. page.class[q] = "in" /\ page.data[q] = "none" /\ page.parent
          BY <1>3, <3>3, <3>4, <4>2, <5>1
        <5>3. page.data[r] = "none"
          BY <3>2, <5>2 DEF Orderly
        <5>4. QED
          BY <3>3, <4>2, <5>3
      <4>3. Ready(n, p)
        BY <3>3, <4>1, <4>2 DEF Ready
      <4>4. Orderly(Accordion!Show(n, p, page.data))
        BY <1>2, <1>6, <3>3, <4>3, ShowOrderly
      <4>5. QED
        BY <1>5, <3>6, <4>4
    <3>7. QED
      BY <3>5, <3>6
  <2>3. CASE page.data[p] # "none"
    <3>1. n = page /\ Orderly(page)
      BY <1>3, <2>1, <2>3 DEF PanelsInv
    <3>2. Whole(page, p) /\ AllWhole(page)
      BY <3>1 DEF Orderly, AllWhole
    <3>3. page.data[p] \in {"idle", "transitioning"}
      BY <1>2, <2>3
    <3>4. CASE page.class[p] = "in"
      <4>1. page.data[p] = "idle"
        BY <3>2, <3>3, <3>4 DEF Whole
      <4>2. page.parent => \A q, r, t \in Panels :
               page.class[q] = "collapsing" /\ page.data[q] = "none" /\ page.data[r] # "none"
                   /\ page.data[t] # "none" => r = t
        BY <3>1 DEF Orderly
      <4>3. Orderly(Accordion!Hide(page, {p}))
        BY <1>2, <3>2, <3>4, <4>1, <4>2, HideOrderly
      <4>4. QED
        BY <1>5, <3>1, <3>4, <4>3
    <3>5. CASE page.class[p] = "collapsing"
      <4>1. page.data[p] = "transitioning"
        BY <2>3, <3>2, <3>5 DEF Whole
      <4>2. Accordion!Show(page, p, page.data) = page
        BY <4>1 DEF Accordion!Show
      <4>3. QED
        BY <1>5, <3>1, <3>5, <4>2
    <3>6. CASE page.class[p] = "collapse"
      <4>1. page.data[p] = "idle"
        BY <3>2, <3>3, <3>6 DEF Whole
      <4>2. ASSUME page.parent, NEW q \in Panels, NEW r \in Panels,
                   page.data[q] = "none", page.class[q] # "collapse", r # p
            PROVE  page.data[r] = "none"
        <5>1. /\ page.class[q] = "in" /\ page.data[q] = "none" => page.data[p] = "none"
              /\ page.class[q] = "collapsing" /\ page.data[q] = "none" /\ page.data[r] # "none"
                   /\ page.data[p] # "none" => r = p
          BY <3>1, <4>2 DEF Orderly
        <5>2. page.class[q] \in {"in", "collapsing"}
          BY <1>2, <4>2
        <5>3. QED
          BY <4>1, <4>2, <5>1, <5>2
      <4>3. Ready(page, p)
        BY <3>2, <3>6, <4>1, <4>2 DEF Ready
      <4>4. Orderly(Accordion!Show(page, p, page.data))
        BY <1>2, <4>3, ShowOrderly
      <4>5. QED
        BY <1>5, <3>1, <3>6, <4>4
    <3>7. QED
      BY <1>2, <3>4, <3>5, <3>6
  <2>4. QED
    BY <2>2, <2>3
<1>10. QED
  BY <1>1, <1>8, <1>9 DEF PanelsInv

LEMMA EndOrderly ==
    ASSUME PanelsSafe(page), Orderly(page), NEW p \in Panels, Accordion!TransitionEnd(p)
    PROVE  Orderly(page')
<1> DEFINE list == page.due[p]
           none == [page.due EXCEPT ![p] = <<>>]
           s == [page EXCEPT !.due = none]
           m == page'
<1>1. page \in PanelStates /\ Watched(page, p)
  BY DEF PanelsSafe
<1>2. list \in Seq(Accordion!Due) /\ list # <<>> /\ Whole(page, p)
  BY <1>1 DEF Accordion!TransitionEnd, PanelStates, Orderly, AllWhole
<1>3. m = Accordion!Ends!Fire(s, list)
  BY <1>1 DEF Accordion!TransitionEnd, PanelStates
<1>4. \E c \in Accordion!Due :
         /\ list = <<c>> /\ c.panel = p
         /\ page.class[p] = "collapsing"
         /\ page.collapsed[p] = (c.what # "shown")
         /\ page.data[p] = IF c.live THEN "transitioning" ELSE "none"
         /\ c.what = "shown" => c.live
  <2>1. CASE list = <<Waits(p, "shown", TRUE)>>
    <3> DEFINE c == Waits(p, "shown", TRUE)
    <3>1. c \in Accordion!Due /\ c.panel = p /\ c.what = "shown" /\ c.live = TRUE
      BY DEF Waits, Accordion!Due
    <3>2. /\ page.class[p] = "collapsing" /\ page.data[p] = "transitioning"
          /\ page.collapsed[p] = FALSE
      BY <1>2, <2>1 DEF Whole, Waits
    <3> HIDE DEF c
    <3>3. list = <<c>>
      BY <2>1 DEF c
    <3> HIDE DEF list
    <3>4. QED
      BY <3>1, <3>2, <3>3
  <2>2. CASE list = <<Waits(p, "hidden", TRUE)>>
    <3> DEFINE c == Waits(p, "hidden", TRUE)
    <3>1. c \in Accordion!Due /\ c.panel = p /\ c.what = "hidden" /\ c.live = TRUE
      BY DEF Waits, Accordion!Due
    <3>2. /\ page.class[p] = "collapsing" /\ page.data[p] = "transitioning"
          /\ page.collapsed[p] = TRUE
      BY <1>2, <2>2 DEF Whole, Waits
    <3> HIDE DEF c
    <3>3. list = <<c>>
      BY <2>2 DEF c
    <3> HIDE DEF list
    <3>4. QED
      BY <3>1, <3>2, <3>3
  <2>3. CASE list = <<Waits(p, "hidden", FALSE)>>
    <3> DEFINE c == Waits(p, "hidden", FALSE)
    <3>1. c \in Accordion!Due /\ c.panel = p /\ c.what = "hidden" /\ c.live = FALSE
      BY DEF Waits, Accordion!Due
    <3>2. /\ page.class[p] = "collapsing" /\ page.data[p] = "none"
          /\ page.collapsed[p] = TRUE
      BY <1>2, <2>3 DEF Whole, Waits
    <3> HIDE DEF c
    <3>3. list = <<c>>
      BY <2>3 DEF c
    <3> HIDE DEF list
    <3>4. QED
      BY <3>1, <3>2, <3>3
  <2>4. QED
    BY <1>2, <2>1, <2>2, <2>3 DEF Whole
<1> HIDE DEF list
<1>5. PICK c \in Accordion!Due :
         /\ list = <<c>> /\ c.panel = p
         /\ page.class[p] = "collapsing"
         /\ page.collapsed[p] = (c.what # "shown")
         /\ page.data[p] = IF c.live THEN "transitioning" ELSE "none"
         /\ c.what = "shown" => c.live
  BY <1>4
<1>6. m = Accordion!Complete(s, c)
  <2>1. Len(list) = 1 /\ list[1] = c
    BY <1>5
  <2>2. QED
    BY <1>3, <2>1, Accordion!Ends!FireOne
<1>7. /\ none \in [Panels -> Seq(Accordion!Due)]
      /\ none[p] = <<>> /\ \A q \in Panels \ {p} : none[q] = page.due[q]
  BY <1>1 DEF PanelStates
<1> HIDE DEF none
<1>8. /\ s \in PanelStates /\ s.due = none /\ s.class = page.class /\ s.data = page.data
      /\ s.collapsed = page.collapsed /\ s.grouped = page.grouped /\ s.parent = page.parent
  BY <1>1, <1>7 DEF PanelStates
<1> HIDE DEF s
<1>9. /\ m.due = none /\ m.collapsed = page.collapsed /\ m.grouped = page.grouped
      /\ m.parent = page.parent
      /\ m.class[p] = IF c.what = "shown" THEN "in" ELSE "collapse"
      /\ m.data[p] = IF c.live THEN "idle" ELSE page.data[p]
      /\ \A q \in Panels \ {p} : SamePanel(s, m, q)
  BY <1>5, <1>6, <1>8, CompleteIs DEF SamePage
<1>10. \A q \in Panels \ {p} : SamePanel(page, m, q)
  BY <1>7, <1>8, <1>9 DEF SamePanel
<1> HIDE DEF m
<1>11. c.what \in {"shown", "hidden"} /\ c.live \in BOOLEAN
  BY DEF Accordion!Due
<1>12. Whole(m, p)
  <2>1. m.due[p] = <<>> /\ m.class[p] # "collapsing" /\ m.data[p] # "transitioning"
    BY <1>5, <1>7, <1>9
  <2>2. m.collapsed[p] = (m.class[p] # "in")
    BY <1>5, <1>9, <1>11
  <2>3. m.data[p] # "none" => page.data[p] # "none"
    BY <1>5, <1>9
  <2>4. m.data[p] # "none" => m.grouped[p] = m.parent
    BY <1>2, <1>9, <2>3 DEF Whole
  <2>5. QED
    BY <2>1, <2>2, <2>4 DEF Whole
<1>13. ASSUME NEW q \in Panels
       PROVE  Whole(m, q)
  <2>1. CASE q = p
    BY <1>12, <2>1
  <2>2. CASE q # p
    <3>1. Whole(page, q) /\ SamePanel(page, m, q)
      BY <1>10, <2>2 DEF Orderly, AllWhole
    <3>2. QED
      BY <1>9, <3>1, SameWhole
  <2>3. QED
    BY <2>1, <2>2
<1>14. AllWhole(m)
  <2>1. m.parent => \A q, r \in Panels : ~m.collapsed[q] /\ ~m.collapsed[r] => q = r
    BY <1>9 DEF Orderly, AllWhole
  <2>2. QED
    BY <1>13, <2>1 DEF AllWhole
<1>15. \A q \in Panels : m.data[q] = "none" <=> page.data[q] = "none"
  <2>1. m.data[p] = "none" <=> page.data[p] = "none"
    BY <1>5, <1>9
  <2>2. QED
    BY <1>10, <2>1 DEF SamePanel
<1>16. ASSUME m.parent, NEW q \in Panels, NEW r \in Panels,
              m.class[q] = "in", m.data[q] = "none"
       PROVE  m.data[r] = "none"
  <2>1. q # p
    BY <1>5, <1>9, <1>11, <1>16
  <2>2. page.class[q] = "in" /\ page.data[q] = "none" /\ page.parent
    BY <1>9, <1>10, <1>16, <2>1 DEF SamePanel
  <2>3. page.data[r] = "none"
    BY <2>2 DEF Orderly
  <2>4. QED
    BY <1>15, <2>3
<1>17. ASSUME m.parent, NEW q \in Panels, NEW r \in Panels, NEW t \in Panels,
              m.class[q] = "collapsing", m.data[q] = "none",
              m.data[r] # "none", m.data[t] # "none"
       PROVE  r = t
  <2>1. q # p
    BY <1>9, <1>17
  <2>2. page.class[q] = "collapsing" /\ page.data[q] = "none" /\ page.parent
    BY <1>9, <1>10, <1>17, <2>1 DEF SamePanel
  <2>3. page.data[r] # "none" /\ page.data[t] # "none"
    BY <1>15, <1>17
  <2>4. QED
    BY <2>2, <2>3 DEF Orderly
<1>18. Orderly(m)
  BY <1>14, <1>16, <1>17 DEF Orderly
<1>19. QED
  BY <1>18 DEF m

LEMMA PanelsInit ==
    ASSUME Accordion!Init
    PROVE  PanelsInv(page)
<1>1. PICK initial \in {{}} \cup {{p} : p \in Panels} :
        page \in [
          parent : BOOLEAN, scripted : BOOLEAN,
          class : {[p \in Panels |-> IF p \in initial THEN "in" ELSE "collapse"]},
          collapsed : {[p \in Panels |-> p \notin initial]},
          data : {[p \in Panels |-> "none"]}, grouped : {[p \in Panels |-> FALSE]},
          due : {[p \in Panels |-> <<>>]}, hurried : {FALSE}]
  BY DEF Accordion!Init
<1>2. /\ page.class = [p \in Panels |-> IF p \in initial THEN "in" ELSE "collapse"]
      /\ page.collapsed = [p \in Panels |-> p \notin initial]
      /\ page.data = [p \in Panels |-> "none"] /\ page.due = [p \in Panels |-> <<>>]
  BY <1>1
<1>3. \A q \in Panels :
         /\ page.class[q] # "collapsing" /\ page.due[q] = <<>> /\ page.data[q] = "none"
         /\ page.collapsed[q] = (q \notin initial)
         /\ page.class[q] = "in" <=> q \in initial
  BY <1>2
<1>4. page \in PanelStates
  <2> DEFINE class == [p \in Panels |-> IF p \in initial THEN "in" ELSE "collapse"]
             collapsed == [p \in Panels |-> p \notin initial]
             data == [p \in Panels |-> "none"]
             grouped == [p \in Panels |-> FALSE]
             due == [p \in Panels |-> <<>>]
  <2>1. class \in [Panels -> Accordion!Classes]
    BY DEF Accordion!Classes
  <2>2. collapsed \in [Panels -> BOOLEAN] /\ grouped \in [Panels -> BOOLEAN]
    OBVIOUS
  <2>3. data \in [Panels -> {"none", "idle", "transitioning"}]
    OBVIOUS
  <2>4. due \in [Panels -> Seq(Accordion!Due)]
    OBVIOUS
  <2>5. page \in [
          parent : BOOLEAN, scripted : BOOLEAN, class : {class}, collapsed : {collapsed},
          data : {data}, grouped : {grouped}, due : {due}, hurried : {FALSE}]
    BY <1>1
  <2> HIDE DEF class, collapsed, data, grouped, due
  <2>6. QED
    BY <2>1, <2>2, <2>3, <2>4, <2>5 DEF PanelStates
<1>5. PanelsSafe(page)
  <2>1. DOMAIN <<>> = {}
    OBVIOUS
  <2>2. \A q \in Panels : Watched(page, q)
    BY <1>3, <2>1 DEF Watched
  <2>3. QED
    BY <1>4, <2>2 DEF PanelsSafe
<1>6. \A q \in Panels : page.collapsed[q] = (page.class[q] # "in")
  BY <1>3
<1>7. \A q \in Panels : Whole(page, q)
  BY <1>3, <1>6 DEF Whole
<1>8. \A q, r \in Panels : ~page.collapsed[q] /\ ~page.collapsed[r] => q = r
  <2>1. \A q, r \in initial : q = r
    BY <1>1
  <2>2. QED
    BY <1>3, <2>1
<1>9. Orderly(page)
  <2>1. AllWhole(page)
    BY <1>7, <1>8 DEF AllWhole
  <2>2. QED
    BY <1>3, <2>1 DEF Orderly
<1>10. QED
  BY <1>5, <1>9 DEF PanelsInv

LEMMA PanelsNext ==
    ASSUME PanelsInv(page), Accordion!Next
    PROVE  PanelsInv(page')
<1>1. PICK p \in Panels : \/ Accordion!Click(p) \/ Accordion!CallShow(p)
                          \/ Accordion!CallHide(p) \/ Accordion!TransitionEnd(p)
  BY DEF Accordion!Next
<1> DEFINE n == Accordion!Used(p, FALSE)
<1>2. PanelsSafe(page) /\ PanelsSafe(n) /\ n.scripted = page.scripted
  BY UsedIs DEF PanelsInv
<1>3. CASE Accordion!Click(p)
  BY <1>3, ClickOrderly
<1>4. CASE Accordion!CallShow(p)
  <2>1. page.scripted /\ page' = Accordion!Show(n, p, n.data)
    BY <1>4 DEF Accordion!CallShow
  <2> HIDE DEF n
  <2>2. n.data \in [Panels -> {"none", "idle", "transitioning"}]
    BY <1>2 DEF PanelsSafe, PanelStates
  <2>3. PanelsSafe(page') /\ SamePage(n, page')
    BY <1>2, <2>1, <2>2, ShowSafe, ShowSame
  <2>4. QED
    BY <1>2, <2>1, <2>3 DEF PanelsInv, SamePage
<1>5. CASE Accordion!CallHide(p)
  <2>1. page.scripted /\ page' = Accordion!Hide(n, {p}) /\ {p} \in SUBSET Panels
    BY <1>5 DEF Accordion!CallHide
  <2> HIDE DEF n
  <2>2. n \in PanelStates
    BY <1>2 DEF PanelsSafe
  <2>3. PanelsSafe(page') /\ SamePage(n, page')
    BY <1>2, <2>1, <2>2, HideSafe, HideIs
  <2>4. QED
    BY <1>2, <2>1, <2>3 DEF PanelsInv, SamePage
<1>6. CASE Accordion!TransitionEnd(p)
  <2>1. PanelsSafe(page') /\ SamePage(page, page')
    BY <1>2, <1>6, EndSafe
  <2>2. Orderly(page) => Orderly(page')
    BY <1>2, <1>6, EndOrderly
  <2>3. QED
    BY <2>1, <2>2 DEF PanelsInv, SamePage
<1>7. QED
  BY <1>1, <1>3, <1>4, <1>5, <1>6

LEMMA PanelsKept == BrowserSpec => [](part = "panels" => PanelsInv(page))
<1>1. BrowserInit => (part = "panels" => PanelsInv(page))
  BY PartInit, PanelsInit
<1>2. (part = "panels" => PanelsInv(page)) /\ [BrowserNext]_browser
         => (part = "panels" => PanelsInv(page))'
  BY PartNext, PanelsNext
<1>3. QED
  BY <1>1, <1>2, PTL DEF BrowserSpec

(* When the transitions are over no panel of an accordion moves; unless the page    *)
(* calls methods, or used a panel while another moved, a trigger tells what is open *)
(* and one panel is open at most (Collapse in bootstrap.js).                        *)
THEOREM PanelsStayAgreed == BrowserSpec => []PanelsAgree
<1>1. (part = "panels" => PanelsInv(page)) => PanelsAgree
  <2> SUFFICES ASSUME PanelsInv(page), \A p \in Panels : page.due[p] = <<>>
               PROVE  /\ \A p \in Panels : page.class[p] # "collapsing"
                                           /\ page.data[p] # "transitioning"
                      /\ ~page.hurried /\ ~page.scripted =>
                            /\ \A p \in Panels : page.collapsed[p] = (page.class[p] # "in")
                            /\ page.parent =>
                                 Accordion!Cardinality({p \in Panels : page.class[p] = "in"}) <= 1
    BY DEF PanelsAgree, Accordion!PanelsAgree, Accordion!AtRest
  <2>1. ASSUME NEW p \in Panels
        PROVE  page.class[p] # "collapsing" /\ page.data[p] # "transitioning"
    <3>1. Watched(page, p) /\ page.due[p] = <<>> /\ DOMAIN <<>> = {}
      BY DEF PanelsInv, PanelsSafe
    <3>2. QED
      BY <3>1 DEF Watched
  <2>2. ASSUME ~page.hurried, ~page.scripted
        PROVE  /\ \A p \in Panels : page.collapsed[p] = (page.class[p] # "in")
               /\ page.parent =>
                    Accordion!Cardinality({p \in Panels : page.class[p] = "in"}) <= 1
    <3> DEFINE open == {p \in Panels : page.class[p] = "in"}
    <3>1. Orderly(page)
      BY <2>2 DEF PanelsInv
    <3>2. \A p \in Panels : page.collapsed[p] = (page.class[p] # "in")
      BY <2>1, <3>1 DEF Orderly, AllWhole, Whole
    <3>3. page.parent => \A p, q \in open : p = q
      BY <3>1, <3>2 DEF Orderly, AllWhole
    <3> HIDE DEF open
    <3>4. page.parent => Cardinality(open) <= 1
      BY <3>3, AtMostOne
    <3>5. Accordion!Cardinality(open) = Cardinality(open)
      BY DEF Accordion!Cardinality, Cardinality
    <3>6. QED
      BY <3>2, <3>4, <3>5 DEF open
  <2>3. QED
    BY <2>1, <2>2
<1>2. QED
  BY PanelsKept, <1>1, PTL

(***************************************************************************)
(* Where a tip is put.                                                      *)
(***************************************************************************)
PlaceStates == [bodyWidth : BodyWidths, left : Nat, top : Nat, scrollLeft : Nat, scrollTop : Nat,
                placement : Placing!Placements, auto : BOOLEAN]

\* A page that is not wider than the window is not scrolled across.
PlaceInv(s) ==
    /\ s \in PlaceStates
    /\ s.scrollLeft = 0 \/ s.scrollLeft <= s.bodyWidth - WindowWidth

LEMMA PlaceInit ==
    ASSUME Placing!Init
    PROVE  PlaceInv(page)
<1>1. PICK w \in BodyWidths :
        page \in [bodyWidth : {w}, left : Placing!Multiples(w - ElementWidth),
                  top : Placing!Multiples(BodyHeight - ElementHeight),
                  scrollLeft : {0}, scrollTop : {0}, placement : Placing!Placements,
                  auto : BOOLEAN]
  BY DEF Placing!Init
<1>2. w \in Int /\ w - ElementWidth \in Int /\ BodyHeight - ElementHeight \in Int
  BY TipAssumption
<1>3. /\ Placing!Multiples(w - ElementWidth) \subseteq Nat
      /\ Placing!Multiples(BodyHeight - ElementHeight) \subseteq Nat
  BY <1>2 DEF Placing!Multiples
<1>4. QED
  BY <1>1, <1>3 DEF PlaceInv, PlaceStates

LEMMA PlaceNext ==
    ASSUME PlaceInv(page), Placing!Scroll
    PROVE  PlaceInv(page')
<1>1. PICK x \in Placing!Multiples(page.bodyWidth - WindowWidth),
           y \in Placing!Multiples(BodyHeight - WindowHeight) :
        page' = [page EXCEPT !.scrollLeft = x, !.scrollTop = y]
  BY DEF Placing!Scroll
<1>2. page \in PlaceStates
  BY DEF PlaceInv
<1>3. page.bodyWidth - WindowWidth \in Int /\ BodyHeight - WindowHeight \in Int
  <2>1. page.bodyWidth \in BodyWidths
    BY <1>2 DEF PlaceStates
  <2>2. page.bodyWidth \in Nat
    BY <2>1, TipAssumption
  <2>3. WindowWidth \in Nat /\ BodyHeight \in Nat /\ WindowHeight \in Nat
    BY TipAssumption
  <2>4. QED
    BY <2>2, <2>3
<1>4. x \in Nat /\ y \in Nat /\ x <= page.bodyWidth - WindowWidth
  BY <1>3 DEF Placing!Multiples
<1>5. page' \in PlaceStates /\ page'.scrollLeft = x /\ page'.bodyWidth = page.bodyWidth
  BY <1>1, <1>2, <1>4 DEF PlaceStates
<1>6. QED
  BY <1>4, <1>5 DEF PlaceInv

LEMMA PlaceKept == BrowserSpec => [](part = "place" => PlaceInv(page))
<1>1. BrowserInit => (part = "place" => PlaceInv(page))
  BY PartInit, PlaceInit
<1>2. (part = "place" => PlaceInv(page)) /\ [BrowserNext]_browser
        => (part = "place" => PlaceInv(page))'
  BY PartNext, PlaceNext
<1>3. QED
  BY <1>1, <1>2, PTL DEF BrowserSpec

\* applyPlacement() from a state, with the side, the offset and what is added to it
\* named.
LEMMA OffsetIs ==
    ASSUME NEW s \in PlaceStates
    PROVE  LET side   == Placing!Placed(s)
               offset == Placing!getCalculatedOffset(side, Placing!PositionOf(s))
               right  == s.bodyWidth - s.scrollLeft
               top    == IF offset.top - s.scrollTop < 0 THEN s.scrollTop
                         ELSE IF offset.top - s.scrollTop + TipHeight > WindowHeight
                         THEN s.scrollTop + WindowHeight - TipHeight ELSE offset.top
               left   == IF offset.left < 0 THEN 0
                         ELSE IF offset.left + TipWidth > right THEN WindowWidth - TipWidth
                         ELSE offset.left
           IN  /\ side \in Placing!Placements
               /\ offset.top \in Int /\ offset.left \in Int
               /\ side = "left" => offset.left = s.left - TipWidth
               /\ side = "right" => offset.left = s.left + ElementWidth
               /\ side = "top" => offset.top = s.top - TipHeight
               /\ side = "bottom" => offset.top = s.top + ElementHeight
               /\ Placing!Offset(s).left = IF side \in {"left", "right"} THEN offset.left ELSE left
               /\ Placing!Offset(s).top = IF side \in {"left", "right"} THEN top ELSE offset.top
<1> DEFINE pos == Placing!PositionOf(s)
           side == Placing!Placed(s)
           offset == Placing!getCalculatedOffset(side, pos)
           delta == Placing!getViewportAdjustedDelta(s, side, offset)
           right == s.bodyWidth - s.scrollLeft
<1>1. /\ s.bodyWidth \in Nat /\ s.left \in Nat /\ s.top \in Nat /\ s.scrollLeft \in Nat
      /\ s.scrollTop \in Nat /\ s.placement \in Placing!Placements
  BY TipAssumption DEF PlaceStates
<1>2. /\ TipWidth \in Nat /\ TipHeight \in Nat /\ WindowWidth \in Nat /\ WindowHeight \in Nat
      /\ ElementWidth \in Nat /\ ElementHeight \in Nat
  BY TipAssumption
<1>3. /\ pos.left = s.left /\ pos.top = s.top /\ pos.width = ElementWidth
      /\ pos.height = ElementHeight
  BY DEF Placing!PositionOf
<1>4. side \in Placing!Placements
  BY <1>1 DEF Placing!Placed, Placing!Placements
<1> HIDE DEF pos, side
<1>5. Placing!Across(pos) \in Int /\ Placing!Along(pos) \in Int
  BY <1>1, <1>2, <1>3 DEF Placing!Across, Placing!Along
<1>6. /\ side = "bottom" => offset = [top |-> s.top + ElementHeight, left |-> Placing!Across(pos)]
      /\ side = "top" => offset = [top |-> s.top - TipHeight, left |-> Placing!Across(pos)]
      /\ side = "left" => offset = [top |-> Placing!Along(pos), left |-> s.left - TipWidth]
      /\ side = "right" => offset = [top |-> Placing!Along(pos), left |-> s.left + ElementWidth]
  BY <1>3 DEF Placing!getCalculatedOffset
<1>7. /\ offset.top \in Int /\ offset.left \in Int
      /\ side = "left" => offset.left = s.left - TipWidth
      /\ side = "right" => offset.left = s.left + ElementWidth
      /\ side = "top" => offset.top = s.top - TipHeight
      /\ side = "bottom" => offset.top = s.top + ElementHeight
      /\ offset = [top |-> offset.top, left |-> offset.left]
  BY <1>1, <1>2, <1>4, <1>5, <1>6 DEF Placing!Placements
<1> HIDE DEF offset
<1>8. delta = IF side \in {"right", "left"}
              THEN [left |-> 0,
                    top |-> IF offset.top - s.scrollTop < 0 THEN 0 - (offset.top - s.scrollTop)
                            ELSE IF offset.top - s.scrollTop + TipHeight > 0 + WindowHeight
                            THEN 0 + WindowHeight - (offset.top - s.scrollTop + TipHeight) ELSE 0]
              ELSE [top |-> 0,
                    left |-> IF offset.left < 0 THEN 0 - offset.left
                             ELSE IF offset.left + TipWidth > right
                             THEN 0 + WindowWidth - (offset.left + TipWidth) ELSE 0]
  BY DEF Placing!getViewportAdjustedDelta, Placing!PositionOfBody
<1> HIDE DEF delta, right
<1>9. Placing!Offset(s) = IF delta.left # 0 THEN [offset EXCEPT !.left = @ + delta.left]
                                            ELSE [offset EXCEPT !.top = @ + delta.top]
  BY DEF Placing!Offset, delta, offset, side, pos
<1>10. /\ Placing!Offset(s).left = IF delta.left # 0 THEN offset.left + delta.left ELSE offset.left
       /\ Placing!Offset(s).top = IF delta.left # 0 THEN offset.top ELSE offset.top + delta.top
  BY <1>7, <1>9
<1> DEFINE top == IF offset.top - s.scrollTop < 0 THEN s.scrollTop
                  ELSE IF offset.top - s.scrollTop + TipHeight > WindowHeight
                  THEN s.scrollTop + WindowHeight - TipHeight ELSE offset.top
           left == IF offset.left < 0 THEN 0
                   ELSE IF offset.left + TipWidth > right THEN WindowWidth - TipWidth
                   ELSE offset.left
<1>11. right \in Int
  BY <1>1 DEF right
<1>12. CASE side \in {"left", "right"}
  <2>1. delta.left = 0 /\ offset.top + delta.top = top
    BY <1>1, <1>2, <1>7, <1>8, <1>12
  <2>2. Placing!Offset(s).left = offset.left /\ Placing!Offset(s).top = top
    BY <1>10, <2>1
  <2> HIDE DEF top, left
  <2>3. QED
    BY <1>4, <1>7, <1>12, <2>2 DEF top, left, side, pos, offset, right
<1>13. CASE ~(side \in {"left", "right"})
  <2>1. delta.top = 0 /\ delta.left \in Int /\ offset.left + delta.left = left
    BY <1>2, <1>7, <1>8, <1>11, <1>13
  <2>2. Placing!Offset(s).left = left /\ Placing!Offset(s).top = offset.top
    BY <1>7, <1>10, <2>1
  <2> HIDE DEF top, left
  <2>3. QED
    BY <1>4, <1>7, <1>13, <2>2 DEF top, left, side, pos, offset, right
<1>14. QED
  BY <1>12, <1>13

\* A tip does not cover its element, and stays inside its viewport.
LEMMA PlacedWell ==
    ASSUME PlaceInv(page)
    PROVE  Placing!TipFits
<1> DEFINE s == page
           side == Placing!Placed(s)
           offset == Placing!getCalculatedOffset(side, Placing!PositionOf(s))
           at == Placing!Offset(s)
           right == s.bodyWidth - s.scrollLeft
           top == IF offset.top - s.scrollTop < 0 THEN s.scrollTop
                  ELSE IF offset.top - s.scrollTop + TipHeight > WindowHeight
                  THEN s.scrollTop + WindowHeight - TipHeight ELSE offset.top
           left == IF offset.left < 0 THEN 0
                   ELSE IF offset.left + TipWidth > right THEN WindowWidth - TipWidth
                   ELSE offset.left
<1>1. s \in PlaceStates /\ (s.scrollLeft = 0 \/ s.scrollLeft <= s.bodyWidth - WindowWidth)
  BY DEF PlaceInv
<1>2. /\ s.bodyWidth \in Nat /\ s.left \in Nat /\ s.top \in Nat /\ s.scrollLeft \in Nat
      /\ s.scrollTop \in Nat
  BY <1>1, TipAssumption DEF PlaceStates
<1>3. /\ TipWidth \in Nat /\ TipHeight \in Nat /\ WindowWidth \in Nat /\ WindowHeight \in Nat
      /\ ElementWidth \in Nat /\ ElementHeight \in Nat
      /\ TipWidth <= WindowWidth /\ TipHeight <= WindowHeight
  BY TipAssumption
<1>4. /\ side \in Placing!Placements
      /\ offset.top \in Int /\ offset.left \in Int
      /\ side = "left" => offset.left = s.left - TipWidth
      /\ side = "right" => offset.left = s.left + ElementWidth
      /\ side = "top" => offset.top = s.top - TipHeight
      /\ side = "bottom" => offset.top = s.top + ElementHeight
      /\ at.left = IF side \in {"left", "right"} THEN offset.left ELSE left
      /\ at.top = IF side \in {"left", "right"} THEN top ELSE offset.top
  BY <1>1, OffsetIs
<1>5. s.bodyWidth = WindowWidth => right = WindowWidth
  BY <1>1, <1>2, <1>3
<1>6. right \in Int
  BY <1>2
<1> HIDE DEF side, offset, at, right
<1>7. CASE side \in {"left", "right"}
  <2>1. /\ at.left = offset.left /\ at.top = top
        /\ offset.left = s.left - TipWidth \/ offset.left = s.left + ElementWidth
    BY <1>4, <1>7
  <2>2. ~Placing!Meet(at.left, TipWidth, s.left, ElementWidth)
    <3>1. ~(at.left < s.left + ElementWidth /\ s.left < at.left + TipWidth)
      BY <1>2, <1>3, <2>1
    <3>2. QED
      BY <3>1 DEF Placing!Meet
  <2>3. at.top >= s.scrollTop /\ at.top + TipHeight <= s.scrollTop + WindowHeight
    BY <1>2, <1>3, <1>4, <2>1
  <2> HIDE DEF top, left
  <2>4. QED
    BY <1>7, <2>2, <2>3 DEF Placing!TipFits, at, side
<1>8. CASE ~(side \in {"left", "right"})
  <2>1. /\ at.left = left /\ at.top = offset.top
        /\ offset.top = s.top - TipHeight \/ offset.top = s.top + ElementHeight
    BY <1>4, <1>8 DEF Placing!Placements
  <2>2. ~Placing!Meet(at.top, TipHeight, s.top, ElementHeight)
    <3>1. ~(at.top < s.top + ElementHeight /\ s.top < at.top + TipHeight)
      BY <1>2, <1>3, <2>1
    <3>2. QED
      BY <3>1 DEF Placing!Meet
  <2>3. s.bodyWidth = WindowWidth => at.left >= 0 /\ at.left + TipWidth <= WindowWidth
    BY <1>3, <1>4, <1>5, <1>6, <2>1
  <2> HIDE DEF top, left
  <2>4. QED
    BY <1>8, <2>2, <2>3 DEF Placing!TipFits, at, side
<1>9. QED
  BY <1>7, <1>8

(***************************************************************************)
(* Modal dialogs.                                                           *)
(***************************************************************************)
DialogStates == [
      fade : BOOLEAN, backdropOption : {"none", "plain", "static"}, keyboard : BOOLEAN,
      isShown : BOOLEAN, backdrop : Backdrops \cup {None}, dom : SUBSET Backdrops,
      due : [Backdrops -> Seq(Dialog!Callbacks)], hiding : Nat, opening : BOOLEAN,
      display : BOOLEAN, in : BOOLEAN, open : BOOLEAN, pad : 0 .. 1, originalBodyPad : 0 .. 1,
      trap : BOOLEAN, keys : BOOLEAN, clicks : BOOLEAN, ignoreBackdropClick : BOOLEAN,
      crossed : BOOLEAN]

SameDialog(m, n) ==
    /\ n.fade = m.fade /\ n.backdropOption = m.backdropOption /\ n.keyboard = m.keyboard

(* What the methods do.                                                     *)

LEMMA OpenedIs ==
    ASSUME NEW m \in DialogStates
    PROVE  LET n == Dialog!Opened(m) IN
           /\ n \in DialogStates /\ SameDialog(m, n) /\ n.crossed = m.crossed
           /\ n.isShown = m.isShown /\ n.backdrop = m.backdrop /\ n.dom = m.dom /\ n.due = m.due
           /\ n.hiding = m.hiding /\ n.open = m.open /\ n.pad = m.pad
           /\ n.originalBodyPad = m.originalBodyPad /\ n.keys = m.keys /\ n.clicks = m.clicks
           /\ n.display = TRUE /\ n.in = TRUE /\ n.trap = TRUE
BY DEF Dialog!Opened, DialogStates, SameDialog

LEMMA HiddenIs ==
    ASSUME NEW m \in DialogStates
    PROVE  LET n == Dialog!Hidden(m) IN
           /\ n \in DialogStates /\ SameDialog(m, n) /\ n.crossed = m.crossed
           /\ n.isShown = m.isShown /\ n.backdrop = m.backdrop /\ n.dom = m.dom /\ n.due = m.due
           /\ n.hiding = m.hiding /\ n.open = FALSE /\ n.pad = m.originalBodyPad
           /\ n.originalBodyPad = m.originalBodyPad /\ n.keys = m.keys /\ n.clicks = m.clicks
           /\ n.display = m.display /\ n.in = m.in /\ n.trap = m.trap
BY DEF Dialog!Hidden, DialogStates, SameDialog

LEMMA RemoveIs ==
    ASSUME NEW m \in DialogStates
    PROVE  LET n == Dialog!Hidden(Dialog!RemoveBackdrop(m)) IN
           /\ n \in DialogStates /\ SameDialog(m, n) /\ n.crossed = m.crossed
           /\ n.isShown = m.isShown /\ n.backdrop = None /\ n.dom = m.dom \ {m.backdrop}
           /\ \A b \in Backdrops : n.due[b] = IF b = m.backdrop THEN <<>> ELSE m.due[b]
           /\ n.hiding = m.hiding /\ n.open = FALSE /\ n.pad = m.originalBodyPad
           /\ n.originalBodyPad = m.originalBodyPad /\ n.keys = m.keys /\ n.clicks = m.clicks
           /\ n.display = m.display /\ n.in = m.in /\ n.trap = m.trap
<1> DEFINE dom == m.dom \ {m.backdrop}
           due == [b \in Backdrops |-> IF b = m.backdrop THEN <<>> ELSE m.due[b]]
           k == [m EXCEPT !.dom = dom, !.backdrop = None, !.due = due]
<1>1. m.due \in [Backdrops -> Seq(Dialog!Callbacks)] /\ m.dom \in SUBSET Backdrops
  BY DEF DialogStates
<1>2. Dialog!RemoveBackdrop(m) = k
  BY DEF Dialog!RemoveBackdrop, DialogStates
<1>3. due \in [Backdrops -> Seq(Dialog!Callbacks)] /\ dom \in SUBSET Backdrops
  <2>1. <<>> \in Seq(Dialog!Callbacks)
    OBVIOUS
  <2>2. QED
    BY <1>1, <2>1
<1>4. \A b \in Backdrops : due[b] = IF b = m.backdrop THEN <<>> ELSE m.due[b]
  OBVIOUS
<1> HIDE DEF dom, due
<1>5. /\ k \in DialogStates /\ SameDialog(m, k) /\ k.crossed = m.crossed
      /\ k.isShown = m.isShown /\ k.backdrop = None /\ k.dom = dom /\ k.due = due
      /\ k.hiding = m.hiding /\ k.originalBodyPad = m.originalBodyPad
      /\ k.keys = m.keys /\ k.clicks = m.clicks
      /\ k.display = m.display /\ k.in = m.in /\ k.trap = m.trap
  BY <1>3 DEF DialogStates, SameDialog
<1> HIDE DEF k
<1> DEFINE n == Dialog!Hidden(k)
<1>6. /\ n \in DialogStates /\ SameDialog(k, n) /\ n.crossed = k.crossed
      /\ n.isShown = k.isShown /\ n.backdrop = k.backdrop /\ n.dom = k.dom /\ n.due = k.due
      /\ n.hiding = k.hiding /\ n.open = FALSE /\ n.pad = k.originalBodyPad
      /\ n.originalBodyPad = k.originalBodyPad /\ n.keys = k.keys /\ n.clicks = k.clicks
      /\ n.display = k.display /\ n.in = k.in /\ n.trap = k.trap
  BY <1>5, HiddenIs
<1> HIDE DEF n
<1>7. n.dom = m.dom \ {m.backdrop}
  BY <1>5, <1>6 DEF dom
<1>8. \A b \in Backdrops : n.due[b] = IF b = m.backdrop THEN <<>> ELSE m.due[b]
  BY <1>4, <1>5, <1>6
<1>9. SameDialog(m, n)
  BY <1>5, <1>6 DEF SameDialog
<1>10. QED
  BY <1>2, <1>5, <1>6, <1>7, <1>8, <1>9 DEF n

\* A backdrop is made where there is room for one more.
LEMMA NewBackdrop ==
    ASSUME NEW dom \in SUBSET Backdrops, Cardinality(dom) < Cardinality(Backdrops)
    PROVE  (CHOOSE x \in Backdrops : x \notin dom) \in Backdrops \ dom
<1>1. dom # Backdrops
  <2>1. Cardinality(Backdrops) \in Nat
    BY ModalAssumption, FS_CardinalityType
  <2>2. QED
    BY <2>1
<1>2. \E x \in Backdrops : x \notin dom
  BY <1>1
<1>3. QED
  BY <1>2

LEMMA CallIs ==
    ASSUME NEW m \in DialogStates, NEW callback \in Dialog!Callbacks
    PROVE  LET n == Dialog!Call(m, callback) IN
           /\ n \in DialogStates /\ SameDialog(m, n) /\ n.crossed = m.crossed
           /\ n.isShown = m.isShown /\ n.hiding = m.hiding /\ n.dom \subseteq m.dom
<1>1. callback \in {"opened", "hidden", "remove"}
  BY DEF Dialog!Callbacks
<1>2. Dialog!Call(m, callback) =
        CASE callback = "opened" -> Dialog!Opened(m)
          [] callback = "hidden" -> Dialog!Hidden(m)
          [] callback = "remove" -> Dialog!Hidden(Dialog!RemoveBackdrop(m))
  BY DEF Dialog!Call
<1>3. CASE callback = "opened"
  <2> DEFINE n == Dialog!Opened(m)
  <2>1. /\ n \in DialogStates /\ SameDialog(m, n) /\ n.crossed = m.crossed
        /\ n.isShown = m.isShown /\ n.hiding = m.hiding /\ n.dom = m.dom
    BY OpenedIs
  <2> HIDE DEF n
  <2>2. Dialog!Call(m, callback) = n
    BY <1>2, <1>3 DEF n
  <2>3. QED
    BY <2>1, <2>2
<1>4. CASE callback = "hidden"
  <2> DEFINE n == Dialog!Hidden(m)
  <2>1. /\ n \in DialogStates /\ SameDialog(m, n) /\ n.crossed = m.crossed
        /\ n.isShown = m.isShown /\ n.hiding = m.hiding /\ n.dom = m.dom
    BY HiddenIs
  <2> HIDE DEF n
  <2>2. Dialog!Call(m, callback) = n
    BY <1>2, <1>4 DEF n
  <2>3. QED
    BY <2>1, <2>2
<1>5. CASE callback = "remove"
  <2> DEFINE n == Dialog!Hidden(Dialog!RemoveBackdrop(m))
  <2>1. /\ n \in DialogStates /\ SameDialog(m, n) /\ n.crossed = m.crossed
        /\ n.isShown = m.isShown /\ n.hiding = m.hiding /\ n.dom = m.dom \ {m.backdrop}
    BY RemoveIs
  <2> HIDE DEF n
  <2>2. Dialog!Call(m, callback) = n
    BY <1>2, <1>5 DEF n
  <2>3. QED
    BY <2>1, <2>2
<1>6. QED
  BY <1>1, <1>3, <1>4, <1>5

\* backdrop() of a modal that is shown, and has one.
ShowsBackdrop(m, k, b) ==
    /\ k \in DialogStates /\ SameDialog(m, k) /\ k.crossed = m.crossed
    /\ k.isShown = m.isShown /\ k.backdrop = b /\ k.dom = m.dom \cup {b}
    /\ k.hiding = m.hiding /\ k.open = m.open /\ k.pad = m.pad
    /\ k.originalBodyPad = m.originalBodyPad /\ k.keys = m.keys /\ k.clicks = TRUE
    /\ k.display = m.display /\ k.in = m.in /\ k.trap = m.trap

LEMMA ShownBackdrop ==
    ASSUME NEW m \in DialogStates, Cardinality(m.dom) < Cardinality(Backdrops),
           m.isShown, m.backdropOption # "none", NEW callback \in Dialog!Callbacks
    PROVE  LET n == Dialog!Backdrop(m, callback) IN
           \E b \in Backdrops \ m.dom, k \in DialogStates :
              /\ ShowsBackdrop(m, k, b)
              /\ IF m.fade THEN n = k /\ k.due = [m.due EXCEPT ![b] = <<callback>>]
                           ELSE n = Dialog!Call(k, callback) /\ k.due = m.due
<1> DEFINE b == CHOOSE x \in Backdrops : x \notin m.dom
           dom == m.dom \cup {b}
           due == [m.due EXCEPT ![b] = <<callback>>]
           new == [m EXCEPT !.backdrop = b, !.dom = dom, !.clicks = TRUE]
           fading == [new EXCEPT !.due[b] = <<callback>>]
<1>1. m.due \in [Backdrops -> Seq(Dialog!Callbacks)] /\ m.dom \in SUBSET Backdrops
  BY DEF DialogStates
<1>2. b \in Backdrops \ m.dom
  BY <1>1, NewBackdrop
<1>3. Dialog!Backdrop(m, callback) = IF m.fade THEN fading ELSE Dialog!Call(new, callback)
  BY DEF Dialog!Backdrop, DialogStates
<1> HIDE DEF b
<1>4. dom \in SUBSET Backdrops /\ due \in [Backdrops -> Seq(Dialog!Callbacks)]
  <2>1. <<callback>> \in Seq(Dialog!Callbacks)
    OBVIOUS
  <2>2. QED
    BY <1>1, <1>2, <2>1
<1>5. ShowsBackdrop(m, new, b) /\ new.due = m.due
  <2>1. dom = m.dom \cup {b}
    OBVIOUS
  <2> HIDE DEF dom
  <2>2. QED
    BY <1>2, <1>4, <2>1 DEF ShowsBackdrop, SameDialog, DialogStates
<1>6. ShowsBackdrop(m, fading, b) /\ fading.due = due
  <2>1. new \in DialogStates
    BY <1>5 DEF ShowsBackdrop
  <2>2. fading = [new EXCEPT !.due = due]
    BY <1>5, <2>1 DEF DialogStates
  <2> DEFINE k == [new EXCEPT !.due = due]
  <2> HIDE DEF new, due, fading
  <2>3. ShowsBackdrop(m, k, b) /\ k.due = due
    BY <1>4, <1>5, <2>1 DEF ShowsBackdrop, SameDialog, DialogStates
  <2>4. QED
    BY <2>2, <2>3
<1> HIDE DEF new, fading
<1>7. CASE m.fade
  <2>1. fading \in DialogStates
    BY <1>6 DEF ShowsBackdrop
  <2>2. Dialog!Backdrop(m, callback) = fading
    BY <1>3, <1>7
  <2>3. QED
    BY <1>2, <1>6, <1>7, <2>1, <2>2
<1>8. CASE ~m.fade
  <2>1. new \in DialogStates
    BY <1>5 DEF ShowsBackdrop
  <2>2. Dialog!Backdrop(m, callback) = Dialog!Call(new, callback)
    BY <1>3, <1>8
  <2>3. QED
    BY <1>2, <1>5, <1>8, <2>1, <2>2
<1>9. QED
  BY <1>7, <1>8

\* backdrop() of one that is hidden and fades.
LEMMA FadingBackdrop ==
    ASSUME NEW m \in DialogStates, ~m.isShown, m.backdrop # None, m.fade,
           NEW callback \in Dialog!Callbacks
    PROVE  LET n == Dialog!Backdrop(m, callback) IN
           /\ n \in DialogStates /\ SameDialog(m, n) /\ n.crossed = m.crossed
           /\ n.isShown = m.isShown /\ n.backdrop = m.backdrop /\ n.dom = m.dom
           /\ n.due = [m.due EXCEPT ![m.backdrop] = Append(@, "remove")]
           /\ n.hiding = m.hiding /\ n.open = m.open /\ n.pad = m.pad
           /\ n.originalBodyPad = m.originalBodyPad /\ n.keys = m.keys /\ n.clicks = m.clicks
           /\ n.display = m.display /\ n.in = m.in /\ n.trap = m.trap
<1> DEFINE due == [m.due EXCEPT ![m.backdrop] = Append(@, "remove")]
           n == [m EXCEPT !.due = due]
<1>1. Dialog!Backdrop(m, callback) = n
  BY DEF Dialog!Backdrop, DialogStates
<1>2. due \in [Backdrops -> Seq(Dialog!Callbacks)]
  <2>1. m.due \in [Backdrops -> Seq(Dialog!Callbacks)] /\ m.backdrop \in Backdrops
    BY DEF DialogStates
  <2>2. m.due[m.backdrop] \in Seq(Dialog!Callbacks) /\ "remove" \in Dialog!Callbacks
    BY <2>1 DEF Dialog!Callbacks
  <2>3. Append(m.due[m.backdrop], "remove") \in Seq(Dialog!Callbacks)
    BY <2>2, AppendIn
  <2>4. QED
    BY <2>1, <2>3
<1> HIDE DEF due
<1>3. /\ n \in DialogStates /\ SameDialog(m, n) /\ n.crossed = m.crossed
      /\ n.isShown = m.isShown /\ n.backdrop = m.backdrop /\ n.dom = m.dom
      /\ n.due = due
      /\ n.hiding = m.hiding /\ n.open = m.open /\ n.pad = m.pad
      /\ n.originalBodyPad = m.originalBodyPad /\ n.keys = m.keys /\ n.clicks = m.clicks
      /\ n.display = m.display /\ n.in = m.in /\ n.trap = m.trap
  BY <1>2 DEF DialogStates, SameDialog
<1> HIDE DEF n
<1>4. QED
  BY <1>1, <1>3 DEF due

LEMMA OtherBackdrop ==
    ASSUME NEW m \in DialogStates, NEW callback
    PROVE  /\ m.isShown /\ m.backdropOption = "none"
                => Dialog!Backdrop(m, callback) = Dialog!Call(m, callback)
           /\ ~m.isShown /\ m.backdrop = None
                => Dialog!Backdrop(m, callback) = Dialog!Call(m, callback)
           /\ ~m.isShown /\ m.backdrop # None /\ ~m.fade
                => Dialog!Backdrop(m, callback) = Dialog!Hidden(Dialog!RemoveBackdrop(m))
BY DEF Dialog!Backdrop, Dialog!Call

(* There is room for the backdrops that a modal makes: one for each hide() under  *)
(* way, when the modal is shown again, and one for the next hide().               *)

Owed(m) == IF m.isShown THEN 1 ELSE 0

DialogSafe(m) ==
    /\ m \in DialogStates
    /\ Cardinality(m.dom) + m.hiding + Owed(m) <= Cardinality(Backdrops)

SameCounts(m, n) ==
    /\ n \in DialogStates /\ SameDialog(m, n) /\ n.crossed = m.crossed
    /\ n.isShown = m.isShown /\ n.hiding = m.hiding

LEMMA DomCounts ==
    ASSUME NEW dom \in SUBSET Backdrops
    PROVE  /\ IsFiniteSet(dom) /\ Cardinality(dom) \in Nat /\ Cardinality(Backdrops) \in Nat
           /\ \A s \in SUBSET dom : Cardinality(s) <= Cardinality(dom)
           /\ \A b \in Backdrops : Cardinality(dom \cup {b}) <= Cardinality(dom) + 1
<1>1. IsFiniteSet(dom) /\ IsFiniteSet(Backdrops)
  BY ModalAssumption, FS_Subset
<1>2. Cardinality(dom) \in Nat /\ Cardinality(Backdrops) \in Nat
  BY <1>1, FS_CardinalityType
<1>3. \A s \in SUBSET dom : Cardinality(s) <= Cardinality(dom)
  BY <1>1, FS_Subset
<1>4. ASSUME NEW b \in Backdrops
      PROVE  Cardinality(dom \cup {b}) <= Cardinality(dom) + 1
  <2>1. Cardinality(dom \cup {b}) = IF b \in dom THEN Cardinality(dom) ELSE Cardinality(dom) + 1
    BY <1>1, FS_AddElement
  <2>2. QED
    BY <1>2, <2>1
<1>5. QED
  BY <1>1, <1>2, <1>3, <1>4

LEMMA BackdropSafe ==
    ASSUME NEW m \in DialogStates, NEW callback \in Dialog!Callbacks,
           m.isShown => Cardinality(m.dom) < Cardinality(Backdrops)
    PROVE  LET n == Dialog!Backdrop(m, callback) IN
           SameCounts(m, n) /\ Cardinality(n.dom) <= Cardinality(m.dom) + Owed(m)
<1> DEFINE n == Dialog!Backdrop(m, callback)
<1>1. m.dom \in SUBSET Backdrops /\ m.isShown \in BOOLEAN /\ m.fade \in BOOLEAN
  BY DEF DialogStates
<1>2. Cardinality(m.dom) \in Nat /\ \A s \in SUBSET m.dom : Cardinality(s) <= Cardinality(m.dom)
  BY <1>1, DomCounts
<1>3. CASE m.isShown /\ m.backdropOption # "none"
  <2>1. PICK b \in Backdrops \ m.dom, k \in DialogStates :
              /\ ShowsBackdrop(m, k, b)
              /\ IF m.fade THEN n = k /\ k.due = [m.due EXCEPT ![b] = <<callback>>]
                           ELSE n = Dialog!Call(k, callback) /\ k.due = m.due
    BY <1>3, ShownBackdrop
  <2> HIDE DEF n
  <2>2. SameCounts(m, k) /\ k.dom = m.dom \cup {b} /\ k \in DialogStates
    BY <2>1 DEF ShowsBackdrop, SameCounts
  <2>3. SameCounts(m, n) /\ n.dom \subseteq m.dom \cup {b}
    <3>1. CASE m.fade
      BY <2>1, <2>2, <3>1
    <3>2. CASE ~m.fade
      <4> DEFINE c == Dialog!Call(k, callback)
      <4>1. /\ c \in DialogStates /\ SameDialog(k, c) /\ c.crossed = k.crossed
            /\ c.isShown = k.isShown /\ c.hiding = k.hiding /\ c.dom \subseteq k.dom
        BY <2>2, CallIs
      <4>2. n = c
        BY <2>1, <3>2
      <4> HIDE DEF c
      <4>3. QED
        BY <2>2, <4>1, <4>2 DEF SameCounts, SameDialog
    <3>3. QED
      BY <1>1, <3>1, <3>2
  <2>4. Cardinality(n.dom) <= Cardinality(m.dom) + 1
    <3>1. m.dom \cup {b} \in SUBSET Backdrops
      BY <1>1
    <3>2. Cardinality(n.dom) <= Cardinality(m.dom \cup {b})
      BY <2>3, <3>1, DomCounts
    <3>3. Cardinality(m.dom \cup {b}) <= Cardinality(m.dom) + 1
      BY <1>1, DomCounts
    <3>4. Cardinality(n.dom) \in Nat /\ Cardinality(m.dom \cup {b}) \in Nat
      BY <2>3, <3>1, DomCounts DEF SameCounts, DialogStates
    <3>5. QED
      BY <1>2, <3>2, <3>3, <3>4
  <2>5. QED
    BY <1>3, <2>3, <2>4 DEF n, Owed
<1>4. CASE ~m.isShown /\ m.backdrop # None /\ m.fade
  <2>1. SameCounts(m, n) /\ n.dom = m.dom
    BY <1>4, FadingBackdrop DEF SameCounts
  <2> HIDE DEF n
  <2>2. Cardinality(n.dom) <= Cardinality(m.dom) + Owed(m)
    BY <1>2, <1>4, <2>1 DEF Owed
  <2>3. QED
    BY <2>1, <2>2 DEF n
<1>5. CASE /\ ~(m.isShown /\ m.backdropOption # "none")
           /\ ~(~m.isShown /\ m.backdrop # None /\ m.fade)
  <2>1. \/ n = Dialog!Call(m, callback)
        \/ n = Dialog!Hidden(Dialog!RemoveBackdrop(m))
    BY <1>1, <1>5, OtherBackdrop
  <2>2. SameCounts(m, n) /\ n.dom \subseteq m.dom
    <3>1. LET c == Dialog!Call(m, callback) IN SameCounts(m, c) /\ c.dom \subseteq m.dom
      BY CallIs DEF SameCounts
    <3>2. LET c == Dialog!Hidden(Dialog!RemoveBackdrop(m)) IN
          SameCounts(m, c) /\ c.dom \subseteq m.dom
      <4> DEFINE c == Dialog!Hidden(Dialog!RemoveBackdrop(m))
      <4>1. SameCounts(m, c) /\ c.dom = m.dom \ {m.backdrop}
        BY RemoveIs DEF SameCounts
      <4> HIDE DEF c
      <4>2. SameCounts(m, c) /\ c.dom \subseteq m.dom
        BY <4>1
      <4>3. QED
        BY <4>2 DEF c
    <3> HIDE DEF n
    <3>3. QED
      BY <2>1, <3>1, <3>2
  <2> HIDE DEF n
  <2>3. Cardinality(n.dom) <= Cardinality(m.dom)
    BY <1>2, <2>2
  <2>4. n.dom \in SUBSET Backdrops
    BY <2>2 DEF SameCounts, DialogStates
  <2>5. Cardinality(n.dom) \in Nat
    BY <2>4, DomCounts
  <2>6. Owed(m) \in {0, 1}
    BY DEF Owed
  <2>7. Cardinality(n.dom) <= Cardinality(m.dom) + Owed(m)
    BY <1>2, <2>3, <2>5, <2>6
  <2>8. QED
    BY <2>2, <2>7 DEF n
<1>6. QED
  BY <1>1, <1>3, <1>4, <1>5

LEMMA HideModalSafe ==
    ASSUME NEW m \in DialogStates, m.isShown => Cardinality(m.dom) < Cardinality(Backdrops)
    PROVE  LET n == Dialog!HideModal(m) IN
           SameCounts(m, n) /\ Cardinality(n.dom) <= Cardinality(m.dom) + Owed(m)
<1> DEFINE k == [m EXCEPT !.display = FALSE]
           n == Dialog!Backdrop(k, "hidden")
<1>1. SameCounts(m, k) /\ k.dom = m.dom
  BY DEF SameCounts, SameDialog, DialogStates
<1>2. Dialog!HideModal(m) = n
  BY DEF Dialog!HideModal
<1> HIDE DEF k
<1>3. SameCounts(k, n) /\ Cardinality(n.dom) <= Cardinality(k.dom) + Owed(k)
  <2>1. k \in DialogStates /\ "hidden" \in Dialog!Callbacks
        /\ (k.isShown => Cardinality(k.dom) < Cardinality(Backdrops))
    BY <1>1 DEF SameCounts, Dialog!Callbacks
  <2>2. QED
    BY <2>1, BackdropSafe
<1> HIDE DEF n
<1>4. QED
  BY <1>1, <1>2, <1>3 DEF SameCounts, SameDialog, Owed

LEMMA ShowDialogSafe ==
    ASSUME NEW m, DialogSafe(m), Cardinality(m.dom) + m.hiding + 1 < Cardinality(Backdrops)
    PROVE  DialogSafe(Dialog!Show(m)) /\ (m.crossed => Dialog!Show(m).crossed)
<1> DEFINE pad == IF m.open THEN m.pad ELSE 1
           keys == m.keyboard \/ m.keys
           crossed == m.crossed \/ Dialog!StillHiding(m)
           k == [Dialog!SetScrollbar(m) EXCEPT !.isShown = TRUE, !.keys = keys, !.clicks = TRUE,
                                               !.crossed = crossed]
           n == Dialog!Backdrop(k, "opened")
<1>1. m \in DialogStates /\ m.isShown \in BOOLEAN /\ m.hiding \in Nat /\ m.dom \in SUBSET Backdrops
  BY DEF DialogSafe, DialogStates
<1>2. pad \in 0 .. 1 /\ keys \in BOOLEAN /\ crossed \in BOOLEAN /\ (m.crossed => crossed)
  BY <1>1 DEF DialogStates, Dialog!StillHiding
<1>3. CASE m.isShown
  BY <1>3 DEF Dialog!Show
<1>4. CASE ~m.isShown
  <2>1. Dialog!Show(m) = n
    BY <1>4 DEF Dialog!Show
  <2>2. k = [m EXCEPT !.originalBodyPad = m.pad, !.pad = pad, !.open = TRUE, !.isShown = TRUE,
                      !.keys = keys, !.clicks = TRUE, !.crossed = crossed]
    BY <1>1 DEF Dialog!SetScrollbar, DialogStates
  <2> HIDE DEF pad, keys, crossed
  <2>3. /\ k \in DialogStates /\ k.isShown = TRUE /\ k.hiding = m.hiding /\ k.dom = m.dom
        /\ k.crossed = crossed
    <3> DEFINE j == [m EXCEPT !.originalBodyPad = m.pad, !.pad = pad, !.open = TRUE,
                              !.isShown = TRUE, !.keys = keys, !.clicks = TRUE,
                              !.crossed = crossed]
    <3>1. /\ j \in DialogStates /\ j.isShown = TRUE /\ j.hiding = m.hiding /\ j.dom = m.dom
          /\ j.crossed = crossed
      BY <1>1, <1>2 DEF DialogStates
    <3>2. QED
      BY <2>2, <3>1
  <2> HIDE DEF k
  <2>4. Cardinality(m.dom) \in Nat /\ Cardinality(Backdrops) \in Nat
    BY <1>1, DomCounts
  <2>5. Cardinality(k.dom) < Cardinality(Backdrops)
    BY <1>1, <2>3, <2>4
  <2>6. SameCounts(k, n) /\ Cardinality(n.dom) <= Cardinality(k.dom) + Owed(k)
    BY <2>3, <2>5, BackdropSafe DEF Dialog!Callbacks
  <2> HIDE DEF n
  <2>7. n \in DialogStates /\ n.isShown = TRUE /\ n.hiding = m.hiding /\ n.crossed = crossed
    BY <2>3, <2>6 DEF SameCounts
  <2>8. n.dom \in SUBSET Backdrops
    BY <2>7 DEF DialogStates
  <2>9. Cardinality(n.dom) \in Nat
    BY <2>8, DomCounts
  <2>10. Owed(k) = 1 /\ Owed(n) = 1
    BY <2>3, <2>7 DEF Owed
  <2>11. Cardinality(n.dom) + n.hiding + Owed(n) <= Cardinality(Backdrops)
    BY <1>1, <2>3, <2>4, <2>6, <2>7, <2>9, <2>10
  <2>12. QED
    BY <1>2, <2>1, <2>7, <2>11 DEF DialogSafe
<1>5. QED
  BY <1>1, <1>3, <1>4

\* hide() of a modal that is shown.
HidesDialog(m, k) ==
    /\ k \in DialogStates /\ SameDialog(m, k) /\ k.crossed = m.crossed
    /\ k.isShown = FALSE /\ k.backdrop = m.backdrop /\ k.dom = m.dom /\ k.due = m.due
    /\ k.open = m.open /\ k.pad = m.pad /\ k.originalBodyPad = m.originalBodyPad
    /\ k.keys = FALSE /\ k.clicks = FALSE /\ k.display = m.display

LEMMA HideDialogIs ==
    ASSUME NEW m \in DialogStates, m.isShown
    PROVE  \E k : /\ HidesDialog(m, k)
                  /\ IF m.fade THEN Dialog!Hide(m) = k /\ k.hiding = m.hiding + 1
                               ELSE Dialog!Hide(m) = Dialog!HideModal(k) /\ k.hiding = m.hiding
<1> DEFINE n == [m EXCEPT !.isShown = FALSE, !.keys = FALSE, !.trap = FALSE, !.in = FALSE,
                          !.clicks = FALSE]
           hiding == m.hiding + 1
           l == [n EXCEPT !.hiding = hiding]
<1>1. m.hiding \in Nat /\ hiding \in Nat /\ m.fade \in BOOLEAN
  BY DEF DialogStates
<1>2. HidesDialog(m, n) /\ n.hiding = m.hiding
  <2> DEFINE j == [m EXCEPT !.isShown = FALSE, !.keys = FALSE]
             i == [j EXCEPT !.trap = FALSE, !.in = FALSE]
  <2>1. n = [i EXCEPT !.clicks = FALSE]
    OBVIOUS
  <2>2. /\ j \in DialogStates /\ SameDialog(m, j) /\ j.crossed = m.crossed
        /\ j.isShown = FALSE /\ j.backdrop = m.backdrop /\ j.dom = m.dom /\ j.due = m.due
        /\ j.open = m.open /\ j.pad = m.pad /\ j.originalBodyPad = m.originalBodyPad
        /\ j.keys = FALSE /\ j.display = m.display /\ j.hiding = m.hiding
    BY DEF SameDialog, DialogStates
  <2> HIDE DEF j, n
  <2>3. /\ i \in DialogStates /\ SameDialog(j, i) /\ i.crossed = j.crossed
        /\ i.isShown = j.isShown /\ i.backdrop = j.backdrop /\ i.dom = j.dom /\ i.due = j.due
        /\ i.open = j.open /\ i.pad = j.pad /\ i.originalBodyPad = j.originalBodyPad
        /\ i.keys = j.keys /\ i.display = j.display /\ i.hiding = j.hiding
    BY <2>2 DEF SameDialog, DialogStates
  <2> HIDE DEF i
  <2>4. LET h == [i EXCEPT !.clicks = FALSE] IN
        /\ h \in DialogStates /\ SameDialog(i, h) /\ h.crossed = i.crossed
        /\ h.isShown = i.isShown /\ h.backdrop = i.backdrop /\ h.dom = i.dom /\ h.due = i.due
        /\ h.open = i.open /\ h.pad = i.pad /\ h.originalBodyPad = i.originalBodyPad
        /\ h.keys = i.keys /\ h.clicks = FALSE /\ h.display = i.display /\ h.hiding = i.hiding
    BY <2>3 DEF SameDialog, DialogStates
  <2>5. /\ n \in DialogStates /\ SameDialog(i, n) /\ n.crossed = i.crossed
        /\ n.isShown = i.isShown /\ n.backdrop = i.backdrop /\ n.dom = i.dom /\ n.due = i.due
        /\ n.open = i.open /\ n.pad = i.pad /\ n.originalBodyPad = i.originalBodyPad
        /\ n.keys = i.keys /\ n.clicks = FALSE /\ n.display = i.display /\ n.hiding = i.hiding
    BY <2>1, <2>4
  <2>6. QED
    BY <2>2, <2>3, <2>5 DEF HidesDialog, SameDialog
<1>3. Dialog!Hide(m) = IF m.fade THEN l ELSE Dialog!HideModal(n)
  BY <1>2 DEF Dialog!Hide
<1>4. hiding = m.hiding + 1
  OBVIOUS
<1> HIDE DEF n, hiding
<1>5. HidesDialog(m, l) /\ l.hiding = hiding
  BY <1>1, <1>2 DEF HidesDialog, SameDialog, DialogStates
<1> HIDE DEF l
<1>6. CASE m.fade
  BY <1>3, <1>4, <1>5, <1>6
<1>7. CASE ~m.fade
  BY <1>2, <1>3, <1>7
<1>8. QED
  BY <1>6, <1>7

LEMMA HideDialogSafe ==
    ASSUME NEW m, DialogSafe(m)
    PROVE  DialogSafe(Dialog!Hide(m)) /\ Dialog!Hide(m).crossed = m.crossed
<1>1. m \in DialogStates /\ m.isShown \in BOOLEAN /\ m.fade \in BOOLEAN /\ m.hiding \in Nat
      /\ m.dom \in SUBSET Backdrops
  BY DEF DialogSafe, DialogStates
<1>2. CASE ~m.isShown
  BY <1>2 DEF Dialog!Hide
<1>3. CASE m.isShown
  <2>1. PICK k : /\ HidesDialog(m, k)
                 /\ IF m.fade THEN Dialog!Hide(m) = k /\ k.hiding = m.hiding + 1
                              ELSE Dialog!Hide(m) = Dialog!HideModal(k) /\ k.hiding = m.hiding
    BY <1>1, <1>3, HideDialogIs
  <2>2. k \in DialogStates /\ k.isShown = FALSE /\ k.dom = m.dom /\ k.crossed = m.crossed
    BY <2>1 DEF HidesDialog
  <2>3. Owed(m) = 1 /\ Owed(k) = 0
    BY <1>3, <2>2 DEF Owed
  <2>4. Cardinality(m.dom) \in Nat /\ Cardinality(Backdrops) \in Nat
    BY <1>1, DomCounts
  <2>5. Cardinality(m.dom) + m.hiding + 1 <= Cardinality(Backdrops)
    BY <2>3 DEF DialogSafe
  <2>6. CASE m.fade
    <3>1. k.hiding = m.hiding + 1 /\ Dialog!Hide(m) = k
      BY <2>1, <2>6
    <3>2. Cardinality(k.dom) + k.hiding + Owed(k) <= Cardinality(Backdrops)
      BY <1>1, <2>2, <2>3, <2>4, <2>5, <3>1
    <3>3. QED
      BY <2>2, <3>1, <3>2 DEF DialogSafe
  <2>7. CASE ~m.fade
    <3> DEFINE n == Dialog!HideModal(k)
    <3>1. k.hiding = m.hiding /\ Dialog!Hide(m) = n
      BY <2>1, <2>7
    <3>2. SameCounts(k, n) /\ Cardinality(n.dom) <= Cardinality(k.dom) + Owed(k)
      BY <2>2, HideModalSafe
    <3> HIDE DEF n
    <3>3. n \in DialogStates /\ n.isShown = FALSE /\ n.hiding = m.hiding /\ n.crossed = m.crossed
      BY <2>2, <3>1, <3>2 DEF SameCounts
    <3>4. n.dom \in SUBSET Backdrops
      BY <3>3 DEF DialogStates
    <3>5. Cardinality(n.dom) \in Nat /\ Owed(n) = 0
      BY <3>3, <3>4, DomCounts DEF Owed
    <3>6. Cardinality(n.dom) + n.hiding + Owed(n) <= Cardinality(Backdrops)
      BY <1>1, <2>2, <2>3, <2>4, <2>5, <3>2, <3>3, <3>5
    <3>7. QED
      BY <3>1, <3>3, <3>6 DEF DialogSafe
  <2>8. QED
    BY <1>1, <2>6, <2>7
<1>4. QED
  BY <1>1, <1>2, <1>3

LEMMA DialogEndsSafe ==
    ASSUME DialogSafe(page), NEW b \in Backdrops, Dialog!BackdropEnd(b)
    PROVE  DialogSafe(page') /\ page'.crossed = page.crossed
<1> DEFINE list == page.due[b]
           due == [page.due EXCEPT ![b] = <<>>]
           s == [page EXCEPT !.due = due]
           Here == {x \in DialogStates : SameCounts(page, x) /\ x.dom \subseteq page.dom}
<1>1. /\ page \in DialogStates /\ page.due \in [Backdrops -> Seq(Dialog!Callbacks)]
      /\ page.dom \in SUBSET Backdrops /\ page.hiding \in Nat
  BY DEF DialogSafe, DialogStates
<1>2. page' = Dialog!BackdropEnds!Fire(s, list)
  BY <1>1 DEF Dialog!BackdropEnd, DialogStates
<1>3. Len(list) \in Nat /\ \A i \in 1 .. Len(list) : list[i] \in Dialog!Callbacks
  BY <1>1
<1>4. due \in [Backdrops -> Seq(Dialog!Callbacks)]
  <2>1. <<>> \in Seq(Dialog!Callbacks)
    OBVIOUS
  <2>2. QED
    BY <1>1, <2>1
<1> HIDE DEF list, due
<1>5. s \in DialogStates /\ SameCounts(page, s) /\ s.dom = page.dom
  BY <1>1, <1>4 DEF SameCounts, SameDialog, DialogStates
<1> HIDE DEF s
<1>6. s \in Here
  BY <1>5
<1>7. ASSUME NEW x \in Here, NEW i \in 1 .. Len(list)
      PROVE  Dialog!Call(x, list[i]) \in Here
  <2> DEFINE n == Dialog!Call(x, list[i])
  <2>1. list[i] \in Dialog!Callbacks /\ x \in DialogStates
    BY <1>3
  <2>2. /\ n \in DialogStates /\ SameDialog(x, n) /\ n.crossed = x.crossed
        /\ n.isShown = x.isShown /\ n.hiding = x.hiding /\ n.dom \subseteq x.dom
    BY <2>1, CallIs
  <2> HIDE DEF n
  <2>3. n \in Here
    BY <2>2 DEF SameCounts, SameDialog
  <2>4. QED
    BY <2>3 DEF n
<1> HIDE DEF Here
<1>8. page' \in Here
  BY <1>2, <1>3, <1>6, <1>7, Dialog!BackdropEnds!FireKeeps
<1>9. SameCounts(page, page') /\ page'.dom \subseteq page.dom
  BY <1>8 DEF Here
<1>10. /\ Cardinality(page'.dom) <= Cardinality(page.dom) /\ Cardinality(page'.dom) \in Nat
       /\ Cardinality(page.dom) \in Nat /\ Cardinality(Backdrops) \in Nat
  BY <1>1, <1>9, DomCounts
<1>11. Owed(page') = Owed(page) /\ Owed(page) \in {0, 1} /\ page'.hiding = page.hiding
  BY <1>9 DEF Owed, SameCounts
<1>12. Cardinality(page'.dom) + page'.hiding + Owed(page') <= Cardinality(Backdrops)
  BY <1>1, <1>10, <1>11 DEF DialogSafe
<1>13. QED
  BY <1>9, <1>12 DEF DialogSafe, SameCounts

\* A modal that is shown again while it hides makes a backdrop for every hideModal().
LEMMA ElementEndSafe ==
    ASSUME DialogSafe(page), Dialog!ElementEnd
    PROVE  DialogSafe(page') /\ page'.crossed = page.crossed
<1> DEFINE list == [i \in 1 .. page.hiding |-> i]
           s == [page EXCEPT !.hiding = 0]
           Here(i) == {x \in DialogStates :
                         /\ x.crossed = page.crossed /\ x.isShown = page.isShown /\ x.hiding = 0
                         /\ Cardinality(x.dom) <= Cardinality(page.dom) + i}
           I == [i \in 0 .. page.hiding |-> Here(i)]
<1>1. /\ page \in DialogStates /\ page.dom \in SUBSET Backdrops /\ page.hiding \in Nat
      /\ page.isShown \in BOOLEAN
      /\ Cardinality(page.dom) + page.hiding + Owed(page) <= Cardinality(Backdrops)
  BY DEF DialogSafe, DialogStates
<1>2. page' = Dialog!ElementEnds!Fire(s, list)
  BY DEF Dialog!ElementEnd
<1>3. Len(list) = page.hiding
  <2>1. list \in Seq(Nat)
    BY <1>1
  <2>2. QED
    BY <1>1, <2>1
<1>4. Cardinality(page.dom) \in Nat /\ Cardinality(Backdrops) \in Nat
  BY <1>1, DomCounts
<1>5. s \in DialogStates /\ s.crossed = page.crossed /\ s.isShown = page.isShown
      /\ s.hiding = 0 /\ s.dom = page.dom
  BY <1>1 DEF DialogStates
<1> HIDE DEF list, s
<1>6. s \in Here(0)
  BY <1>4, <1>5
<1>7. ASSUME NEW i \in 1 .. page.hiding, NEW x \in Here(i - 1)
      PROVE  Dialog!HideAgain(x, list[i]) \in Here(i)
  <2> DEFINE n == Dialog!HideModal(x)
  <2>1. /\ x \in DialogStates /\ x.crossed = page.crossed /\ x.isShown = page.isShown
        /\ x.hiding = 0 /\ Cardinality(x.dom) <= Cardinality(page.dom) + (i - 1)
    OBVIOUS
  <2>2. x.dom \in SUBSET Backdrops
    BY <2>1 DEF DialogStates
  <2>3. Cardinality(x.dom) \in Nat
    BY <2>2, DomCounts
  <2>4. x.isShown => Cardinality(x.dom) < Cardinality(Backdrops)
    <3>1. x.isShown => Owed(page) = 1
      BY <2>1 DEF Owed
    <3>2. QED
      BY <1>1, <1>4, <2>1, <2>3, <3>1
  <2>5. SameCounts(x, n) /\ Cardinality(n.dom) <= Cardinality(x.dom) + Owed(x)
    BY <2>1, <2>4, HideModalSafe
  <2> HIDE DEF n
  <2>6. n \in DialogStates
    BY <2>5 DEF SameCounts
  <2>7. n.dom \in SUBSET Backdrops
    BY <2>6 DEF DialogStates
  <2>8. Cardinality(n.dom) \in Nat /\ Owed(x) \in {0, 1}
    BY <2>7, DomCounts DEF Owed
  <2>9. Cardinality(n.dom) <= Cardinality(page.dom) + i
    BY <1>4, <2>1, <2>3, <2>5, <2>8
  <2>10. n \in Here(i)
    BY <2>1, <2>5, <2>6, <2>9 DEF SameCounts
  <2>11. Dialog!HideAgain(x, list[i]) = n
    BY DEF Dialog!HideAgain, n
  <2>12. QED
    BY <2>10, <2>11
<1> HIDE DEF Here
<1>8. /\ I[0] = Here(0) /\ I[page.hiding] = Here(page.hiding)
      /\ \A i \in 1 .. page.hiding : I[i - 1] = Here(i - 1) /\ I[i] = Here(i)
  BY <1>1
<1> HIDE DEF I
<1>9. \A i \in 1 .. Len(list) : \A x \in I[i - 1] : Dialog!HideAgain(x, list[i]) \in I[i]
  BY <1>3, <1>7, <1>8
<1>10. page' \in I[Len(list)]
  BY <1>1, <1>2, <1>3, <1>6, <1>8, <1>9, Dialog!ElementEnds!FireThrough
<1>11. /\ page' \in DialogStates /\ page'.crossed = page.crossed /\ page'.isShown = page.isShown
       /\ page'.hiding = 0 /\ Cardinality(page'.dom) <= Cardinality(page.dom) + page.hiding
  BY <1>3, <1>8, <1>10 DEF Here
<1>12. page'.dom \in SUBSET Backdrops
  BY <1>11 DEF DialogStates
<1>13. Cardinality(page'.dom) \in Nat /\ Owed(page') = Owed(page) /\ Owed(page) \in {0, 1}
  BY <1>11, <1>12, DomCounts DEF Owed
<1>14. Cardinality(page'.dom) + page'.hiding + Owed(page') <= Cardinality(Backdrops)
  BY <1>1, <1>4, <1>11, <1>13
<1>15. QED
  BY <1>11, <1>14 DEF DialogSafe

LEMMA DialogNextSafe ==
    ASSUME DialogSafe(page), Dialog!Next
    PROVE  DialogSafe(page') /\ (page.crossed => page'.crossed)
<1>1. /\ page \in DialogStates
      /\ Cardinality(page.dom) + page.hiding + Owed(page) <= Cardinality(Backdrops)
  BY DEF DialogSafe
<1>2. Dialog!Room => Cardinality(page.dom) + page.hiding + 1 < Cardinality(Backdrops)
  <2>1. /\ Dialog!Cardinality(page.dom) = Cardinality(page.dom)
        /\ Dialog!Cardinality(Backdrops) = Cardinality(Backdrops)
    BY DEF Dialog!Cardinality, Cardinality
  <2>2. QED
    BY <2>1 DEF Dialog!Room
<1>3. ASSUME page' = Dialog!Hide(page)
      PROVE  DialogSafe(page') /\ (page.crossed => page'.crossed)
  BY <1>3, HideDialogSafe
<1>4. ASSUME Dialog!Room, page' = Dialog!Show(page)
      PROVE  DialogSafe(page') /\ (page.crossed => page'.crossed)
  BY <1>2, <1>4, ShowDialogSafe
<1>5. ASSUME NEW ignore \in BOOLEAN, page' = [page EXCEPT !.ignoreBackdropClick = ignore]
      PROVE  DialogSafe(page') /\ (page.crossed => page'.crossed)
  <2>1. /\ page' \in DialogStates /\ page'.dom = page.dom /\ page'.hiding = page.hiding
        /\ page'.isShown = page.isShown /\ page'.crossed = page.crossed
    BY <1>1, <1>5 DEF DialogStates
  <2>2. QED
    BY <1>1, <2>1 DEF DialogSafe, Owed
<1>6. CASE Dialog!CallShow
  BY <1>4, <1>6 DEF Dialog!CallShow
<1>7. CASE Dialog!CallHide
  BY <1>3, <1>7 DEF Dialog!CallHide
<1>8. CASE Dialog!Click
  <2>1. page.isShown \in BOOLEAN
    BY <1>1 DEF DialogStates
  <2>2. QED
    BY <1>3, <1>4, <1>8, <2>1 DEF Dialog!Click, Dialog!Toggle
<1>9. CASE Dialog!Keydown
  BY <1>3, <1>9 DEF Dialog!Keydown
<1>10. CASE Dialog!DragOut
  BY <1>5, <1>10 DEF Dialog!DragOut
<1>11. CASE Dialog!ClickBackdrop
  <2>1. \/ page' = [page EXCEPT !.ignoreBackdropClick = FALSE]
        \/ page' = page \/ page' = Dialog!Hide(page)
    BY <1>11 DEF Dialog!ClickBackdrop
  <2>2. QED
    BY <1>3, <1>5, <2>1
<1>12. CASE Dialog!ElementEnd
  BY <1>12, ElementEndSafe
<1>13. CASE Dialog!DialogEnd
  <2>1. /\ page' \in DialogStates /\ page'.dom = page.dom /\ page'.hiding = page.hiding
        /\ page'.isShown = page.isShown /\ page'.crossed = page.crossed
    BY <1>1, <1>13 DEF DialogStates, Dialog!DialogEnd
  <2>2. QED
    BY <1>1, <2>1 DEF DialogSafe, Owed
<1>14. CASE \E b \in Backdrops : Dialog!BackdropEnd(b)
  BY <1>14, DialogEndsSafe
<1>15. QED
  BY <1>6, <1>7, <1>8, <1>9, <1>10, <1>11, <1>12, <1>13, <1>14 DEF Dialog!Next

(* A modal that is not shown while it hides: what waits, and what is still to do. *)

Brought(m) == IF m.backdropOption = "none" THEN m.backdrop = None /\ m.dom = {}
              ELSE m.backdrop \in Backdrops /\ m.dom = {m.backdrop}

Waiting(m) == IF m.backdrop = None THEN <<>> ELSE m.due[m.backdrop]

ShownWhole(m) ==
    /\ m.isShown /\ m.hiding = 0 /\ m.open /\ m.pad = 1 /\ m.originalBodyPad = 0
    /\ m.keys = m.keyboard /\ m.clicks /\ Brought(m)
    /\ \/ m.display /\ m.in /\ m.trap /\ Waiting(m) = <<>>
       \/ m.fade /\ ~m.display /\ Waiting(m) = <<"opened">>

HiddenWhole(m) ==
    /\ ~m.isShown /\ ~m.keys /\ m.hiding = 0 /\ ~m.display /\ ~m.open /\ m.pad = 0
    /\ m.dom = {} /\ m.backdrop = None

\* hide() waits for the element's transition, or then for the backdrop's.
HidingWhole(m) ==
    /\ ~m.isShown /\ ~m.keys /\ m.fade /\ m.open /\ m.originalBodyPad = 0 /\ Brought(m)
    /\ \/ m.hiding = 1 /\ Waiting(m) = <<>>
       \/ m.hiding = 1 /\ Waiting(m) = <<"opened">> /\ ~m.display
       \/ m.hiding = 0 /\ Waiting(m) = <<"remove">> /\ ~m.display

DialogWhole(m) ==
    /\ \A b \in Backdrops : b # m.backdrop => m.due[b] = <<>>
    /\ ShownWhole(m) \/ HiddenWhole(m) \/ HidingWhole(m)

LEMMA HideModalIs ==
    ASSUME NEW m \in DialogStates, ~m.isShown
    PROVE  LET n == Dialog!HideModal(m) IN
           /\ n \in DialogStates /\ SameDialog(m, n) /\ n.isShown = FALSE /\ n.hiding = m.hiding
           /\ n.display = FALSE /\ n.keys = m.keys /\ n.originalBodyPad = m.originalBodyPad
           /\ m.backdrop = None =>
                 /\ n.backdrop = None /\ n.dom = m.dom /\ n.due = m.due
                 /\ n.open = FALSE /\ n.pad = m.originalBodyPad
           /\ m.backdrop # None /\ ~m.fade =>
                 /\ n.backdrop = None /\ n.dom = m.dom \ {m.backdrop}
                 /\ \A b \in Backdrops : n.due[b] = IF b = m.backdrop THEN <<>> ELSE m.due[b]
                 /\ n.open = FALSE /\ n.pad = m.originalBodyPad
           /\ m.backdrop # None /\ m.fade =>
                 /\ n.backdrop = m.backdrop /\ n.dom = m.dom /\ n.open = m.open
                 /\ n.due = [m.due EXCEPT ![m.backdrop] = Append(@, "remove")]
<1> DEFINE k == [m EXCEPT !.display = FALSE]
           n == Dialog!HideModal(m)
<1>1. /\ k \in DialogStates /\ SameDialog(m, k) /\ k.isShown = FALSE /\ k.hiding = m.hiding
      /\ k.display = FALSE /\ k.keys = m.keys /\ k.originalBodyPad = m.originalBodyPad
      /\ k.backdrop = m.backdrop /\ k.dom = m.dom /\ k.due = m.due /\ k.open = m.open
      /\ k.fade = m.fade
  BY DEF DialogStates, SameDialog
<1>2. n = Dialog!Backdrop(k, "hidden")
  BY DEF Dialog!HideModal
<1>3. "hidden" \in Dialog!Callbacks /\ m.fade \in BOOLEAN
  BY DEF Dialog!Callbacks, DialogStates
<1> HIDE DEF k, n
<1>4. CASE m.backdrop = None
  <2> DEFINE c == Dialog!Hidden(k)
  <2>1. n = c
    BY <1>1, <1>2, <1>4, OtherBackdrop DEF Dialog!Call
  <2>2. /\ c \in DialogStates /\ SameDialog(k, c)
        /\ c.isShown = k.isShown /\ c.backdrop = k.backdrop /\ c.dom = k.dom /\ c.due = k.due
        /\ c.hiding = k.hiding /\ c.open = FALSE /\ c.pad = k.originalBodyPad
        /\ c.originalBodyPad = k.originalBodyPad /\ c.keys = k.keys /\ c.display = k.display
    BY <1>1, HiddenIs
  <2> HIDE DEF c
  <2>3. /\ n \in DialogStates /\ SameDialog(m, n) /\ n.isShown = FALSE /\ n.hiding = m.hiding
        /\ n.display = FALSE /\ n.keys = m.keys /\ n.originalBodyPad = m.originalBodyPad
        /\ n.backdrop = None /\ n.dom = m.dom /\ n.due = m.due
        /\ n.open = FALSE /\ n.pad = m.originalBodyPad
    BY <1>1, <1>4, <2>1, <2>2 DEF SameDialog
  <2>4. QED
    BY <1>4, <2>3 DEF n
<1>5. CASE m.backdrop # None /\ ~m.fade
  <2> DEFINE c == Dialog!Hidden(Dialog!RemoveBackdrop(k))
  <2>1. n = c
    BY <1>1, <1>2, <1>5, OtherBackdrop
  <2>2. /\ c \in DialogStates /\ SameDialog(k, c)
        /\ c.isShown = k.isShown /\ c.backdrop = None /\ c.dom = k.dom \ {k.backdrop}
        /\ \A b \in Backdrops : c.due[b] = IF b = k.backdrop THEN <<>> ELSE k.due[b]
        /\ c.hiding = k.hiding /\ c.open = FALSE /\ c.pad = k.originalBodyPad
        /\ c.originalBodyPad = k.originalBodyPad /\ c.keys = k.keys /\ c.display = k.display
    BY <1>1, RemoveIs
  <2> HIDE DEF c
  <2>3. /\ n \in DialogStates /\ SameDialog(m, n) /\ n.isShown = FALSE /\ n.hiding = m.hiding
        /\ n.display = FALSE /\ n.keys = m.keys /\ n.originalBodyPad = m.originalBodyPad
        /\ n.backdrop = None /\ n.dom = m.dom \ {m.backdrop}
        /\ \A b \in Backdrops : n.due[b] = IF b = m.backdrop THEN <<>> ELSE m.due[b]
        /\ n.open = FALSE /\ n.pad = m.originalBodyPad
    BY <1>1, <1>5, <2>1, <2>2 DEF SameDialog
  <2>4. QED
    BY <1>5, <2>3 DEF n
<1>6. CASE m.backdrop # None /\ m.fade
  <2>1. /\ n \in DialogStates /\ SameDialog(k, n)
        /\ n.isShown = k.isShown /\ n.backdrop = k.backdrop /\ n.dom = k.dom
        /\ n.due = [k.due EXCEPT ![k.backdrop] = Append(@, "remove")]
        /\ n.hiding = k.hiding /\ n.open = k.open
        /\ n.originalBodyPad = k.originalBodyPad /\ n.keys = k.keys /\ n.display = k.display
    BY <1>1, <1>2, <1>3, <1>6, FadingBackdrop
  <2>2. /\ n \in DialogStates /\ SameDialog(m, n) /\ n.isShown = FALSE /\ n.hiding = m.hiding
        /\ n.display = FALSE /\ n.keys = m.keys /\ n.originalBodyPad = m.originalBodyPad
        /\ n.backdrop = m.backdrop /\ n.dom = m.dom /\ n.open = m.open
        /\ n.due = [m.due EXCEPT ![m.backdrop] = Append(@, "remove")]
    BY <1>1, <2>1 DEF SameDialog
  <2>3. QED
    BY <1>6, <2>2 DEF n
<1>7. QED
  BY <1>3, <1>4, <1>5, <1>6

LEMMA ShowDialogIs ==
    ASSUME NEW m \in DialogStates, ~m.isShown
    PROVE  \E k \in DialogStates :
              /\ Dialog!Show(m) = Dialog!Backdrop(k, "opened") /\ SameDialog(m, k)
              /\ k.crossed = (m.crossed \/ Dialog!StillHiding(m))
              /\ k.isShown = TRUE /\ k.backdrop = m.backdrop /\ k.dom = m.dom /\ k.due = m.due
              /\ k.hiding = m.hiding /\ k.open = TRUE /\ k.pad = IF m.open THEN m.pad ELSE 1
              /\ k.originalBodyPad = m.pad /\ k.keys = (m.keyboard \/ m.keys) /\ k.clicks = TRUE
              /\ k.display = m.display
<1> DEFINE pad == IF m.open THEN m.pad ELSE 1
           keys == m.keyboard \/ m.keys
           crossed == m.crossed \/ Dialog!StillHiding(m)
           k == [Dialog!SetScrollbar(m) EXCEPT !.isShown = TRUE, !.keys = keys, !.clicks = TRUE,
                                               !.crossed = crossed]
           g == [m EXCEPT !.originalBodyPad = m.pad, !.pad = pad, !.open = TRUE]
           h == [g EXCEPT !.isShown = TRUE, !.keys = keys]
           j == [h EXCEPT !.clicks = TRUE, !.crossed = crossed]
<1>1. pad \in 0 .. 1 /\ keys \in BOOLEAN /\ crossed \in BOOLEAN
  BY DEF DialogStates, Dialog!StillHiding
<1>2. Dialog!Show(m) = Dialog!Backdrop(k, "opened")
  BY DEF Dialog!Show
<1>3. k = j
  BY DEF Dialog!SetScrollbar, DialogStates
<1>4. /\ pad = IF m.open THEN m.pad ELSE 1
      /\ keys = (m.keyboard \/ m.keys) /\ crossed = (m.crossed \/ Dialog!StillHiding(m))
  OBVIOUS
<1> HIDE DEF pad, keys, crossed, k
<1>5. /\ g \in DialogStates /\ SameDialog(m, g)
      /\ g.backdrop = m.backdrop /\ g.dom = m.dom /\ g.due = m.due
      /\ g.hiding = m.hiding /\ g.open = TRUE /\ g.pad = pad /\ g.originalBodyPad = m.pad
      /\ g.display = m.display
  BY <1>1 DEF DialogStates, SameDialog
<1> HIDE DEF g
<1>6. /\ h \in DialogStates /\ SameDialog(g, h)
      /\ h.isShown = TRUE /\ h.backdrop = g.backdrop /\ h.dom = g.dom /\ h.due = g.due
      /\ h.hiding = g.hiding /\ h.open = g.open /\ h.pad = g.pad
      /\ h.originalBodyPad = g.originalBodyPad /\ h.keys = keys /\ h.display = g.display
  BY <1>1, <1>5 DEF DialogStates, SameDialog
<1> HIDE DEF h
<1>7. /\ j \in DialogStates /\ SameDialog(h, j) /\ j.crossed = crossed
      /\ j.isShown = h.isShown /\ j.backdrop = h.backdrop /\ j.dom = h.dom /\ j.due = h.due
      /\ j.hiding = h.hiding /\ j.open = h.open /\ j.pad = h.pad
      /\ j.originalBodyPad = h.originalBodyPad /\ j.keys = h.keys /\ j.display = h.display
      /\ j.clicks = TRUE
  BY <1>1, <1>6 DEF DialogStates, SameDialog
<1> HIDE DEF j
<1>8. /\ j \in DialogStates /\ Dialog!Show(m) = Dialog!Backdrop(j, "opened") /\ SameDialog(m, j)
      /\ j.crossed = (m.crossed \/ Dialog!StillHiding(m))
      /\ j.isShown = TRUE /\ j.backdrop = m.backdrop /\ j.dom = m.dom /\ j.due = m.due
      /\ j.hiding = m.hiding /\ j.open = TRUE /\ j.pad = IF m.open THEN m.pad ELSE 1
      /\ j.originalBodyPad = m.pad /\ j.keys = (m.keyboard \/ m.keys) /\ j.clicks = TRUE
      /\ j.display = m.display
  BY <1>2, <1>3, <1>4, <1>5, <1>6, <1>7 DEF SameDialog
<1>9. QED
  BY <1>8

LEMMA WaitsRemove == "remove" \in Dialog!Range(<<"remove">>)
<1>1. <<"remove">>[1] = "remove" /\ 1 \in DOMAIN <<"remove">>
  OBVIOUS
<1>2. QED
  BY <1>1 DEF Dialog!Range

LEMMA ShowDialogWhole ==
    ASSUME NEW m, DialogSafe(m), Cardinality(m.dom) + m.hiding + 1 < Cardinality(Backdrops),
           DialogWhole(m), ~Dialog!Show(m).crossed
    PROVE  DialogWhole(Dialog!Show(m))
<1> DEFINE n == Dialog!Show(m)
<1>1. /\ m \in DialogStates /\ m.isShown \in BOOLEAN /\ m.keys \in BOOLEAN /\ m.keyboard \in BOOLEAN
      /\ m.fade \in BOOLEAN /\ m.dom \in SUBSET Backdrops /\ m.hiding \in Nat
      /\ m.backdropOption \in {"none", "plain", "static"}
  BY DEF DialogSafe, DialogStates
<1>2. CASE m.isShown
  BY <1>2 DEF Dialog!Show
<1>3. CASE ~m.isShown
  <2>1. PICK k \in DialogStates :
              /\ n = Dialog!Backdrop(k, "opened") /\ SameDialog(m, k)
              /\ k.crossed = (m.crossed \/ Dialog!StillHiding(m))
              /\ k.isShown = TRUE /\ k.backdrop = m.backdrop /\ k.dom = m.dom /\ k.due = m.due
              /\ k.hiding = m.hiding /\ k.open = TRUE /\ k.pad = IF m.open THEN m.pad ELSE 1
              /\ k.originalBodyPad = m.pad /\ k.keys = (m.keyboard \/ m.keys) /\ k.clicks = TRUE
              /\ k.display = m.display
    BY <1>1, <1>3, ShowDialogIs
  <2>2. Cardinality(k.dom) < Cardinality(Backdrops)
    <3>1. Cardinality(m.dom) \in Nat /\ Cardinality(Backdrops) \in Nat
      BY <1>1, DomCounts
    <3>2. QED
      BY <1>1, <2>1, <3>1
  <2>3. "opened" \in Dialog!Callbacks
    BY DEF Dialog!Callbacks
  <2>4. n.crossed = k.crossed
    BY <2>1, <2>2, <2>3, BackdropSafe DEF SameCounts
  <2>5. ~Dialog!StillHiding(m)
    BY <2>1, <2>4
  <2>6. HiddenWhole(m)
    <3>1. m.hiding = 0 /\ \A b \in Backdrops : "remove" \notin Dialog!Range(m.due[b])
      BY <1>1, <2>5 DEF Dialog!StillHiding
    <3>2. ~HidingWhole(m)
      <4>1. Waiting(m) # <<"remove">>
        <5>1. <<>> # <<"remove">>
          OBVIOUS
        <5>2. m.backdrop \in Backdrops => m.due[m.backdrop] # <<"remove">>
          BY <3>1, WaitsRemove
        <5>3. m.backdrop \in Backdrops \cup {None}
          BY <1>1 DEF DialogStates
        <5>4. QED
          BY <5>1, <5>2, <5>3 DEF Waiting
      <4>2. QED
        BY <3>1, <4>1 DEF HidingWhole
    <3>3. QED
      BY <1>3, <3>2 DEF DialogWhole, ShownWhole
  <2>7. /\ k.dom = {} /\ k.backdrop = None /\ k.pad = 1 /\ k.originalBodyPad = 0
        /\ k.keys = k.keyboard /\ k.hiding = 0 /\ ~k.display
        /\ \A b \in Backdrops : k.due[b] = <<>>
    <3>1. \A b \in Backdrops : b # None
      BY ModalAssumption
    <3>2. QED
      BY <1>1, <2>1, <2>6, <3>1 DEF HiddenWhole, DialogWhole, SameDialog
  <2>8. k.fade = m.fade /\ k.backdropOption = m.backdropOption
    BY <2>1 DEF SameDialog
  <2>9. CASE m.backdropOption = "none"
    <3> DEFINE c == Dialog!Opened(k)
    <3>1. n = c
      BY <2>1, <2>8, <2>9, OtherBackdrop DEF Dialog!Call
    <3>2. /\ SameDialog(k, c) /\ c.isShown = k.isShown /\ c.backdrop = k.backdrop
          /\ c.dom = k.dom /\ c.due = k.due /\ c.hiding = k.hiding /\ c.open = k.open
          /\ c.pad = k.pad /\ c.originalBodyPad = k.originalBodyPad /\ c.keys = k.keys
          /\ c.clicks = k.clicks /\ c.display = TRUE /\ c.in = TRUE /\ c.trap = TRUE
      BY OpenedIs
    <3> HIDE DEF c, n
    <3>3. ShownWhole(n)
      BY <2>1, <2>7, <2>8, <2>9, <3>1, <3>2 DEF ShownWhole, Brought, Waiting, SameDialog
    <3>4. \A b \in Backdrops : n.due[b] = <<>>
      BY <2>7, <3>1, <3>2
    <3>5. DialogWhole(n)
      BY <3>3, <3>4 DEF DialogWhole
    <3>6. QED
      BY <3>5 DEF n
  <2>10. CASE m.backdropOption # "none"
    <3>1. PICK b \in Backdrops \ k.dom, j \in DialogStates :
              /\ ShowsBackdrop(k, j, b)
              /\ IF k.fade THEN n = j /\ j.due = [k.due EXCEPT ![b] = <<"opened">>]
                           ELSE n = Dialog!Call(j, "opened") /\ j.due = k.due
      <4> DEFINE d == Dialog!Backdrop(k, "opened")
      <4>1. n = d /\ k.isShown /\ k.backdropOption # "none"
        BY <2>1, <2>8, <2>10
      <4>2. \E b \in Backdrops \ k.dom, j \in DialogStates :
              /\ ShowsBackdrop(k, j, b)
              /\ IF k.fade THEN d = j /\ j.due = [k.due EXCEPT ![b] = <<"opened">>]
                           ELSE d = Dialog!Call(j, "opened") /\ j.due = k.due
        BY <2>2, <2>3, <4>1, ShownBackdrop
      <4> HIDE DEF d, n
      <4>3. QED
        BY <4>1, <4>2
    <3> HIDE DEF n
    <3>2. /\ j \in DialogStates /\ j.fade = k.fade /\ j.backdropOption = k.backdropOption
          /\ j.keyboard = k.keyboard /\ j.isShown = TRUE /\ j.backdrop = b /\ j.dom = {b}
          /\ j.hiding = 0 /\ j.open = TRUE /\ j.pad = 1 /\ j.originalBodyPad = 0
          /\ j.keys = j.keyboard /\ j.clicks = TRUE /\ ~j.display /\ b # None
      <4>1. /\ j \in DialogStates /\ SameDialog(k, j)
            /\ j.isShown = k.isShown /\ j.backdrop = b /\ j.dom = k.dom \cup {b}
            /\ j.hiding = k.hiding /\ j.open = k.open /\ j.pad = k.pad
            /\ j.originalBodyPad = k.originalBodyPad /\ j.keys = k.keys /\ j.clicks = TRUE
            /\ j.display = k.display
        BY <3>1 DEF ShowsBackdrop
      <4>2. b # None
        BY ModalAssumption
      <4>3. QED
        BY <2>1, <2>7, <4>1, <4>2 DEF SameDialog
    <3>3. CASE m.fade
      <4>1. n = j /\ j.due = [k.due EXCEPT ![b] = <<"opened">>]
        BY <2>8, <3>1, <3>3
      <4>2. k.due \in [Backdrops -> Seq(Dialog!Callbacks)]
        BY DEF DialogStates
      <4>3. j.due[b] = <<"opened">> /\ \A a \in Backdrops : a # b => j.due[a] = <<>>
        BY <2>7, <4>1, <4>2
      <4>4. ShownWhole(j)
        BY <2>8, <2>10, <3>2, <3>3, <4>3 DEF ShownWhole, Brought, Waiting
      <4>5. DialogWhole(j)
        BY <3>2, <4>3, <4>4 DEF DialogWhole
      <4>6. QED
        BY <4>1, <4>5 DEF n
    <3>4. CASE ~m.fade
      <4> DEFINE c == Dialog!Opened(j)
      <4>1. n = c /\ j.due = k.due
        BY <2>8, <3>1, <3>4 DEF Dialog!Call
      <4>2. /\ SameDialog(j, c) /\ c.isShown = j.isShown /\ c.backdrop = j.backdrop
            /\ c.dom = j.dom /\ c.due = j.due /\ c.hiding = j.hiding /\ c.open = j.open
            /\ c.pad = j.pad /\ c.originalBodyPad = j.originalBodyPad /\ c.keys = j.keys
            /\ c.clicks = j.clicks /\ c.display = TRUE /\ c.in = TRUE /\ c.trap = TRUE
        BY <3>2, OpenedIs
      <4> HIDE DEF c
      <4>3. \A a \in Backdrops : c.due[a] = <<>>
        BY <2>7, <4>1, <4>2
      <4>4. ShownWhole(c)
        BY <2>8, <2>10, <3>2, <4>2, <4>3 DEF ShownWhole, Brought, Waiting, SameDialog
      <4>5. DialogWhole(c)
        BY <4>3, <4>4 DEF DialogWhole
      <4>6. QED
        BY <4>1, <4>5 DEF n
    <3>5. QED
      BY <1>1, <3>3, <3>4
  <2>11. QED
    BY <2>9, <2>10
<1>4. QED
  BY <1>1, <1>2, <1>3

LEMMA HideDialogWhole ==
    ASSUME NEW m, DialogSafe(m), DialogWhole(m)
    PROVE  DialogWhole(Dialog!Hide(m))
<1>1. m \in DialogStates /\ m.isShown \in BOOLEAN /\ m.fade \in BOOLEAN
  BY DEF DialogSafe, DialogStates
<1>2. CASE ~m.isShown
  BY <1>2 DEF Dialog!Hide
<1>3. CASE m.isShown
  <2>1. ShownWhole(m) /\ \A b \in Backdrops : b # m.backdrop => m.due[b] = <<>>
    BY <1>3 DEF DialogWhole, HiddenWhole, HidingWhole
  <2>2. PICK k : /\ HidesDialog(m, k)
                 /\ IF m.fade THEN Dialog!Hide(m) = k /\ k.hiding = m.hiding + 1
                              ELSE Dialog!Hide(m) = Dialog!HideModal(k) /\ k.hiding = m.hiding
    BY <1>1, <1>3, HideDialogIs
  <2>3. /\ k \in DialogStates /\ k.fade = m.fade /\ k.backdropOption = m.backdropOption
        /\ k.isShown = FALSE /\ k.backdrop = m.backdrop /\ k.dom = m.dom /\ k.due = m.due
        /\ k.open = m.open /\ k.pad = m.pad /\ k.originalBodyPad = m.originalBodyPad
        /\ k.keys = FALSE /\ k.display = m.display
    BY <2>2 DEF HidesDialog, SameDialog
  <2>4. /\ m.hiding = 0 /\ m.open /\ m.originalBodyPad = 0 /\ Brought(m)
        /\ \/ m.display /\ Waiting(m) = <<>>
           \/ m.fade /\ ~m.display /\ Waiting(m) = <<"opened">>
    BY <2>1 DEF ShownWhole
  <2>5. Brought(k) /\ Waiting(k) = Waiting(m)
    BY <2>3, <2>4 DEF Brought, Waiting
  <2>6. CASE m.fade
    <3>1. Dialog!Hide(m) = k /\ k.hiding = 1
      BY <2>2, <2>4, <2>6
    <3>2. HidingWhole(k)
      BY <2>3, <2>4, <2>5, <2>6, <3>1 DEF HidingWhole
    <3>3. QED
      BY <2>1, <2>3, <3>1, <3>2 DEF DialogWhole
  <2>7. CASE ~m.fade
    <3> DEFINE n == Dialog!HideModal(k)
    <3>1. Dialog!Hide(m) = n /\ k.hiding = 0 /\ Waiting(m) = <<>> /\ k.originalBodyPad = 0
      BY <2>2, <2>3, <2>4, <2>7
    <3>2. k.backdrop # None => k.dom = {k.backdrop} /\ k.due[k.backdrop] = <<>>
      BY <2>5, <3>1 DEF Brought, Waiting
    <3>3. k.backdrop = None => k.dom = {}
      BY <2>5, ModalAssumption DEF Brought
    <3>4. /\ n.isShown = FALSE /\ n.hiding = k.hiding /\ n.display = FALSE /\ n.keys = k.keys
          /\ k.backdrop = None =>
                 /\ n.backdrop = None /\ n.dom = k.dom /\ n.due = k.due
                 /\ n.open = FALSE /\ n.pad = k.originalBodyPad
          /\ k.backdrop # None =>
                 /\ n.backdrop = None /\ n.dom = k.dom \ {k.backdrop}
                 /\ \A b \in Backdrops : n.due[b] = IF b = k.backdrop THEN <<>> ELSE k.due[b]
                 /\ n.open = FALSE /\ n.pad = k.originalBodyPad
      BY <2>3, <2>7, HideModalIs
    <3> HIDE DEF n
    <3>5. HiddenWhole(n)
      BY <2>3, <3>1, <3>2, <3>3, <3>4 DEF HiddenWhole
    <3>6. \A b \in Backdrops : n.due[b] = <<>>
      BY <2>1, <2>3, <3>2, <3>4, ModalAssumption
    <3>7. QED
      BY <3>1, <3>5, <3>6 DEF DialogWhole
  <2>8. QED
    BY <1>1, <2>6, <2>7
<1>4. QED
  BY <1>1, <1>2, <1>3

LEMMA BackdropEndWhole ==
    ASSUME DialogSafe(page), DialogWhole(page), NEW b \in Backdrops, Dialog!BackdropEnd(b)
    PROVE  DialogWhole(page')
<1> DEFINE list == page.due[b]
           due == [page.due EXCEPT ![b] = <<>>]
           s == [page EXCEPT !.due = due]
           m == page'
<1>1. page \in DialogStates /\ page.due \in [Backdrops -> Seq(Dialog!Callbacks)]
  BY DEF DialogSafe, DialogStates
<1>2. m = Dialog!BackdropEnds!Fire(s, list) /\ list # <<>>
  BY <1>1 DEF Dialog!BackdropEnd, DialogStates
<1>3. page.backdrop = b /\ b # None
  BY <1>2, ModalAssumption DEF DialogWhole
<1>4. Waiting(page) = list
  BY <1>3 DEF Waiting
<1>5. /\ due \in [Backdrops -> Seq(Dialog!Callbacks)]
      /\ \A a \in Backdrops : due[a] = <<>>
  <2>1. <<>> \in Seq(Dialog!Callbacks)
    OBVIOUS
  <2>2. QED
    BY <1>1, <1>3, <2>1 DEF DialogWhole
<1> HIDE DEF list, due, m
<1>6. /\ s \in DialogStates /\ SameDialog(page, s) /\ s.isShown = page.isShown
      /\ s.backdrop = b /\ s.dom = page.dom /\ s.due = due /\ s.hiding = page.hiding
      /\ s.open = page.open /\ s.pad = page.pad /\ s.originalBodyPad = page.originalBodyPad
      /\ s.keys = page.keys /\ s.clicks = page.clicks /\ s.display = page.display
  BY <1>1, <1>3, <1>5 DEF DialogStates, SameDialog
<1> HIDE DEF s
<1>7. Len(<<"opened">>) = 1 /\ Len(<<"remove">>) = 1
      /\ <<"opened">>[1] = "opened" /\ <<"remove">>[1] = "remove"
  OBVIOUS
<1>8. CASE list = <<"opened">>
  <2> DEFINE c == Dialog!Opened(s)
  <2>1. m = c
    <3>1. m = Dialog!Call(s, "opened")
      BY <1>2, <1>7, <1>8, Dialog!BackdropEnds!FireOne
    <3>2. QED
      BY <3>1 DEF Dialog!Call
  <2>2. /\ SameDialog(s, c) /\ c.isShown = s.isShown /\ c.backdrop = s.backdrop
        /\ c.dom = s.dom /\ c.due = s.due /\ c.hiding = s.hiding /\ c.open = s.open
        /\ c.pad = s.pad /\ c.originalBodyPad = s.originalBodyPad /\ c.keys = s.keys
        /\ c.clicks = s.clicks /\ c.display = TRUE /\ c.in = TRUE /\ c.trap = TRUE
    BY <1>6, OpenedIs
  <2> HIDE DEF c
  <2>3. /\ m.fade = page.fade /\ m.backdropOption = page.backdropOption
        /\ m.keyboard = page.keyboard /\ m.isShown = page.isShown /\ m.backdrop = page.backdrop
        /\ m.dom = page.dom /\ m.due = due /\ m.hiding = page.hiding /\ m.open = page.open
        /\ m.pad = page.pad /\ m.originalBodyPad = page.originalBodyPad /\ m.keys = page.keys
        /\ m.clicks = page.clicks /\ m.display = TRUE /\ m.in = TRUE /\ m.trap = TRUE
    BY <1>3, <1>6, <2>1, <2>2 DEF SameDialog
  <2>4. Waiting(m) = <<>> /\ (Brought(page) => Brought(m))
    BY <1>3, <1>5, <2>3 DEF Waiting, Brought
  <2>5. ~HiddenWhole(page)
    BY <1>3 DEF HiddenWhole
  <2>6. Waiting(page) # <<"remove">> /\ Waiting(page) # <<>>
    <3>1. <<"opened">> # <<"remove">>
      BY <1>7
    <3>2. QED
      BY <1>2, <1>4, <1>8, <3>1
  <2>7. CASE ShownWhole(page)
    <3>1. ShownWhole(m)
      BY <2>3, <2>4, <2>7 DEF ShownWhole
    <3>2. QED
      BY <1>5, <2>3, <3>1 DEF DialogWhole, m
  <2>8. CASE HidingWhole(page)
    <3>1. HidingWhole(m)
      BY <2>3, <2>4, <2>6, <2>8 DEF HidingWhole
    <3>2. QED
      BY <1>5, <2>3, <3>1 DEF DialogWhole, m
  <2>9. QED
    BY <2>5, <2>7, <2>8 DEF DialogWhole
<1>9. CASE list = <<"remove">>
  <2> DEFINE c == Dialog!Hidden(Dialog!RemoveBackdrop(s))
  <2>1. m = c
    <3>1. m = Dialog!Call(s, "remove")
      BY <1>2, <1>7, <1>9, Dialog!BackdropEnds!FireOne
    <3>2. QED
      BY <3>1 DEF Dialog!Call
  <2>2. /\ c.isShown = s.isShown /\ c.backdrop = None /\ c.dom = s.dom \ {s.backdrop}
        /\ \A a \in Backdrops : c.due[a] = IF a = s.backdrop THEN <<>> ELSE s.due[a]
        /\ c.hiding = s.hiding /\ c.open = FALSE /\ c.pad = s.originalBodyPad
        /\ c.keys = s.keys /\ c.display = s.display
    BY <1>6, RemoveIs
  <2> HIDE DEF c
  <2>3. Waiting(page) # <<"opened">> /\ Waiting(page) # <<>>
    <3>1. <<"opened">> # <<"remove">>
      BY <1>7
    <3>2. QED
      BY <1>2, <1>4, <1>9, <3>1
  <2>4. HidingWhole(page)
    BY <1>3, <2>3 DEF DialogWhole, ShownWhole, HiddenWhole
  <2>5. /\ ~page.isShown /\ ~page.keys /\ page.hiding = 0 /\ ~page.display
        /\ page.originalBodyPad = 0 /\ page.dom = {b}
    BY <1>3, <2>3, <2>4, ModalAssumption DEF HidingWhole, Brought
  <2>6. HiddenWhole(m)
    BY <1>6, <2>1, <2>2, <2>5 DEF HiddenWhole
  <2>7. \A a \in Backdrops : m.due[a] = <<>>
    BY <1>5, <1>6, <2>1, <2>2
  <2>8. QED
    BY <2>6, <2>7 DEF DialogWhole, m
<1>10. list = <<"opened">> \/ list = <<"remove">>
  BY <1>2, <1>3, <1>4 DEF DialogWhole, ShownWhole, HiddenWhole, HidingWhole
<1>11. QED
  BY <1>8, <1>9, <1>10 DEF m

LEMMA ElementEndWhole ==
    ASSUME DialogSafe(page), DialogWhole(page), Dialog!ElementEnd
    PROVE  DialogWhole(page')
<1> DEFINE list == [i \in 1 .. page.hiding |-> i]
           s == [page EXCEPT !.hiding = 0]
           m == page'
<1>1. page \in DialogStates /\ page.fade \in BOOLEAN
  BY DEF DialogSafe, DialogStates
<1>2. /\ m = Dialog!ElementEnds!Fire(s, list) /\ page.hiding > 0
      /\ page.display \/ \A b \in Backdrops : "opened" \notin Dialog!Range(page.due[b])
  BY DEF Dialog!ElementEnd
<1>3. HidingWhole(page) /\ page.hiding = 1
  BY <1>2 DEF DialogWhole, ShownWhole, HiddenWhole, HidingWhole
<1>4. Waiting(page) = <<>>
  <2>1. CASE Waiting(page) = <<"opened">> /\ ~page.display
    <3>1. /\ <<"opened">>[1] = "opened" /\ 1 \in DOMAIN <<"opened">>
          /\ <<"opened">> # <<>>
      OBVIOUS
    <3>2. page.backdrop # None /\ page.backdrop \in Backdrops
      BY <1>1, <2>1, <3>1 DEF Waiting, DialogStates
    <3>3. page.due[page.backdrop] = <<"opened">>
      BY <2>1, <3>2 DEF Waiting
    <3>4. "opened" \in Dialog!Range(<<"opened">>)
      BY <3>1 DEF Dialog!Range
    <3>5. QED
      BY <1>2, <2>1, <3>2, <3>3, <3>4
  <2>2. QED
    BY <1>3, <2>1 DEF HidingWhole
<1>5. Len(list) = 1 /\ list[1] = 1
  <2>1. list = <<1>>
    <3>1. list \in Seq({1}) /\ Len(list) = 1 /\ list[1] = 1
      BY <1>3
    <3>2. <<1>> \in Seq({1}) /\ Len(<<1>>) = 1 /\ <<1>>[1] = 1
      OBVIOUS
    <3> HIDE DEF list
    <3>3. QED
      BY <3>1, <3>2, SeqEqual
  <2>2. QED
    BY <2>1
<1> HIDE DEF list
<1>6. m = Dialog!HideModal(s)
  <2>1. m = Dialog!HideAgain(s, 1)
    BY <1>2, <1>5, Dialog!ElementEnds!FireOne
  <2>2. QED
    BY <2>1 DEF Dialog!HideAgain
<1> HIDE DEF m
<1>7. /\ s \in DialogStates /\ SameDialog(page, s) /\ s.isShown = page.isShown
      /\ s.backdrop = page.backdrop /\ s.dom = page.dom /\ s.due = page.due /\ s.hiding = 0
      /\ s.open = page.open /\ s.originalBodyPad = page.originalBodyPad /\ s.keys = page.keys
  BY <1>1 DEF DialogStates, SameDialog
<1> HIDE DEF s
<1>8. s.fade /\ s.backdropOption = page.backdropOption /\ ~s.isShown /\ ~s.keys
      /\ s.originalBodyPad = 0 /\ s.open
  BY <1>3, <1>7 DEF HidingWhole, SameDialog
<1>9. /\ SameDialog(s, m) /\ m.isShown = FALSE /\ m.hiding = s.hiding
      /\ m.display = FALSE /\ m.keys = s.keys /\ m.originalBodyPad = s.originalBodyPad
      /\ s.backdrop = None =>
                 /\ m.backdrop = None /\ m.dom = s.dom /\ m.due = s.due
                 /\ m.open = FALSE /\ m.pad = s.originalBodyPad
      /\ s.backdrop # None =>
                 /\ m.backdrop = s.backdrop /\ m.dom = s.dom /\ m.open = s.open
                 /\ m.due = [s.due EXCEPT ![s.backdrop] = Append(@, "remove")]
  BY <1>6, <1>7, <1>8, HideModalIs
<1>10. Brought(page) /\ \A b \in Backdrops : b # page.backdrop => page.due[b] = <<>>
  BY <1>3 DEF HidingWhole, DialogWhole
<1>11. CASE page.backdrop = None
  <2>1. page.dom = {}
    BY <1>10, <1>11, ModalAssumption DEF Brought
  <2>2. HiddenWhole(m)
    BY <1>7, <1>8, <1>9, <1>11, <2>1 DEF HiddenWhole
  <2>3. \A b \in Backdrops : m.due[b] = <<>>
    BY <1>7, <1>9, <1>10, <1>11, ModalAssumption
  <2>4. QED
    BY <2>2, <2>3 DEF DialogWhole, m
<1>12. CASE page.backdrop # None
  <2> DEFINE b == page.backdrop
  <2>1. /\ b \in Backdrops /\ s.due[b] = <<>> /\ s.due \in [Backdrops -> Seq(Dialog!Callbacks)]
        /\ s.backdrop = b
    BY <1>1, <1>4, <1>7, <1>12 DEF Waiting, DialogStates
  <2>2. /\ m.backdrop = b /\ m.dom = page.dom /\ m.open = TRUE
        /\ m.due = [s.due EXCEPT ![b] = Append(@, "remove")]
    <3>1. s.open = TRUE
      BY <1>7, <1>8 DEF DialogStates
    <3>2. QED
      BY <1>7, <1>9, <1>12, <2>1, <3>1
  <2>3. m.due[b] = <<"remove">> /\ \A a \in Backdrops : a # b => m.due[a] = <<>>
    <3>1. m.due[b] = Append(<<>>, "remove")
      BY <2>1, <2>2
    <3>2. m.due[b] = <<"remove">>
      BY <3>1, OneDue
    <3>3. \A a \in Backdrops : a # b => m.due[a] = s.due[a]
      BY <2>1, <2>2
    <3>4. QED
      BY <1>7, <1>10, <3>2, <3>3
  <2>4. Brought(m) /\ Waiting(m) = <<"remove">> /\ m.fade
    BY <1>8, <1>9, <1>10, <1>12, <2>2, <2>3 DEF Brought, Waiting, SameDialog
  <2>5. HidingWhole(m)
    BY <1>7, <1>8, <1>9, <2>2, <2>4 DEF HidingWhole
  <2>6. QED
    BY <2>2, <2>3, <2>5 DEF DialogWhole, m
<1>13. QED
  BY <1>11, <1>12

DialogInv(m) == DialogSafe(m) /\ (~m.crossed => DialogWhole(m))

LEMMA DialogInit ==
    ASSUME Dialog!Init
    PROVE  DialogInv(page)
<1> DEFINE none == [b \in Backdrops |-> <<>>]
<1>1. /\ none \in [Backdrops -> Seq(Dialog!Callbacks)] /\ \A b \in Backdrops : none[b] = <<>>
  <2>1. <<>> \in Seq(Dialog!Callbacks)
    OBVIOUS
  <2>2. QED
    BY <2>1
<1>2. page \in [
      fade : BOOLEAN, backdropOption : {"none", "plain", "static"}, keyboard : BOOLEAN,
      isShown : {FALSE}, backdrop : {None}, dom : {{}},
      due : {none}, hiding : {0}, opening : {FALSE},
      display : {FALSE}, in : {FALSE}, open : {FALSE}, pad : {0}, originalBodyPad : {0},
      trap : {FALSE}, keys : {FALSE}, clicks : {FALSE}, ignoreBackdropClick : {FALSE},
      crossed : {FALSE}]
  BY DEF Dialog!Init
<1> HIDE DEF none
<1>3. /\ page \in DialogStates /\ page.isShown = FALSE /\ page.backdrop = None
      /\ page.dom = {} /\ page.due = none /\ page.hiding = 0 /\ page.display = FALSE
      /\ page.open = FALSE /\ page.pad = 0 /\ page.keys = FALSE
  <2>1. /\ page.isShown = FALSE /\ page.backdrop = None
        /\ page.dom = {} /\ page.due = none /\ page.hiding = 0 /\ page.display = FALSE
        /\ page.open = FALSE /\ page.pad = 0 /\ page.keys = FALSE
    BY <1>2
  <2> DEFINE Off == {FALSE}
             Zero == {0}
             Clear == {{}}
             Bare == {None}
             Idle == {none}
  <2>2. page \in [
      fade : BOOLEAN, backdropOption : {"none", "plain", "static"}, keyboard : BOOLEAN,
      isShown : Off, backdrop : Bare, dom : Clear,
      due : Idle, hiding : Zero, opening : Off,
      display : Off, in : Off, open : Off, pad : Zero, originalBodyPad : Zero,
      trap : Off, keys : Off, clicks : Off, ignoreBackdropClick : Off, crossed : Off]
    BY <1>2
  <2>3. /\ \A x \in Off : x \in BOOLEAN
        /\ \A x \in Zero : x \in Nat /\ x \in 0 .. 1
        /\ \A x \in Clear : x \in SUBSET Backdrops
        /\ \A x \in Bare : x \in Backdrops \cup {None}
        /\ \A x \in Idle : x \in [Backdrops -> Seq(Dialog!Callbacks)]
    BY <1>1
  <2> HIDE DEF Off, Zero, Clear, Bare, Idle
  <2>4. page \in DialogStates
    BY <2>2, <2>3 DEF DialogStates
  <2>5. QED
    BY <2>1, <2>4
<1>4. DialogSafe(page)
  <2>1. Cardinality({}) = 0 /\ Cardinality(Backdrops) \in Nat
    BY FS_EmptySet, DomCounts
  <2>2. QED
    BY <1>3, <2>1 DEF DialogSafe, Owed
<1>5. DialogWhole(page)
  BY <1>1, <1>3 DEF DialogWhole, HiddenWhole
<1>6. QED
  BY <1>4, <1>5 DEF DialogInv

LEMMA DialogNext ==
    ASSUME DialogInv(page), Dialog!Next
    PROVE  DialogInv(page')
<1>1. DialogSafe(page) /\ DialogSafe(page') /\ (page.crossed => page'.crossed)
  BY DialogNextSafe DEF DialogInv
<1>2. ASSUME ~page'.crossed
      PROVE  DialogWhole(page')
  <2>1. DialogWhole(page) /\ page \in DialogStates
    BY <1>1, <1>2 DEF DialogInv, DialogSafe
  <2>2. Dialog!Room => Cardinality(page.dom) + page.hiding + 1 < Cardinality(Backdrops)
    <3>1. /\ Dialog!Cardinality(page.dom) = Cardinality(page.dom)
          /\ Dialog!Cardinality(Backdrops) = Cardinality(Backdrops)
      BY DEF Dialog!Cardinality, Cardinality
    <3>2. QED
      BY <3>1 DEF Dialog!Room
  <2>3. ASSUME page' = Dialog!Hide(page)
        PROVE  DialogWhole(page')
    BY <1>1, <2>1, <2>3, HideDialogWhole
  <2>4. ASSUME Dialog!Room, page' = Dialog!Show(page)
        PROVE  DialogWhole(page')
    BY <1>1, <1>2, <2>1, <2>2, <2>4, ShowDialogWhole
  <2>5. ASSUME NEW ignore \in BOOLEAN, NEW opening \in BOOLEAN,
               page' = [page EXCEPT !.ignoreBackdropClick = ignore, !.opening = opening]
        PROVE  DialogWhole(page')
    <3>1. /\ page'.fade = page.fade /\ page'.backdropOption = page.backdropOption
          /\ page'.keyboard = page.keyboard /\ page'.isShown = page.isShown
          /\ page'.backdrop = page.backdrop /\ page'.dom = page.dom /\ page'.due = page.due
          /\ page'.hiding = page.hiding /\ page'.open = page.open /\ page'.pad = page.pad
          /\ page'.originalBodyPad = page.originalBodyPad /\ page'.keys = page.keys
          /\ page'.clicks = page.clicks /\ page'.display = page.display
          /\ page'.in = page.in /\ page'.trap = page.trap
      BY <2>1, <2>5 DEF DialogStates
    <3>2. QED
      BY <2>1, <3>1 DEF DialogWhole, ShownWhole, HiddenWhole, HidingWhole, Brought, Waiting
  <2>6. /\ page.opening \in BOOLEAN /\ page.ignoreBackdropClick \in BOOLEAN
        /\ page.isShown \in BOOLEAN
        /\ page = [page EXCEPT !.opening = page.opening]
        /\ page = [page EXCEPT !.ignoreBackdropClick = page.ignoreBackdropClick]
    BY <2>1 DEF DialogStates
  <2>7. CASE Dialog!CallShow
    BY <2>4, <2>7 DEF Dialog!CallShow
  <2>8. CASE Dialog!CallHide
    BY <2>3, <2>8 DEF Dialog!CallHide
  <2>9. CASE Dialog!Click
    BY <2>3, <2>4, <2>6, <2>9 DEF Dialog!Click, Dialog!Toggle
  <2>10. CASE Dialog!Keydown
    BY <2>3, <2>10 DEF Dialog!Keydown
  <2>11. ASSUME NEW ignore \in BOOLEAN, page' = [page EXCEPT !.ignoreBackdropClick = ignore]
         PROVE  DialogWhole(page')
    <3>1. page' = [page EXCEPT !.ignoreBackdropClick = ignore, !.opening = page.opening]
      BY <2>1, <2>11 DEF DialogStates
    <3>2. QED
      BY <2>5, <2>6, <3>1
  <2>12. CASE Dialog!DragOut
    BY <2>11, <2>12 DEF Dialog!DragOut
  <2>13. CASE Dialog!ClickBackdrop
    <3>1. \/ page' = [page EXCEPT !.ignoreBackdropClick = FALSE]
          \/ page' = page \/ page' = Dialog!Hide(page)
      BY <2>13 DEF Dialog!ClickBackdrop
    <3>2. QED
      BY <2>1, <2>3, <2>11, <3>1
  <2>14. CASE Dialog!ElementEnd
    BY <1>1, <2>1, <2>14, ElementEndWhole
  <2>15. CASE Dialog!DialogEnd
    <3>1. page' = [page EXCEPT !.ignoreBackdropClick = page.ignoreBackdropClick,
                               !.opening = FALSE]
      BY <2>1, <2>15 DEF DialogStates, Dialog!DialogEnd
    <3>2. QED
      BY <2>5, <2>6, <3>1
  <2>16. CASE \E b \in Backdrops : Dialog!BackdropEnd(b)
    BY <1>1, <2>1, <2>16, BackdropEndWhole
  <2>17. QED
    BY <2>7, <2>8, <2>9, <2>10, <2>12, <2>13, <2>14, <2>15, <2>16 DEF Dialog!Next
<1>3. QED
  BY <1>1, <1>2 DEF DialogInv

LEMMA DialogKept == BrowserSpec => [](part = "modal" => DialogInv(page))
<1>1. BrowserInit => (part = "modal" => DialogInv(page))
  BY PartInit, DialogInit
<1>2. (part = "modal" => DialogInv(page)) /\ [BrowserNext]_browser
         => (part = "modal" => DialogInv(page))'
  BY PartNext, DialogNext
<1>3. QED
  BY <1>1, <1>2, PTL DEF BrowserSpec

(* When the transitions are over, a modal is there with its one backdrop, or it is  *)
(* away and the page as before, unless it was shown again while it was still hiding *)
(* (Modal in bootstrap.js).                                                         *)
THEOREM DialogsStayWhole == BrowserSpec => []ModalWhole
<1>1. (part = "modal" => DialogInv(page)) => ModalWhole
  <2> SUFFICES ASSUME DialogInv(page), ~page.crossed, page.hiding = 0,
                      \A b \in Backdrops : page.due[b] = <<>>
               PROVE  /\ {page.isShown} = {page.display, page.open}
                      /\ page.dom = IF page.isShown /\ page.backdropOption # "none"
                                    THEN {page.backdrop} ELSE {}
                      /\ page.dom = {} <=> page.backdrop = None
                      /\ page.pad = IF page.isShown THEN 1 ELSE 0
                      /\ page.keys = (page.isShown /\ page.keyboard)
                      /\ page.isShown => page.in /\ page.trap /\ page.clicks
    BY DEF ModalWhole, Dialog!ModalWhole, Dialog!AtRest
  <2>1. /\ page.isShown \in BOOLEAN /\ page.display \in BOOLEAN /\ page.open \in BOOLEAN
        /\ page.keys \in BOOLEAN /\ page.keyboard \in BOOLEAN
        /\ page.backdrop \in Backdrops \cup {None}
    BY DEF DialogInv, DialogSafe, DialogStates
  <2>2. Waiting(page) = <<>>
    BY <2>1 DEF Waiting
  <2>3. <<"opened">> # <<>> /\ <<"remove">> # <<>>
    <3>1. \A c : <<c>> # <<>>
      OBVIOUS
    <3>2. QED
      BY <3>1, Zenon
  <2>4. ~HidingWhole(page)
    BY <2>2, <2>3 DEF HidingWhole
  <2>5. ShownWhole(page) \/ HiddenWhole(page)
    BY <2>4 DEF DialogInv, DialogWhole
  <2>6. CASE ShownWhole(page)
    <3>1. /\ page.isShown = TRUE /\ page.display = TRUE /\ page.open = TRUE
          /\ page.keys = page.keyboard /\ page.pad = 1 /\ page.in /\ page.trap /\ page.clicks
      BY <2>1, <2>2, <2>3, <2>6 DEF ShownWhole
    <3>2. IF page.backdropOption = "none" THEN page.backdrop = None /\ page.dom = {}
          ELSE page.backdrop # None /\ page.dom = {page.backdrop}
      BY <2>6, ModalAssumption DEF ShownWhole, Brought
    <3>3. {page.isShown} = {page.display, page.open}
      BY <3>1
    <3>4. page.dom = IF page.isShown /\ page.backdropOption # "none" THEN {page.backdrop} ELSE {}
      BY <3>1, <3>2
    <3>5. page.dom = {} <=> page.backdrop = None
      BY <3>2
    <3>6. page.keys = (page.isShown /\ page.keyboard)
      BY <2>1, <3>1
    <3>7. QED
      BY <3>1, <3>3, <3>4, <3>5, <3>6
  <2>7. CASE HiddenWhole(page)
    <3>1. /\ page.isShown = FALSE /\ page.display = FALSE /\ page.open = FALSE
          /\ page.keys = FALSE /\ page.pad = 0 /\ page.dom = {} /\ page.backdrop = None
      BY <2>1, <2>7 DEF HiddenWhole
    <3>2. {page.isShown} = {page.display, page.open}
      BY <3>1
    <3>3. page.dom = IF page.isShown /\ page.backdropOption # "none" THEN {page.backdrop} ELSE {}
      BY <3>1
    <3>4. QED
      BY <3>1, <3>2, <3>3
  <2>8. QED
    BY <2>5, <2>6, <2>7
<1>2. QED
  BY DialogKept, <1>1, PTL

(***************************************************************************)
(* Tips.                                                                    *)
(***************************************************************************)
TipStates == [
      kind : Tip!Kinds, animation : BOOLEAN, delay : BOOLEAN, title : BOOLEAN, content : BOOLEAN,
      scripted : BOOLEAN, enabled : BOOLEAN, hoverState : {"null", "in", "out"},
      inState : SUBSET {"click", "hover", "focus"}, timeout : {"none", "show", "hide"},
      attached : BOOLEAN, in : BOOLEAN, fade : BOOLEAN, describedby : BOOLEAN,
      due : Seq(Tip!Callbacks), gone : BOOLEAN, hurried : BOOLEAN]

\* What no method changes.
SameTip(t, n) ==
    /\ n.kind = t.kind /\ n.animation = t.animation /\ n.delay = t.delay
    /\ n.title = t.title /\ n.content = t.content /\ n.scripted = t.scripted
    /\ n.enabled = t.enabled /\ n.inState = t.inState /\ n.hurried = t.hurried

(* What the methods do.                                                     *)

LEMMA TipHiddenIs ==
    ASSUME NEW t \in TipStates
    PROVE  LET n == Tip!Hidden(t) IN
           /\ n \in TipStates /\ SameTip(t, n)
           /\ n.hoverState = t.hoverState /\ n.timeout = t.timeout /\ n.in = t.in
           /\ n.fade = t.fade /\ n.due = t.due /\ n.gone = t.gone
           /\ n.attached = (t.attached /\ t.hoverState = "in") /\ n.describedby = FALSE
<1> DEFINE attached == t.attached /\ t.hoverState = "in"
           n == [t EXCEPT !.attached = attached, !.describedby = FALSE]
<1>1. attached \in BOOLEAN
  OBVIOUS
<1>2. Tip!Hidden(t) = n
  BY DEF Tip!Hidden, TipStates
<1>3. attached = (t.attached /\ t.hoverState = "in")
  OBVIOUS
<1> HIDE DEF attached
<1>4. /\ n \in TipStates /\ SameTip(t, n)
      /\ n.hoverState = t.hoverState /\ n.timeout = t.timeout /\ n.in = t.in
      /\ n.fade = t.fade /\ n.due = t.due /\ n.gone = t.gone
      /\ n.attached = attached /\ n.describedby = FALSE
  BY <1>1 DEF TipStates, SameTip
<1>5. QED
  BY <1>2, <1>3, <1>4

LEMMA TipDestroyedIs ==
    ASSUME NEW t \in TipStates
    PROVE  LET n == Tip!Destroyed(t) IN n \in TipStates /\ SameTip(t, n)
<1> DEFINE h == Tip!Hidden(t)
           n == [h EXCEPT !.attached = FALSE, !.gone = TRUE]
<1>1. h \in TipStates /\ SameTip(t, h)
  BY TipHiddenIs
<1>2. Tip!Destroyed(t) = n
  BY DEF Tip!Destroyed
<1> HIDE DEF h
<1>3. n \in TipStates /\ SameTip(h, n)
  BY <1>1 DEF TipStates, SameTip
<1>4. QED
  BY <1>1, <1>2, <1>3 DEF SameTip

\* hide() of a tip that fades leaves the rest to the end of the transition.
LEMMA TipHideIs ==
    ASSUME NEW t \in TipStates, NEW callback \in {"hidden", "destroyed"}
    PROVE  LET n == Tip!Hide(t, callback) IN
           /\ n \in TipStates /\ SameTip(t, n)
           /\ callback = "hidden" =>
              /\ n.in = FALSE /\ n.hoverState = "null" /\ n.timeout = t.timeout
              /\ n.fade = t.fade /\ n.gone = t.gone
              /\ n.due = IF t.fade THEN Append(t.due, "hidden") ELSE t.due
              /\ n.attached = (t.attached /\ (t.fade \/ t.hoverState = "in"))
              /\ n.describedby = (t.describedby /\ t.fade)
<1> DEFINE g == [t EXCEPT !.in = FALSE]
           h == IF t.fade THEN [g EXCEPT !.due = Append(@, callback)]
                ELSE IF callback = "hidden" THEN Tip!Hidden(g) ELSE Tip!Destroyed(g)
           n == [h EXCEPT !.hoverState = "null"]
<1>1. /\ g \in TipStates /\ SameTip(t, g) /\ g.in = FALSE
      /\ g.hoverState = t.hoverState /\ g.timeout = t.timeout
      /\ g.fade = t.fade /\ g.due = t.due /\ g.gone = t.gone
      /\ g.attached = t.attached /\ g.describedby = t.describedby
  BY DEF TipStates, SameTip
<1>2. Tip!Hide(t, callback) = n
  BY DEF Tip!Hide
<1> HIDE DEF g
<1>3. /\ h \in TipStates /\ SameTip(g, h)
      /\ callback = "hidden" =>
         /\ h.in = FALSE /\ h.timeout = g.timeout /\ h.fade = g.fade /\ h.gone = g.gone
         /\ h.due = IF t.fade THEN Append(g.due, "hidden") ELSE g.due
         /\ h.attached = (g.attached /\ (t.fade \/ g.hoverState = "in"))
         /\ h.describedby = (g.describedby /\ t.fade)
  <2>1. CASE t.fade
    <3> DEFINE due == Append(g.due, callback)
    <3>1. due \in Seq(Tip!Callbacks)
      BY <1>1, AppendIn DEF TipStates, Tip!Callbacks
    <3>2. h = [g EXCEPT !.due = due]
      BY <2>1, <1>1 DEF TipStates
    <3>3. callback = "hidden" => due = Append(g.due, "hidden")
      OBVIOUS
    <3> HIDE DEF due, h
    <3>4. /\ h \in TipStates /\ SameTip(g, h)
          /\ h.in = g.in /\ h.timeout = g.timeout /\ h.fade = g.fade /\ h.gone = g.gone
          /\ h.due = due /\ h.attached = g.attached /\ h.describedby = g.describedby
      BY <1>1, <3>1, <3>2 DEF TipStates, SameTip
    <3>5. h.attached = (g.attached /\ (t.fade \/ g.hoverState = "in"))
      BY <1>1, <2>1, <3>4 DEF TipStates
    <3>6. h.describedby = (g.describedby /\ t.fade)
      BY <1>1, <2>1, <3>4 DEF TipStates
    <3>7. QED
      BY <1>1, <2>1, <3>3, <3>4, <3>5, <3>6
  <2>2. CASE ~t.fade /\ callback = "hidden"
    <3>1. h = Tip!Hidden(g)
      BY <2>2
    <3> HIDE DEF h
    <3>2. /\ h \in TipStates /\ SameTip(g, h)
          /\ h.in = g.in /\ h.timeout = g.timeout /\ h.fade = g.fade /\ h.gone = g.gone
          /\ h.due = g.due /\ h.attached = (g.attached /\ g.hoverState = "in")
          /\ h.describedby = FALSE
      BY <1>1, <3>1, TipHiddenIs
    <3>3. h.attached = (g.attached /\ (t.fade \/ g.hoverState = "in"))
      BY <2>2, <3>2
    <3>4. h.describedby = (g.describedby /\ t.fade)
      BY <2>2, <3>2
    <3>5. QED
      BY <1>1, <2>2, <3>2, <3>3, <3>4
  <2>3. CASE ~t.fade /\ callback # "hidden"
    BY <1>1, <2>3, TipDestroyedIs
  <2>4. QED
    BY <2>1, <2>2, <2>3
<1> HIDE DEF h
<1>4. /\ n \in TipStates /\ SameTip(h, n) /\ n.hoverState = "null"
      /\ n.in = h.in /\ n.timeout = h.timeout /\ n.fade = h.fade /\ n.gone = h.gone
      /\ n.due = h.due /\ n.attached = h.attached /\ n.describedby = h.describedby
  BY <1>3 DEF TipStates, SameTip
<1> HIDE DEF n
<1>5. SameTip(t, n)
  BY <1>1, <1>3, <1>4 DEF SameTip
<1>6. QED
  BY <1>1, <1>2, <1>3, <1>4, <1>5

\* What the two states have in common, but for hoverState and the timer.
SameLook(t, n) ==
    /\ n.attached = t.attached /\ n.in = t.in /\ n.fade = t.fade
    /\ n.describedby = t.describedby /\ n.due = t.due /\ n.gone = t.gone

LEMMA LeaveIs ==
    ASSUME NEW t \in TipStates
    PROVE  LET n == Tip!Leave(t) IN
           /\ n \in TipStates /\ SameTip(t, n)
           /\ t.inState # {} => n = t
           /\ t.inState = {} /\ t.delay =>
              n.hoverState = "out" /\ n.timeout = "hide" /\ SameLook(t, n)
           /\ t.inState = {} /\ ~t.delay =>
              /\ n.in = FALSE /\ n.hoverState = "null" /\ n.timeout = "none"
              /\ n.fade = t.fade /\ n.gone = t.gone
              /\ n.due = IF t.fade THEN Append(t.due, "hidden") ELSE t.due
              /\ n.attached = (t.attached /\ t.fade) /\ n.describedby = (t.describedby /\ t.fade)
<1> DEFINE g == [t EXCEPT !.hoverState = "out"]
           d == [g EXCEPT !.timeout = "hide"]
           e == [g EXCEPT !.timeout = "none"]
           h == Tip!Hide(e, "hidden")
<1>1. Tip!Leave(t) = IF t.inState # {} THEN t ELSE IF t.delay THEN d ELSE h
  BY DEF Tip!Leave, TipStates
<1>2. /\ g \in TipStates /\ SameTip(t, g) /\ SameLook(t, g) /\ g.hoverState = "out"
      /\ g.timeout = t.timeout
  BY DEF TipStates, SameTip, SameLook
<1> HIDE DEF g
<1>3. /\ d \in TipStates /\ SameTip(g, d) /\ SameLook(g, d) /\ d.hoverState = "out"
      /\ d.timeout = "hide"
  BY <1>2 DEF TipStates, SameTip, SameLook
<1>4. /\ e \in TipStates /\ SameTip(g, e) /\ SameLook(g, e) /\ e.hoverState = "out"
      /\ e.timeout = "none"
  BY <1>2 DEF TipStates, SameTip, SameLook
<1> HIDE DEF d, e
<1>5. /\ h \in TipStates /\ SameTip(e, h)
      /\ h.in = FALSE /\ h.hoverState = "null" /\ h.timeout = e.timeout
      /\ h.fade = e.fade /\ h.gone = e.gone
      /\ h.due = IF e.fade THEN Append(e.due, "hidden") ELSE e.due
      /\ h.attached = (e.attached /\ (e.fade \/ e.hoverState = "in"))
      /\ h.describedby = (e.describedby /\ e.fade)
  BY <1>4, TipHideIs
<1> HIDE DEF h
<1>6. SameTip(t, t) /\ SameTip(t, d) /\ SameTip(t, h) /\ SameLook(t, d)
  BY <1>2, <1>3, <1>4, <1>5 DEF SameTip, SameLook
<1>7. h.attached = (e.attached /\ e.fade)
  BY <1>4, <1>5
<1>8. /\ h.fade = t.fade /\ h.gone = t.gone
      /\ h.due = IF t.fade THEN Append(t.due, "hidden") ELSE t.due
      /\ h.attached = (t.attached /\ t.fade) /\ h.describedby = (t.describedby /\ t.fade)
  BY <1>2, <1>4, <1>5, <1>7 DEF SameLook
<1>9. QED
  BY <1>1, <1>3, <1>4, <1>5, <1>6, <1>8

\* The end of show() catches up with a leave() that came before it.
LEMMA ShownIs ==
    ASSUME NEW t \in TipStates
    PROVE  LET n == Tip!Shown(t) IN
           /\ n \in TipStates /\ SameTip(t, n)
           /\ t.hoverState # "out" =>
              n.hoverState = "null" /\ n.timeout = t.timeout /\ SameLook(t, n)
           /\ t.hoverState = "out" /\ t.inState = {} /\ t.delay =>
              n.hoverState = "out" /\ n.timeout = "hide" /\ SameLook(t, n)
<1> DEFINE g == [t EXCEPT !.hoverState = "null"]
           h == Tip!Leave(g)
<1>1. Tip!Shown(t) = IF t.hoverState = "out" THEN h ELSE g
  BY DEF Tip!Shown
<1>2. /\ g \in TipStates /\ SameTip(t, g) /\ SameLook(t, g) /\ g.hoverState = "null"
      /\ g.timeout = t.timeout
  BY DEF TipStates, SameTip, SameLook
<1> HIDE DEF g
<1>3. /\ h \in TipStates /\ SameTip(g, h)
      /\ g.inState = {} /\ g.delay =>
         h.hoverState = "out" /\ h.timeout = "hide" /\ SameLook(g, h)
  BY <1>2, LeaveIs
<1> HIDE DEF h
<1>4. SameTip(t, h)
  BY <1>2, <1>3 DEF SameTip
<1>5. t.inState = {} /\ t.delay => h.hoverState = "out" /\ h.timeout = "hide" /\ SameLook(t, h)
  BY <1>2, <1>3 DEF SameTip, SameLook
<1>6. QED
  BY <1>1, <1>2, <1>3, <1>4, <1>5

LEMMA TipShowIs ==
    ASSUME NEW t \in TipStates
    PROVE  LET n == Tip!Show(t) IN
           /\ n \in TipStates /\ SameTip(t, n)
           /\ Tip!HasContent(t) /\ t.enabled =>
              /\ t.animation =>
                 /\ n.hoverState = t.hoverState /\ n.timeout = t.timeout /\ n.gone = t.gone
                 /\ n.attached /\ n.in /\ n.fade /\ n.due = Append(t.due, "shown")
              /\ ~t.animation /\ t.hoverState = "in" =>
                 /\ n.hoverState = "null" /\ n.timeout = t.timeout /\ n.gone = t.gone
                 /\ n.attached /\ n.in /\ ~n.fade /\ n.due = t.due
<1> DEFINE animation == t.animation
           g == [t EXCEPT !.describedby = TRUE, !.attached = TRUE, !.in = TRUE,
                          !.fade = animation]
           due == Append(g.due, "shown")
           a == [g EXCEPT !.due = due]
           b == Tip!Shown(g)
<1>1. animation \in BOOLEAN /\ animation = t.animation
  BY DEF TipStates
<1>2. g = [t EXCEPT !.describedby = TRUE, !.attached = TRUE, !.in = TRUE, !.fade = t.animation]
  OBVIOUS
<1>3. Tip!Show(t) = IF ~Tip!HasContent(t) \/ ~t.enabled THEN t
                    ELSE IF t.animation THEN [g EXCEPT !.due = Append(@, "shown")] ELSE b
  BY <1>2 DEF Tip!Show
<1> HIDE DEF animation
<1>4. /\ g \in TipStates /\ SameTip(t, g) /\ g.hoverState = t.hoverState
      /\ g.timeout = t.timeout /\ g.gone = t.gone /\ g.due = t.due
      /\ g.attached /\ g.in /\ g.fade = t.animation
  BY <1>1 DEF TipStates, SameTip
<1> HIDE DEF g
<1>5. due \in Seq(Tip!Callbacks) /\ due = Append(t.due, "shown")
  BY <1>4, AppendIn DEF TipStates, Tip!Callbacks
<1>6. a = [g EXCEPT !.due = Append(@, "shown")]
  BY <1>4 DEF TipStates
<1> HIDE DEF due
<1>7. /\ a \in TipStates /\ SameTip(g, a) /\ a.hoverState = g.hoverState
      /\ a.timeout = g.timeout /\ a.gone = g.gone /\ a.due = due
      /\ a.attached = g.attached /\ a.in = g.in /\ a.fade = g.fade
  BY <1>4, <1>5 DEF TipStates, SameTip
<1>8. /\ b \in TipStates /\ SameTip(g, b)
      /\ g.hoverState # "out" =>
         b.hoverState = "null" /\ b.timeout = g.timeout /\ SameLook(g, b)
  BY <1>4, ShownIs
<1> HIDE DEF a, b
<1>9. SameTip(t, t) /\ SameTip(t, a) /\ SameTip(t, b)
  BY <1>4, <1>7, <1>8 DEF SameTip
<1>10. t.hoverState = "in" /\ ~t.animation =>
         /\ b.hoverState = "null" /\ b.timeout = t.timeout /\ b.gone = t.gone
         /\ b.attached /\ b.in /\ ~b.fade /\ b.due = t.due
  BY <1>4, <1>8 DEF SameLook
<1>11. QED
  BY <1>3, <1>4, <1>5, <1>6, <1>7, <1>8, <1>9, <1>10

LEMMA EnterIs ==
    ASSUME NEW t \in TipStates
    PROVE  LET n == Tip!Enter(t) IN
           /\ n \in TipStates /\ SameTip(t, n)
           /\ t.in \/ t.hoverState = "in" =>
              n.hoverState = "in" /\ n.timeout = t.timeout /\ SameLook(t, n)
           /\ ~t.in /\ t.hoverState # "in" /\ t.delay =>
              n.hoverState = "in" /\ n.timeout = "show" /\ SameLook(t, n)
           /\ ~t.in /\ t.hoverState # "in" /\ ~t.delay /\ Tip!HasContent(t) /\ t.enabled =>
              /\ n.timeout = "none" /\ n.gone = t.gone /\ n.attached /\ n.in
              /\ n.fade = t.animation
              /\ n.hoverState = IF t.animation THEN "in" ELSE "null"
              /\ n.due = IF t.animation THEN Append(t.due, "shown") ELSE t.due
<1> DEFINE g == [t EXCEPT !.hoverState = "in"]
           d == [g EXCEPT !.timeout = "show"]
           e == [g EXCEPT !.timeout = "none"]
           h == Tip!Show(e)
<1>1. Tip!Enter(t) = IF t.in \/ t.hoverState = "in" THEN g ELSE IF t.delay THEN d ELSE h
  BY DEF Tip!Enter, TipStates
<1>2. /\ g \in TipStates /\ SameTip(t, g) /\ SameLook(t, g) /\ g.hoverState = "in"
      /\ g.timeout = t.timeout
  BY DEF TipStates, SameTip, SameLook
<1> HIDE DEF g
<1>3. /\ d \in TipStates /\ SameTip(g, d) /\ SameLook(g, d) /\ d.hoverState = "in"
      /\ d.timeout = "show"
  BY <1>2 DEF TipStates, SameTip, SameLook
<1>4. /\ e \in TipStates /\ SameTip(g, e) /\ SameLook(g, e) /\ e.hoverState = "in"
      /\ e.timeout = "none"
  BY <1>2 DEF TipStates, SameTip, SameLook
<1> HIDE DEF d, e
<1>5. /\ h \in TipStates /\ SameTip(e, h)
      /\ Tip!HasContent(e) /\ e.enabled =>
         /\ e.animation =>
            /\ h.hoverState = e.hoverState /\ h.timeout = e.timeout /\ h.gone = e.gone
            /\ h.attached /\ h.in /\ h.fade /\ h.due = Append(e.due, "shown")
         /\ ~e.animation /\ e.hoverState = "in" =>
            /\ h.hoverState = "null" /\ h.timeout = e.timeout /\ h.gone = e.gone
            /\ h.attached /\ h.in /\ ~h.fade /\ h.due = e.due
  BY <1>4, TipShowIs
<1> HIDE DEF h
<1>6. /\ SameTip(t, d) /\ SameTip(t, h) /\ SameTip(t, e) /\ SameLook(t, d)
      /\ e.due = t.due /\ e.gone = t.gone
      /\ Tip!HasContent(e) = Tip!HasContent(t)
  BY <1>2, <1>3, <1>4, <1>5 DEF SameTip, SameLook, Tip!HasContent
<1>7. /\ e.enabled = t.enabled /\ e.animation = t.animation
      /\ t.animation \in BOOLEAN /\ h.fade \in BOOLEAN
  BY <1>5, <1>6 DEF SameTip, TipStates
<1>8. ASSUME Tip!HasContent(t), t.enabled
      PROVE  /\ h.timeout = "none" /\ h.gone = t.gone /\ h.attached /\ h.in
             /\ h.fade = t.animation
             /\ h.hoverState = IF t.animation THEN "in" ELSE "null"
             /\ h.due = IF t.animation THEN Append(t.due, "shown") ELSE t.due
  BY <1>4, <1>5, <1>6, <1>7, <1>8
<1>9. QED
  BY <1>1, <1>2, <1>3, <1>5, <1>6, <1>8

(* Tips that only pointer, focus and clicks call for.                       *)

Asked(t) == t.inState # {}

\* Callbacks of hide() only.
Ending(due) == \A i \in DOMAIN due : due[i] = "hidden"

\* The timer, hoverState and the classes agree, whatever asks for the tip.
TipSound(t) ==
    /\ ~t.gone
    /\ t.hoverState = "out" => t.timeout = "hide"
    /\ t.hoverState = "in" => t.in \/ t.timeout = "show"
    /\ t.timeout = "show" => t.hoverState = "in" /\ ~t.in
    /\ t.timeout = "hide" => t.hoverState = "out" \/ t.in
    /\ t.timeout # "none" => t.delay
    /\ t.in => t.attached
    /\ t.describedby => t.attached
    /\ t.attached => t.fade = t.animation
    /\ t.fade => t.animation
    /\ ~t.animation => t.due = <<>>

\* What is asked for is there, or its timer runs; what is not is away, or hide() is
\* to come.
Called(t) ==
    /\ TipSound(t)
    /\ t.hoverState = "in" => Asked(t)
    /\ t.hoverState = "out" => ~Asked(t)
    /\ t.in => Asked(t) \/ t.hoverState = "out"
    /\ Asked(t) => t.in \/ t.timeout = "show"

\* A tip that fades out is taken by a callback or by what its timer will do.
Awaited(t) == t.attached /\ ~t.in => t.due # <<>> \/ t.timeout # "none"

\* The callbacks of one transition: of show(), or of hide()s.
TipCalm(t) ==
    \/ ~t.in /\ Ending(t.due)
    \/ t.in /\ t.due = <<>>
    \/ t.in /\ t.due = <<"shown">>

\* show() while hide()s end: hoverState keeps the tip.
Rescued(t) ==
    /\ t.in /\ t.hoverState = "in" /\ t.timeout = "none"
    /\ \E q \in Seq(Tip!Callbacks) : t.due = Append(q, "shown") /\ Ending(q)

\* hide() while a show() ends: the end of hide() takes the tip.
Dismissed(t) ==
    /\ ~t.in /\ ~Asked(t) /\ t.hoverState = "null" /\ t.timeout = "none"
    /\ t.due = <<"shown", "hidden">>

TipWhole(t) == Called(t) /\ Awaited(t) /\ (TipCalm(t) \/ Rescued(t) \/ Dismissed(t))

TipInv(t) ==
    /\ t \in TipStates
    /\ ~t.scripted => t.enabled /\ (Tip!HasContent(t) /\ ~t.hurried => TipWhole(t))

LEMMA EnterWhole ==
    ASSUME NEW t \in TipStates, t.enabled, Tip!HasContent(t), TipSound(t), Awaited(t), TipCalm(t),
           Asked(t)
    PROVE  TipWhole(Tip!Enter(t))
<1> DEFINE n == Tip!Enter(t)
<1>1. /\ n \in TipStates /\ SameTip(t, n)
      /\ t.in \/ t.hoverState = "in" =>
         n.hoverState = "in" /\ n.timeout = t.timeout /\ SameLook(t, n)
      /\ ~t.in /\ t.hoverState # "in" /\ t.delay =>
         n.hoverState = "in" /\ n.timeout = "show" /\ SameLook(t, n)
      /\ ~t.in /\ t.hoverState # "in" /\ ~t.delay =>
         /\ n.timeout = "none" /\ n.gone = t.gone /\ n.attached /\ n.in
         /\ n.fade = t.animation
         /\ n.hoverState = IF t.animation THEN "in" ELSE "null"
         /\ n.due = IF t.animation THEN Append(t.due, "shown") ELSE t.due
  BY EnterIs
<1> HIDE DEF n
<1> SUFFICES TipWhole(n)
  BY DEF n
<1>2. /\ n.animation = t.animation /\ n.delay = t.delay /\ n.inState = t.inState /\ Asked(n)
      /\ t.animation \in BOOLEAN /\ t.fade \in BOOLEAN
  BY <1>1 DEF SameTip, Asked, TipStates
<1>3. CASE t.in \/ t.hoverState = "in"
  <2>1. n.hoverState = "in" /\ n.timeout = t.timeout /\ SameLook(t, n)
    BY <1>1, <1>3
  <2>2. TipSound(n) /\ Called(n)
    BY <1>2, <1>3, <2>1 DEF TipSound, Called, SameLook
  <2>3. Awaited(n) /\ TipCalm(n)
    BY <2>1 DEF Awaited, TipCalm, SameLook
  <2>4. QED
    BY <2>2, <2>3 DEF TipWhole
<1>4. CASE ~t.in /\ t.hoverState # "in" /\ t.delay
  <2>1. n.hoverState = "in" /\ n.timeout = "show" /\ SameLook(t, n)
    BY <1>1, <1>4
  <2>2. TipSound(n) /\ Called(n)
    BY <1>2, <1>4, <2>1 DEF TipSound, Called, SameLook
  <2>3. Awaited(n) /\ TipCalm(n)
    BY <2>1 DEF Awaited, TipCalm, SameLook
  <2>4. QED
    BY <2>2, <2>3 DEF TipWhole
<1>5. CASE ~t.in /\ t.hoverState # "in" /\ ~t.delay
  <2>1. /\ n.timeout = "none" /\ n.gone = t.gone /\ n.attached /\ n.in
        /\ n.fade = t.animation
        /\ n.hoverState = IF t.animation THEN "in" ELSE "null"
        /\ n.due = IF t.animation THEN Append(t.due, "shown") ELSE t.due
    BY <1>1, <1>5
  <2>2. TipSound(n) /\ Called(n) /\ Awaited(n)
    BY <1>2, <2>1 DEF TipSound, Called, Awaited
  <2>3. Ending(t.due) /\ t.due \in Seq(Tip!Callbacks)
    BY <1>5 DEF TipCalm, TipStates
  <2>4. CASE t.animation
    BY <2>1, <2>2, <2>3, <2>4 DEF Rescued, TipWhole
  <2>5. CASE ~t.animation
    <3>1. n.due = <<>>
      BY <2>1, <2>5 DEF TipSound
    <3>2. QED
      BY <2>1, <2>2, <3>1 DEF TipCalm, TipWhole
  <2>6. QED
    BY <2>4, <2>5
<1>6. QED
  BY <1>3, <1>4, <1>5

LEMMA AppendTwo ==
    ASSUME NEW a, NEW b
    PROVE  Append(<<a>>, b) = <<a, b>>
<1>1. /\ <<a>> \in Seq({a, b}) /\ Len(<<a>>) = 1 /\ <<a>>[1] = a
      /\ <<a, b>> \in Seq({a, b}) /\ Len(<<a, b>>) = 2 /\ <<a, b>>[1] = a /\ <<a, b>>[2] = b
  OBVIOUS
<1>2. /\ Append(<<a>>, b) \in Seq({a, b}) /\ Len(Append(<<a>>, b)) = 2
      /\ Append(<<a>>, b)[1] = a /\ Append(<<a>>, b)[2] = b
  BY <1>1
<1>3. QED
  BY <1>1, <1>2, \A i \in 1 .. 2 : i = 1 \/ i = 2, SeqEqual

\* hide() of a tip that no show() and hide() fight over.
LEMMA GoneWhole ==
    ASSUME NEW t \in TipStates, NEW n \in TipStates, TipSound(t), TipCalm(t), ~Asked(t),
           SameTip(t, n),
           n.in = FALSE, n.hoverState = "null", n.timeout = "none",
           n.fade = t.fade, n.gone = t.gone,
           n.due = IF t.fade THEN Append(t.due, "hidden") ELSE t.due,
           n.attached = (t.attached /\ t.fade), n.describedby = (t.describedby /\ t.fade)
    PROVE  TipWhole(n)
<1>1. /\ n.animation = t.animation /\ n.delay = t.delay /\ n.inState = t.inState /\ ~Asked(n)
  BY DEF SameTip, Asked
<1>2. t.due \in Seq(Tip!Callbacks)
  BY DEF TipStates
<1>3. TipSound(n)
  BY <1>1 DEF TipSound
<1>4. Called(n)
  BY <1>1, <1>3 DEF Called
<1>5. Awaited(n)
  <2>1. Append(t.due, "hidden") # <<>>
    BY <1>2
  <2>2. QED
    BY <2>1 DEF Awaited
<1>6. CASE ~t.fade
  <2>1. ~t.in \/ t.due = <<>>
    BY <1>6 DEF TipSound
  <2>2. \A i \in DOMAIN <<>> : FALSE
    OBVIOUS
  <2>3. Ending(t.due)
    BY <2>1, <2>2 DEF TipCalm, Ending
  <2>4. QED
    BY <1>4, <1>5, <1>6, <2>3 DEF TipWhole, TipCalm
<1>7. CASE t.fade /\ t.due = <<"shown">>
  <2>1. n.due = <<"shown", "hidden">>
    BY <1>7, AppendTwo
  <2>2. Dismissed(n)
    BY <1>1, <2>1 DEF Dismissed
  <2>3. QED
    BY <1>4, <1>5, <2>2 DEF TipWhole
<1>8. CASE t.fade /\ t.due # <<"shown">>
  <2>1. \A i \in DOMAIN <<>> : FALSE
    OBVIOUS
  <2>2. Ending(t.due)
    BY <1>8, <2>1 DEF TipCalm, Ending
  <2>3. Ending(Append(t.due, "hidden"))
    BY <1>2, <2>2 DEF Ending
  <2>4. QED
    BY <1>4, <1>5, <1>8, <2>3 DEF TipWhole, TipCalm
<1>9. QED
  BY <1>6, <1>7, <1>8

LEMMA LeaveWhole ==
    ASSUME NEW t \in TipStates, TipSound(t), Awaited(t), TipCalm(t), ~Asked(t)
    PROVE  TipWhole(Tip!Leave(t))
<1> DEFINE n == Tip!Leave(t)
<1>1. /\ n \in TipStates /\ SameTip(t, n)
      /\ t.delay => n.hoverState = "out" /\ n.timeout = "hide" /\ SameLook(t, n)
      /\ ~t.delay =>
         /\ n.in = FALSE /\ n.hoverState = "null" /\ n.timeout = "none"
         /\ n.fade = t.fade /\ n.gone = t.gone
         /\ n.due = IF t.fade THEN Append(t.due, "hidden") ELSE t.due
         /\ n.attached = (t.attached /\ t.fade) /\ n.describedby = (t.describedby /\ t.fade)
  BY LeaveIs DEF Asked
<1> HIDE DEF n
<1>2. n.animation = t.animation /\ n.delay = t.delay /\ ~Asked(n)
  BY <1>1 DEF SameTip, Asked
<1>3. CASE t.delay
  <2>1. n.hoverState = "out" /\ n.timeout = "hide" /\ SameLook(t, n)
    BY <1>1, <1>3
  <2>2. TipSound(n) /\ Called(n)
    BY <1>2, <1>3, <2>1 DEF TipSound, Called, SameLook
  <2>3. Awaited(n) /\ TipCalm(n)
    BY <2>1 DEF Awaited, TipCalm, SameLook
  <2>4. QED
    BY <2>2, <2>3 DEF TipWhole, n
<1>4. CASE ~t.delay
  <2>1. TipWhole(n)
    BY <1>1, <1>4, GoneWhole
  <2>2. QED
    BY <2>1 DEF n
<1>5. QED
  BY <1>3, <1>4

LEMMA TipCallIs ==
    ASSUME NEW t \in TipStates, NEW callback \in Tip!Callbacks
    PROVE  LET n == Tip!Call(t, callback) IN
           /\ n \in TipStates /\ SameTip(t, n)
           /\ ~t.gone /\ callback = "shown" => n = Tip!Shown(t)
           /\ ~t.gone /\ callback = "hidden" => n = Tip!Hidden(t)
<1>1. callback \in {"shown", "hidden", "destroyed"}
  BY DEF Tip!Callbacks
<1>2. Tip!Call(t, callback) =
        IF t.gone THEN t
        ELSE CASE callback = "shown" -> Tip!Shown(t)
               [] callback = "hidden" -> Tip!Hidden(t)
               [] callback = "destroyed" -> Tip!Destroyed(t)
  BY DEF Tip!Call
<1>3. SameTip(t, t)
  BY DEF SameTip
<1>4. QED
  BY <1>1, <1>2, <1>3, ShownIs, TipHiddenIs, TipDestroyedIs

\* The end of hide() leaves a tip that is not there, and one that is called for.
LEMMA HiddenCalled ==
    ASSUME NEW t \in TipStates, Called(t), ~t.in \/ t.hoverState = "in"
    PROVE  Called(Tip!Hidden(t))
<1> DEFINE n == Tip!Hidden(t)
<1>1. /\ n \in TipStates /\ SameTip(t, n)
      /\ n.hoverState = t.hoverState /\ n.timeout = t.timeout /\ n.in = t.in
      /\ n.fade = t.fade /\ n.due = t.due /\ n.gone = t.gone
      /\ n.attached = (t.attached /\ t.hoverState = "in") /\ n.describedby = FALSE
  BY TipHiddenIs
<1> HIDE DEF n
<1>2. n.animation = t.animation /\ n.delay = t.delay /\ (Asked(n) <=> Asked(t))
  BY <1>1 DEF SameTip, Asked
<1>3. Called(n)
  BY <1>1, <1>2 DEF Called, TipSound
<1>4. QED
  BY <1>3 DEF n

\* The end of show() leaves a tip as it is.
LEMMA ShownCalled ==
    ASSUME NEW t \in TipStates, Called(t), t.in \/ t.hoverState = "null"
    PROVE  LET n == Tip!Shown(t) IN
           Called(n) /\ SameLook(t, n) /\ (t.hoverState = "null" => n.hoverState = "null"
                                                                  /\ n.timeout = t.timeout)
<1> DEFINE n == Tip!Shown(t)
<1>1. /\ n \in TipStates /\ SameTip(t, n)
      /\ t.hoverState # "out" =>
         n.hoverState = "null" /\ n.timeout = t.timeout /\ SameLook(t, n)
      /\ t.hoverState = "out" /\ t.inState = {} /\ t.delay =>
         n.hoverState = "out" /\ n.timeout = "hide" /\ SameLook(t, n)
  BY ShownIs
<1> HIDE DEF n
<1>2. n.animation = t.animation /\ n.delay = t.delay /\ (Asked(n) <=> Asked(t))
  BY <1>1 DEF SameTip, Asked
<1>3. CASE t.hoverState = "out"
  <2>1. t.inState = {} /\ t.delay /\ t.timeout = "hide"
    BY <1>3 DEF Called, TipSound, Asked
  <2>2. n.hoverState = "out" /\ n.timeout = "hide" /\ SameLook(t, n)
    BY <1>1, <1>3, <2>1
  <2>3. Called(n)
    BY <1>2, <1>3, <2>1, <2>2 DEF Called, TipSound, SameLook
  <2>4. QED
    BY <1>3, <2>2, <2>3 DEF n
<1>4. CASE t.hoverState # "out"
  <2>1. n.hoverState = "null" /\ n.timeout = t.timeout /\ SameLook(t, n)
    BY <1>1, <1>4
  <2>2. Called(n)
    BY <1>2, <1>4, <2>1 DEF Called, TipSound, SameLook
  <2>3. QED
    BY <1>4, <2>1, <2>2 DEF n
<1>5. QED
  BY <1>3, <1>4

\* The ends of hide() take the tip, unless its timer will show it.
LEMMA EndsTake ==
    ASSUME NEW s \in TipStates, Called(s), ~s.in, s.due = <<>>,
           NEW list \in Seq(Tip!Callbacks), list # <<>>,
           \A i \in DOMAIN list : \/ list[i] = "hidden"
                                  \/ list[i] = "shown" /\ s.hoverState = "null",
           list[Len(list)] = "hidden"
    PROVE  TipWhole(Tip!Ends!Fire(s, list))
<1> DEFINE I == {x \in TipStates : /\ Called(x) /\ ~x.in /\ x.due = <<>>
                                   /\ x.hoverState = s.hoverState}
           J == {x \in I : x.attached => x.hoverState = "in"}
           m == Tip!Ends!Fire(s, list)
<1>1. s \in I
  OBVIOUS
<1>2. ASSUME NEW x \in I, NEW i \in 1 .. Len(list)
      PROVE  Tip!Call(x, list[i]) \in I
  <2>1. i \in DOMAIN list /\ list[i] \in Tip!Callbacks
    OBVIOUS
  <2>2. ~x.gone
    BY DEF Called, TipSound
  <2>3. CASE list[i] = "hidden"
    <3>1. Tip!Call(x, list[i]) = Tip!Hidden(x)
      BY <2>1, <2>2, <2>3, TipCallIs
    <3>2. Called(Tip!Hidden(x))
      BY HiddenCalled
    <3>3. /\ Tip!Hidden(x) \in TipStates /\ ~Tip!Hidden(x).in /\ Tip!Hidden(x).due = <<>>
          /\ Tip!Hidden(x).hoverState = s.hoverState
      BY TipHiddenIs
    <3>4. QED
      BY <3>1, <3>2, <3>3
  <2>4. CASE list[i] = "shown" /\ s.hoverState = "null"
    <3>1. Tip!Call(x, list[i]) = Tip!Shown(x)
      BY <2>1, <2>2, <2>4, TipCallIs
    <3>2. /\ Called(Tip!Shown(x)) /\ SameLook(x, Tip!Shown(x))
          /\ Tip!Shown(x).hoverState = "null" /\ Tip!Shown(x) \in TipStates
      BY <2>4, ShownCalled, ShownIs
    <3>3. QED
      BY <2>4, <3>1, <3>2 DEF SameLook
  <2>5. QED
    BY <2>1, <2>3, <2>4
<1>3. ASSUME NEW x \in I
      PROVE  Tip!Call(x, list[Len(list)]) \in J
  <2>1. ~x.gone
    BY DEF Called, TipSound
  <2>2. Len(list) \in 1 .. Len(list) /\ list[Len(list)] \in Tip!Callbacks
    OBVIOUS
  <2>3. Tip!Call(x, list[Len(list)]) = Tip!Hidden(x)
    BY <2>1, <2>2, TipCallIs
  <2>4. Tip!Call(x, list[Len(list)]) \in I
    BY <1>2, <2>2
  <2>5. Tip!Hidden(x).attached => Tip!Hidden(x).hoverState = "in"
    BY TipHiddenIs
  <2>6. QED
    BY <2>3, <2>4, <2>5
<1>4. Len(list) \in Nat \ {0}
  OBVIOUS
<1> HIDE DEF I
<1>5. m \in J
  <2> HIDE DEF J
  <2>1. QED
    BY <1>1, <1>2, <1>3, <1>4, Tip!Ends!FireLast
<1> HIDE DEF m
<1>6. Called(m) /\ ~m.in /\ m.due = <<>> /\ (m.attached => m.hoverState = "in")
  BY <1>5 DEF I
<1>7. Awaited(m)
  BY <1>6 DEF Awaited, Called, TipSound
<1>8. Ending(m.due)
  BY <1>6 DEF Ending
<1>9. QED
  BY <1>6, <1>7, <1>8 DEF TipWhole, TipCalm, m

\* The ends of hide() leave the tip that is called for, and show() comes last.
LEMMA EndsLeave ==
    ASSUME NEW s \in TipStates, Called(s), s.in, s.due = <<>>,
           NEW q \in Seq(Tip!Callbacks), Ending(q),
           q # <<>> => s.hoverState = "in"
    PROVE  TipWhole(Tip!Ends!Fire(s, Append(q, "shown")))
<1> DEFINE list == Append(q, "shown")
           I == {x \in TipStates : /\ Called(x) /\ x.in /\ x.due = <<>>
                                   /\ q # <<>> => x.hoverState = "in"}
           J == {x \in TipStates : Called(x) /\ x.in /\ x.due = <<>>}
           F == [i \in 0 .. Len(list) |-> IF i < Len(list) THEN I ELSE J]
           m == Tip!Ends!Fire(s, list)
<1>1. /\ Len(list) = Len(q) + 1 /\ Len(q) \in Nat /\ list[Len(q) + 1] = "shown"
      /\ \A i \in 1 .. Len(q) : list[i] = "hidden"
  BY DEF Ending
<1> HIDE DEF list
<1>2. /\ F[0] = I /\ F[Len(list)] = J
      /\ \A i \in 0 .. Len(q) : F[i] = I
  BY <1>1
<1> HIDE DEF F
<1>3. s \in F[0]
  BY <1>2
<1>4. ASSUME NEW i \in 1 .. Len(list), NEW x \in F[i - 1]
      PROVE  Tip!Call(x, list[i]) \in F[i]
  <2>1. x \in I /\ x \in TipStates /\ ~x.gone
    BY <1>1, <1>2 DEF Called, TipSound
  <2>2. CASE i = Len(list)
    <3>1. Tip!Call(x, list[i]) = Tip!Shown(x)
      BY <1>1, <2>1, <2>2, TipCallIs DEF Tip!Callbacks
    <3>2. Called(Tip!Shown(x)) /\ SameLook(x, Tip!Shown(x)) /\ Tip!Shown(x) \in TipStates
      BY <2>1, ShownCalled, ShownIs
    <3>3. Tip!Shown(x) \in J
      BY <2>1, <3>2 DEF SameLook
    <3>4. QED
      BY <1>2, <2>2, <3>1, <3>3
  <2>3. CASE i # Len(list)
    <3>1. i \in 1 .. Len(q) /\ list[i] = "hidden" /\ q # <<>>
      BY <1>1, <2>3
    <3>2. Tip!Call(x, list[i]) = Tip!Hidden(x)
      BY <2>1, <3>1, TipCallIs DEF Tip!Callbacks
    <3>3. Called(Tip!Hidden(x))
      BY <2>1, <3>1, HiddenCalled
    <3>4. Tip!Hidden(x) \in I
      BY <2>1, <3>3, TipHiddenIs
    <3>5. QED
      BY <1>2, <3>1, <3>2, <3>4
  <2>4. QED
    BY <2>2, <2>3
<1>5. m \in J
  <2>1. Len(list) \in Nat
    BY <1>1
  <2> HIDE DEF I, J
  <2>2. QED
    BY <1>2, <1>3, <1>4, <2>1, Tip!Ends!FireThrough
<1> HIDE DEF m
<1>6. Called(m) /\ m.in /\ m.due = <<>>
  BY <1>5
<1>7. QED
  BY <1>6 DEF TipWhole, TipCalm, Awaited, m, list

\* Pointer, focus and clicks that come while a show() and a hide() end are history.
LEMMA TurnIs ==
    ASSUME page \in TipStates, NEW inState \in SUBSET {"click", "hover", "focus"}
    PROVE  LET t == Tip!Turn(inState) IN
           /\ t \in TipStates /\ SameLook(page, t) /\ t.inState = inState
           /\ t.kind = page.kind /\ t.animation = page.animation /\ t.delay = page.delay
           /\ t.title = page.title /\ t.content = page.content
           /\ t.scripted = page.scripted /\ t.enabled = page.enabled
           /\ t.hoverState = page.hoverState /\ t.timeout = page.timeout
           /\ ~t.hurried => ~page.hurried /\ ~ \E i, j \in DOMAIN page.due :
                                 page.due[i] = "shown" /\ page.due[j] = "hidden"
<1> DEFINE both == {"shown", "hidden"} \subseteq Tip!Range(page.due)
           hurried == page.hurried \/ both
           t == [page EXCEPT !.inState = inState, !.hurried = hurried]
<1>1. Tip!Turn(inState) = t
  BY DEF Tip!Turn, TipStates
<1>2. hurried \in BOOLEAN
  BY DEF TipStates
<1>3. ~hurried => ~page.hurried /\ ~both
  OBVIOUS
<1>4. ~both => ~ \E i, j \in DOMAIN page.due : page.due[i] = "shown" /\ page.due[j] = "hidden"
  BY DEF Tip!Range
<1> HIDE DEF hurried, both
<1>5. /\ t \in TipStates /\ SameLook(page, t) /\ t.inState = inState
      /\ t.kind = page.kind /\ t.animation = page.animation /\ t.delay = page.delay
      /\ t.title = page.title /\ t.content = page.content
      /\ t.scripted = page.scripted /\ t.enabled = page.enabled
      /\ t.hoverState = page.hoverState /\ t.timeout = page.timeout
      /\ t.hurried = hurried
  BY <1>2 DEF TipStates, SameLook
<1> HIDE DEF t
<1>6. QED
  BY <1>1, <1>3, <1>4, <1>5

\* What a tip is when something happens to it, and nothing was hurried.
LEMMA TurnWhole ==
    ASSUME TipInv(page), NEW inState \in SUBSET {"click", "hover", "focus"},
           ~Tip!Turn(inState).scripted, Tip!HasContent(Tip!Turn(inState)),
           ~Tip!Turn(inState).hurried
    PROVE  LET t == Tip!Turn(inState) IN
           /\ t.enabled /\ TipSound(t) /\ Awaited(t) /\ TipCalm(t)
           /\ Asked(page) /\ Asked(t) => Called(t)
<1> DEFINE t == Tip!Turn(inState)
<1>1. page \in TipStates
  BY DEF TipInv
<1>2. /\ t \in TipStates /\ SameLook(page, t) /\ t.inState = inState
      /\ t.kind = page.kind /\ t.animation = page.animation /\ t.delay = page.delay
      /\ t.title = page.title /\ t.content = page.content
      /\ t.scripted = page.scripted /\ t.enabled = page.enabled
      /\ t.hoverState = page.hoverState /\ t.timeout = page.timeout
      /\ ~page.hurried
      /\ ~ \E i, j \in DOMAIN page.due : page.due[i] = "shown" /\ page.due[j] = "hidden"
  BY <1>1, TurnIs
<1>3. Tip!HasContent(t) /\ ~t.scripted
  OBVIOUS
<1> HIDE DEF t
<1>4. Tip!HasContent(page)
  BY <1>2, <1>3 DEF Tip!HasContent
<1>5. page.enabled /\ TipWhole(page)
  BY <1>2, <1>3, <1>4 DEF TipInv
<1>6. TipCalm(page)
  <2>1. CASE Rescued(page)
    <3>1. PICK q \in Seq(Tip!Callbacks) : page.due = Append(q, "shown") /\ Ending(q)
      BY <2>1 DEF Rescued
    <3>2. CASE q = <<>>
      <4>1. page.due = <<"shown">>
        BY <3>1, <3>2, OneDue
      <4>2. QED
        BY <2>1, <4>1 DEF Rescued, TipCalm
    <3>3. CASE q # <<>>
      <4>1. 1 \in DOMAIN q
        BY <3>3, NotEmpty
      <4>2. /\ 1 \in DOMAIN page.due /\ page.due[1] = "hidden"
            /\ Len(q) + 1 \in DOMAIN page.due /\ page.due[Len(q) + 1] = "shown"
        BY <3>1, <4>1 DEF Ending
      <4>3. QED
        BY <1>2, <4>2
    <3>4. QED
      BY <3>2, <3>3
  <2>2. CASE Dismissed(page)
    <3>1. /\ page.due = <<"shown", "hidden">>
          /\ 1 \in DOMAIN <<"shown", "hidden">> /\ 2 \in DOMAIN <<"shown", "hidden">>
          /\ <<"shown", "hidden">>[1] = "shown" /\ <<"shown", "hidden">>[2] = "hidden"
      BY <2>2 DEF Dismissed
    <3>2. QED
      BY <1>2, <3>1
  <2>3. QED
    BY <1>5, <2>1, <2>2 DEF TipWhole
<1>7. TipSound(t)
  BY <1>2, <1>5 DEF TipWhole, Called, TipSound, SameLook
<1>8. Awaited(t) /\ TipCalm(t)
  BY <1>2, <1>5, <1>6 DEF TipWhole, Awaited, TipCalm, SameLook
<1>9. Asked(page) /\ Asked(t) => Called(t)
  BY <1>2, <1>5, <1>7 DEF TipWhole, Called, SameLook
<1>10. QED
  BY <1>2, <1>5, <1>7, <1>8, <1>9 DEF t

\* A call that SameTip allows keeps what is not about pointer, focus and clicks.
LEMMA TipInvFrom ==
    ASSUME NEW t \in TipStates, NEW n \in TipStates, SameTip(t, n),
           ~t.scripted => t.enabled,
           ~t.scripted /\ Tip!HasContent(t) /\ ~t.hurried => TipWhole(n)
    PROVE  TipInv(n)
<1>1. /\ n.scripted = t.scripted /\ n.enabled = t.enabled /\ n.hurried = t.hurried
      /\ (Tip!HasContent(n) <=> Tip!HasContent(t))
  BY DEF SameTip, Tip!HasContent
<1>2. QED
  BY <1>1 DEF TipInv

LEMMA TurnsKeep ==
    ASSUME TipInv(page), NEW inState \in SUBSET {"click", "hover", "focus"}
    PROVE  LET t == Tip!Turn(inState) IN
           /\ inState # {} => TipInv(Tip!Enter(t))
           /\ inState = {} \/ Asked(page) => TipInv(Tip!Leave(t))
<1> DEFINE t == Tip!Turn(inState)
<1>1. page \in TipStates /\ (~page.scripted => page.enabled)
  BY DEF TipInv
<1>2. t \in TipStates /\ t.inState = inState /\ (~t.scripted => t.enabled)
  BY <1>1, TurnIs
<1>3. ~t.scripted /\ Tip!HasContent(t) /\ ~t.hurried =>
        /\ t.enabled /\ TipSound(t) /\ Awaited(t) /\ TipCalm(t)
        /\ Asked(page) /\ Asked(t) => Called(t)
  BY TurnWhole
<1> HIDE DEF t
<1>4. ASSUME inState # {}
      PROVE  TipInv(Tip!Enter(t))
  <2>1. ~t.scripted /\ Tip!HasContent(t) /\ ~t.hurried => TipWhole(Tip!Enter(t))
    BY <1>2, <1>3, <1>4, EnterWhole DEF Asked
  <2>2. Tip!Enter(t) \in TipStates /\ SameTip(t, Tip!Enter(t))
    BY <1>2, EnterIs
  <2>3. QED
    BY <1>2, <2>1, <2>2, TipInvFrom
<1>5. ASSUME inState = {} \/ Asked(page)
      PROVE  TipInv(Tip!Leave(t))
  <2>1. CASE inState = {}
    <3>1. ~t.scripted /\ Tip!HasContent(t) /\ ~t.hurried => TipWhole(Tip!Leave(t))
      BY <1>2, <1>3, <2>1, LeaveWhole DEF Asked
    <3>2. Tip!Leave(t) \in TipStates /\ SameTip(t, Tip!Leave(t))
      BY <1>2, LeaveIs
    <3>3. QED
      BY <1>2, <3>1, <3>2, TipInvFrom
  <2>2. CASE inState # {}
    <3>1. Tip!Leave(t) = t
      BY <1>2, <2>2, LeaveIs
    <3>2. ~t.scripted /\ Tip!HasContent(t) /\ ~t.hurried => TipWhole(t)
      BY <1>2, <1>3, <1>5, <2>2 DEF TipWhole, Asked
    <3>3. QED
      BY <1>2, <3>1, <3>2 DEF TipInv
  <2>3. QED
    BY <2>1, <2>2
<1>6. QED
  BY <1>4, <1>5 DEF t

LEMMA TimerKeeps ==
    ASSUME TipInv(page), Tip!Timeout
    PROVE  TipInv(page')
<1> DEFINE t == [page EXCEPT !.timeout = "none"]
<1>1. page \in TipStates /\ (~page.scripted => page.enabled)
  BY DEF TipInv
<1>2. /\ t \in TipStates /\ SameTip(page, t) /\ SameLook(page, t)
      /\ t.hoverState = page.hoverState /\ t.timeout = "none"
  BY <1>1 DEF TipStates, SameTip, SameLook
<1>3. /\ page.timeout # "none"
      /\ page' = CASE page.timeout = "show" /\ page.hoverState = "in" -> Tip!Show(t)
                   [] page.timeout = "hide" /\ page.hoverState = "out" -> Tip!Hide(t, "hidden")
                   [] OTHER -> t
  BY DEF Tip!Timeout
<1> HIDE DEF t
<1>4. /\ t.scripted = page.scripted /\ t.enabled = page.enabled /\ t.hurried = page.hurried
      /\ (Tip!HasContent(t) <=> Tip!HasContent(page))
      /\ t.animation = page.animation /\ t.delay = page.delay /\ (Asked(t) <=> Asked(page))
  BY <1>2 DEF SameTip, Tip!HasContent, Asked
<1>5. ~t.scripted /\ Tip!HasContent(t) /\ ~t.hurried => page.enabled /\ TipWhole(page)
  BY <1>4 DEF TipInv
<1>6. CASE page.timeout = "show" /\ page.hoverState = "in"
  <2> DEFINE n == Tip!Show(t)
  <2>1. page' = n
    BY <1>3, <1>6
  <2>2. /\ n \in TipStates /\ SameTip(t, n)
        /\ Tip!HasContent(t) /\ t.enabled =>
           /\ t.animation =>
              /\ n.hoverState = t.hoverState /\ n.timeout = t.timeout /\ n.gone = t.gone
              /\ n.attached /\ n.in /\ n.fade /\ n.due = Append(t.due, "shown")
           /\ ~t.animation /\ t.hoverState = "in" =>
              /\ n.hoverState = "null" /\ n.timeout = t.timeout /\ n.gone = t.gone
              /\ n.attached /\ n.in /\ ~n.fade /\ n.due = t.due
    BY <1>2, TipShowIs
  <2> HIDE DEF n
  <2>3. ASSUME ~t.scripted, Tip!HasContent(t), ~t.hurried
        PROVE  TipWhole(n)
    <3>1. page.enabled /\ TipWhole(page)
      BY <1>5, <2>3
    <3>2. ~page.in /\ Ending(page.due) /\ ~page.gone /\ Asked(page)
          /\ (~page.animation => page.due = <<>>)
      BY <1>6, <3>1 DEF TipWhole, Called, TipSound, TipCalm, Rescued, Dismissed
    <3>3. n.animation = t.animation /\ n.delay = t.delay /\ (Asked(n) <=> Asked(t))
          /\ n.fade \in BOOLEAN /\ t.animation \in BOOLEAN /\ t.due \in Seq(Tip!Callbacks)
      BY <1>2, <2>2 DEF SameTip, Asked, TipStates
    <3>4. t.due = page.due /\ t.gone = page.gone
      BY <1>2 DEF SameLook
    <3>5. CASE t.animation
      <4>1. /\ n.hoverState = "in" /\ n.timeout = "none" /\ ~n.gone
            /\ n.attached /\ n.in /\ n.fade /\ n.due = Append(t.due, "shown")
        BY <1>2, <1>4, <1>6, <2>2, <2>3, <3>1, <3>2, <3>4, <3>5
      <4>2. Called(n) /\ Awaited(n)
        BY <1>4, <3>2, <3>3, <3>5, <4>1 DEF Called, TipSound, Awaited
      <4>3. Rescued(n)
        BY <3>2, <3>3, <3>4, <4>1 DEF Rescued
      <4>4. QED
        BY <4>2, <4>3 DEF TipWhole
    <3>6. CASE ~t.animation
      <4>1. /\ n.hoverState = "null" /\ n.timeout = "none" /\ ~n.gone
            /\ n.attached /\ n.in /\ ~n.fade /\ n.due = <<>>
        BY <1>2, <1>4, <1>6, <2>2, <2>3, <3>1, <3>2, <3>4, <3>6
      <4>2. Called(n) /\ Awaited(n) /\ TipCalm(n)
        BY <1>4, <3>2, <3>3, <3>6, <4>1 DEF Called, TipSound, Awaited, TipCalm
      <4>3. QED
        BY <4>2 DEF TipWhole
    <3>7. QED
      BY <3>5, <3>6
  <2>4. TipInv(n)
    BY <1>1, <1>2, <1>4, <2>2, <2>3, TipInvFrom
  <2>5. QED
    BY <2>1, <2>4
<1>7. CASE page.timeout = "hide" /\ page.hoverState = "out"
  <2> DEFINE n == Tip!Hide(t, "hidden")
  <2>1. page' = n
    BY <1>3, <1>7
  <2>2. /\ n \in TipStates /\ SameTip(t, n)
        /\ n.in = FALSE /\ n.hoverState = "null" /\ n.timeout = t.timeout
        /\ n.fade = t.fade /\ n.gone = t.gone
        /\ n.due = IF t.fade THEN Append(t.due, "hidden") ELSE t.due
        /\ n.attached = (t.attached /\ (t.fade \/ t.hoverState = "in"))
        /\ n.describedby = (t.describedby /\ t.fade)
    BY <1>2, TipHideIs
  <2> HIDE DEF n
  <2>3. ASSUME ~t.scripted, Tip!HasContent(t), ~t.hurried
        PROVE  TipWhole(n)
    <3>1. TipWhole(page)
      BY <1>5, <2>3
    <3>2. TipCalm(page) /\ ~Asked(page)
      BY <1>7, <3>1 DEF TipWhole, Called, Rescued, Dismissed
    <3>3. TipCalm(t)
      BY <1>2, <3>2 DEF TipCalm, SameLook
    <3>4. n.attached = (t.attached /\ t.fade)
      BY <1>2, <1>7, <2>2
    <3> DEFINE u == [t EXCEPT !.timeout = "hide"]
    <3>5. /\ u \in TipStates /\ SameTip(t, u) /\ SameLook(t, u) /\ u.timeout = "hide"
          /\ u.hoverState = "out"
      BY <1>2, <1>7 DEF TipStates, SameTip, SameLook
    <3> HIDE DEF u
    <3>6. u.animation = t.animation /\ u.delay = t.delay /\ ~Asked(u)
      BY <1>4, <3>2, <3>5 DEF SameTip, Asked
    <3>7. TipSound(u)
      BY <1>2, <1>4, <1>7, <3>1, <3>5, <3>6 DEF TipWhole, Called, TipSound, SameLook
    <3>8. TipCalm(u)
      BY <3>3, <3>5 DEF TipCalm, SameLook
    <3>9. SameTip(u, n)
      BY <2>2, <3>5 DEF SameTip
    <3>10. /\ n.timeout = "none" /\ n.fade = u.fade /\ n.gone = u.gone
           /\ n.due = IF u.fade THEN Append(u.due, "hidden") ELSE u.due
           /\ n.attached = (u.attached /\ u.fade) /\ n.describedby = (u.describedby /\ u.fade)
      BY <1>2, <2>2, <3>4, <3>5 DEF SameLook
    <3>11. QED
      BY <2>2, <3>5, <3>6, <3>7, <3>8, <3>9, <3>10, GoneWhole
  <2>4. TipInv(n)
    BY <1>1, <1>2, <1>4, <2>2, <2>3, TipInvFrom
  <2>5. QED
    BY <2>1, <2>4
<1>8. CASE ~(page.timeout = "show" /\ page.hoverState = "in")
           /\ ~(page.timeout = "hide" /\ page.hoverState = "out")
  <2>1. page' = t
    BY <1>3, <1>8
  <2>2. ASSUME ~t.scripted, Tip!HasContent(t), ~t.hurried
        PROVE  TipWhole(t)
    <3>1. TipWhole(page)
      BY <1>5, <2>2
    <3>2. page.in /\ page.hoverState # "out" /\ page.timeout = "hide"
      BY <1>1, <1>3, <1>8, <3>1 DEF TipWhole, Called, TipSound, TipStates
    <3>3. Called(t) /\ Awaited(t)
      BY <1>2, <1>4, <3>1, <3>2 DEF TipWhole, Called, TipSound, Awaited, SameLook
    <3>4. TipCalm(t)
      BY <1>2, <3>1, <3>2 DEF TipWhole, Rescued, Dismissed, TipCalm, SameLook
    <3>5. QED
      BY <3>3, <3>4 DEF TipWhole
  <2>3. QED
    BY <1>1, <1>2, <1>4, <2>1, <2>2 DEF TipInv
<1>9. QED
  BY <1>6, <1>7, <1>8

LEMMA TipEndKeeps ==
    ASSUME TipInv(page), Tip!TransitionEnd
    PROVE  TipInv(page')
<1> DEFINE s == [page EXCEPT !.due = <<>>]
           list == page.due
           I == {x \in TipStates : SameTip(s, x)}
<1>1. page \in TipStates /\ (~page.scripted => page.enabled)
  BY DEF TipInv
<1>2. list \in Seq(Tip!Callbacks) /\ list # <<>>
  BY <1>1 DEF Tip!TransitionEnd, TipStates
<1>3. page' = Tip!Ends!Fire(s, list)
  BY DEF Tip!TransitionEnd
<1>4. /\ s \in TipStates /\ SameTip(page, s) /\ SameTip(s, s) /\ s.due = <<>>
      /\ s.hoverState = page.hoverState /\ s.timeout = page.timeout /\ s.attached = page.attached
      /\ s.in = page.in /\ s.fade = page.fade /\ s.describedby = page.describedby
      /\ s.gone = page.gone
  <2>1. <<>> \in Seq(Tip!Callbacks)
    OBVIOUS
  <2>2. QED
    BY <1>1, <2>1 DEF TipStates, SameTip
<1> HIDE DEF s, list
<1>5. page' \in I
  <2>1. s \in I
    BY <1>4
  <2>2. ASSUME NEW x \in I, NEW i \in 1 .. Len(list)
        PROVE  Tip!Call(x, list[i]) \in I
    <3>1. list[i] \in Tip!Callbacks
      BY <1>2
    <3>2. Tip!Call(x, list[i]) \in TipStates /\ SameTip(x, Tip!Call(x, list[i]))
      BY <3>1, TipCallIs
    <3>3. QED
      BY <3>2 DEF SameTip
  <2>3. Len(list) \in Nat
    BY <1>2
  <2> HIDE DEF I
  <2>4. QED
    BY <1>3, <2>1, <2>2, <2>3, Tip!Ends!FireKeeps
<1>6. ASSUME ~page.scripted, Tip!HasContent(page), ~page.hurried
      PROVE  TipWhole(page')
  <2>1. TipWhole(page)
    BY <1>6 DEF TipInv
  <2>2. s.animation = page.animation /\ s.delay = page.delay /\ (Asked(s) <=> Asked(page))
    BY <1>4 DEF SameTip, Asked
  <2>3. Called(s)
    BY <1>4, <2>1, <2>2 DEF TipWhole, Called, TipSound
  <2>4. CASE ~page.in /\ Ending(page.due)
    <3>1. /\ \A i \in DOMAIN list : list[i] = "hidden"
          /\ Len(list) \in DOMAIN list
      BY <1>2, <2>4 DEF Ending, list
    <3>2. QED
      BY <1>2, <1>3, <1>4, <2>3, <2>4, <3>1, EndsTake
  <2>5. CASE Dismissed(page)
    <3>1. list = <<"shown", "hidden">> /\ s.hoverState = "null" /\ ~s.in
      BY <1>4, <2>5 DEF Dismissed, list
    <3>2. /\ Len(list) = 2 /\ DOMAIN list = {1, 2} /\ list[1] = "shown" /\ list[2] = "hidden"
      BY <3>1
    <3>3. QED
      BY <1>2, <1>3, <1>4, <2>3, <3>1, <3>2, EndsTake
  <2>6. CASE Rescued(page)
    <3>1. PICK q \in Seq(Tip!Callbacks) : list = Append(q, "shown") /\ Ending(q)
      BY <2>6 DEF Rescued, list
    <3>2. s.in /\ s.hoverState = "in"
      BY <1>4, <2>6 DEF Rescued
    <3>3. QED
      BY <1>3, <1>4, <2>3, <3>1, <3>2, EndsLeave
  <2>7. CASE page.in /\ page.due = <<"shown">>
    <3>1. list = Append(<<>>, "shown") /\ <<>> \in Seq(Tip!Callbacks)
      BY <2>7, OneDue DEF list
    <3>2. \A i \in DOMAIN <<>> : FALSE
      OBVIOUS
    <3>3. Ending(<<>>)
      BY <3>2 DEF Ending
    <3>4. TipWhole(Tip!Ends!Fire(s, Append(<<>>, "shown")))
      BY <1>4, <2>3, <2>7, <3>1, <3>3, EndsLeave
    <3>5. QED
      BY <1>3, <3>1, <3>4
  <2>8. QED
    BY <1>2, <2>1, <2>4, <2>5, <2>6, <2>7 DEF TipWhole, TipCalm, list
<1>7. SameTip(page, page') /\ page' \in TipStates
  BY <1>4, <1>5 DEF SameTip
<1>8. QED
  BY <1>1, <1>6, <1>7, TipInvFrom

LEMMA NewTip ==
    ASSUME NEW o, o.kind \in Tip!Kinds, o.animation \in BOOLEAN, o.delay \in BOOLEAN,
           o.title \in BOOLEAN, o.content \in BOOLEAN, o.scripted \in BOOLEAN
    PROVE  TipInv(Tip!New(o))
<1> DEFINE n == Tip!New(o)
           Off == {FALSE}
           On == {TRUE}
           Null == {"null"}
           Nobody == {{}}
           No == {"none"}
           Idle == {<<>>}
<1>1. n \in [
        kind : Tip!Kinds, animation : BOOLEAN, delay : BOOLEAN, title : BOOLEAN,
        content : BOOLEAN, scripted : BOOLEAN, enabled : On, hoverState : Null,
        inState : Nobody, timeout : No, attached : Off, in : Off, fade : Off,
        describedby : Off, due : Idle, gone : Off, hurried : Off]
  BY DEF Tip!New
<1>2. /\ \A x \in Off : x = FALSE /\ x \in BOOLEAN
      /\ \A x \in On : x = TRUE /\ x \in BOOLEAN
      /\ \A x \in Null : x = "null" /\ x \in {"null", "in", "out"}
      /\ \A x \in Nobody : x = {} /\ x \in SUBSET {"click", "hover", "focus"}
      /\ \A x \in No : x = "none" /\ x \in {"none", "show", "hide"}
      /\ \A x \in Idle : x = <<>> /\ x \in Seq(Tip!Callbacks)
  OBVIOUS
<1> HIDE DEF n, Off, On, Null, Nobody, No, Idle
<1>3. n \in TipStates
  BY <1>1, <1>2 DEF TipStates
<1>4. /\ n.enabled = TRUE /\ n.hoverState = "null" /\ n.inState = {} /\ n.timeout = "none"
      /\ n.attached = FALSE /\ n.in = FALSE /\ n.fade = FALSE /\ n.describedby = FALSE
      /\ n.due = <<>> /\ n.gone = FALSE
  BY <1>1, <1>2
<1>5. Called(n) /\ Awaited(n)
  BY <1>4 DEF Called, TipSound, Awaited, Asked
<1>6. TipCalm(n)
  BY <1>4 DEF TipCalm, Ending
<1>7. QED
  BY <1>3, <1>4, <1>5, <1>6 DEF TipInv, TipWhole, n

LEMMA TipInit ==
    ASSUME Tip!Init
    PROVE  TipInv(page)
<1>1. PICK o \in [kind : Tip!Kinds, animation : BOOLEAN, delay : BOOLEAN, title : BOOLEAN,
                  content : BOOLEAN, scripted : BOOLEAN] : page = Tip!New(o)
  BY DEF Tip!Init
<1>2. QED
  BY <1>1, NewTip

\* The page's own calls keep the type.
LEMMA ScriptKeeps ==
    ASSUME TipInv(page),
           \/ Tip!CallShow \/ Tip!CallHide \/ Tip!CallToggle \/ Tip!CallToggleEnabled
           \/ Tip!CallDestroy
    PROVE  TipInv(page')
<1>1. page \in TipStates
  BY DEF TipInv
<1>2. page.scripted
  BY DEF Tip!CallShow, Tip!CallHide, Tip!CallToggle, Tip!CallToggleEnabled, Tip!CallDestroy
<1>3. page' \in TipStates /\ page'.scripted = page.scripted
  <2>1. CASE Tip!CallShow
    BY <1>1, <2>1, TipShowIs DEF Tip!CallShow, SameTip
  <2>2. CASE Tip!CallHide
    BY <1>1, <2>2, TipHideIs DEF Tip!CallHide, SameTip
  <2>3. CASE Tip!CallToggle
    BY <1>1, <2>3, EnterIs, LeaveIs DEF Tip!CallToggle, Tip!Toggle, SameTip
  <2>4. CASE Tip!CallToggleEnabled
    <3> DEFINE enabled == ~page.enabled
    <3>1. enabled \in BOOLEAN
      OBVIOUS
    <3>2. page' = [page EXCEPT !.enabled = enabled]
      BY <1>1, <2>4 DEF Tip!CallToggleEnabled, TipStates
    <3> HIDE DEF enabled
    <3>3. QED
      BY <1>1, <3>1, <3>2 DEF TipStates
  <2>5. CASE Tip!CallDestroy
    <3> DEFINE t == [page EXCEPT !.timeout = "none"]
    <3>1. t \in TipStates /\ t.scripted = page.scripted
      BY <1>1 DEF TipStates
    <3>2. page' = Tip!Hide(t, "destroyed")
      BY <2>5 DEF Tip!CallDestroy
    <3> HIDE DEF t
    <3>3. QED
      BY <3>1, <3>2, TipHideIs DEF SameTip
  <2>6. QED
    BY <2>1, <2>2, <2>3, <2>4, <2>5
<1>4. QED
  BY <1>2, <1>3 DEF TipInv

LEMMA TipNext ==
    ASSUME TipInv(page), [Tip!Next]_page
    PROVE  TipInv(page)'
<1>1. page \in TipStates
  BY DEF TipInv
<1>2. page.inState \in SUBSET {"click", "hover", "focus"}
  BY <1>1 DEF TipStates
<1>3. ASSUME NEW how \in {"hover", "focus"}, Tip!In(how)
      PROVE  TipInv(page')
  <2> DEFINE inState == page.inState \cup {how}
  <2>1. inState \in SUBSET {"click", "hover", "focus"} /\ inState # {}
    BY <1>2
  <2>2. page' = Tip!Enter(Tip!Turn(inState))
    BY <1>3 DEF Tip!In
  <2> HIDE DEF inState
  <2>3. QED
    BY <2>1, <2>2, TurnsKeep
<1>4. ASSUME NEW how \in {"hover", "focus"}, Tip!Out(how)
      PROVE  TipInv(page')
  <2> DEFINE inState == page.inState \ {how}
  <2>1. inState \in SUBSET {"click", "hover", "focus"} /\ Asked(page)
    BY <1>2, <1>4 DEF Tip!Out, Asked
  <2>2. page' = Tip!Leave(Tip!Turn(inState))
    BY <1>4 DEF Tip!Out
  <2> HIDE DEF inState
  <2>3. QED
    BY <2>1, <2>2, TurnsKeep
<1>5. CASE Tip!Click
  <2> DEFINE inState == Tip!SymDiff(page.inState, {"click"})
             t == Tip!Turn(inState)
  <2>1. inState \in SUBSET {"click", "hover", "focus"}
    BY <1>2 DEF Tip!SymDiff
  <2>2. page' = IF t.inState # {} THEN Tip!Enter(t) ELSE Tip!Leave(t)
    BY <1>5 DEF Tip!Click
  <2> HIDE DEF inState
  <2>3. t.inState = inState
    BY <1>1, <2>1, TurnIs
  <2>4. QED
    BY <2>1, <2>2, <2>3, TurnsKeep
<1>6. CASE Tip!Timeout
  BY <1>6, TimerKeeps
<1>7. CASE Tip!TransitionEnd
  BY <1>7, TipEndKeeps
<1>8. CASE \/ Tip!CallShow \/ Tip!CallHide \/ Tip!CallToggle \/ Tip!CallToggleEnabled
           \/ Tip!CallDestroy
  BY <1>8, ScriptKeeps
<1>9. CASE Tip!Plugin
  BY <1>1, <1>9, NewTip DEF Tip!Plugin, TipStates
<1>10. CASE UNCHANGED page
  BY <1>10
<1>11. QED
  BY <1>3, <1>4, <1>5, <1>6, <1>7, <1>8, <1>9, <1>10 DEF Tip!Next

LEMMA TipKept == BrowserSpec => [](part = "tip" => TipInv(page))
<1>1. BrowserInit => (part = "tip" => TipInv(page))
  BY PartInit, TipInit
<1>2. (part = "tip" => TipInv(page)) /\ [BrowserNext]_browser
        => (part = "tip" => TipInv(page))'
  BY PartNext, TipNext
<1>3. QED
  BY <1>1, <1>2, PTL DEF BrowserSpec

\* At rest, what was asked for is there and what was not is away.
LEMMA TipIsShown ==
    ASSUME TipInv(page)
    PROVE  Tip!TipShown
<1> SUFFICES ASSUME page.due = <<>>, page.timeout = "none", ~page.scripted,
                    Tip!HasContent(page), ~page.hurried
             PROVE  /\ {page.inState # {}} = {page.attached, page.in}
                    /\ page.describedby => page.attached
  BY DEF Tip!TipShown, Tip!AtRest
<1>1. page.attached \in BOOLEAN /\ page.in \in BOOLEAN /\ TipWhole(page)
  BY DEF TipInv, TipStates
<1>2. page.in <=> page.inState # {}
  BY <1>1 DEF TipWhole, Called, TipSound, Asked
<1>3. page.attached <=> page.in
  BY <1>1 DEF TipWhole, Called, TipSound, Awaited
<1>4. page.describedby => page.attached
  BY <1>1 DEF TipWhole, Called, TipSound
<1>5. page.attached = (page.inState # {}) /\ page.in = (page.inState # {})
  BY <1>1, <1>2, <1>3
<1>6. QED
  BY <1>4, <1>5

\* A tip with content is shown exactly while something asks for it, once its
\* transitions are over and its timer has run (Tooltip in bootstrap.js); and it is
\* put inside its viewport, on the side where it fits (Tooltip's show()).
THEOREM TipsAreRight == BrowserSpec => []TipRight
<1>1. /\ part = "tip" => TipInv(page)
      /\ part = "place" => PlaceInv(page)
      => TipRight
  BY TipIsShown, PlacedWell DEF TipRight
<1>2. QED
  BY TipKept, PlaceKept, <1>1, PTL

(***************************************************************************)
(* Types.                                                                   *)
(***************************************************************************)
LEMMA PartKept == BrowserSpec => [](part \in Parts /\ (part = "socket" => page = None))
<1>1. BrowserInit => part \in Parts /\ (part = "socket" => page = None)
  BY PartInit
<1>2. part \in Parts /\ (part = "socket" => page = None) /\ [BrowserNext]_browser
        => (part \in Parts /\ (part = "socket" => page = None))'
  BY PartNext
<1>3. QED
  BY <1>1, <1>2, PTL DEF BrowserSpec

LEMMA DialogTyped ==
    ASSUME DialogInv(page)
    PROVE  Dialog!TypeOK
<1>1. page \in DialogStates /\ page.hiding \in 0 .. Cardinality(Backdrops)
  <2>1. page \in DialogStates /\ DialogSafe(page)
    BY DEF DialogInv, DialogSafe
  <2>2. page.dom \in SUBSET Backdrops
    BY <2>1 DEF DialogStates
  <2>3. Cardinality(page.dom) \in Nat /\ Cardinality(Backdrops) \in Nat
    BY <2>2, DomCounts
  <2>4. Owed(page) \in 0 .. 1 /\ page.hiding \in Nat
    BY <2>1 DEF Owed, DialogStates
  <2>5. Cardinality(page.dom) + page.hiding + Owed(page) <= Cardinality(Backdrops)
    BY <2>1 DEF DialogSafe
  <2>6. QED
    BY <2>1, <2>3, <2>4, <2>5
<1>2. Dialog!Cardinality(Backdrops) = Cardinality(Backdrops)
  BY DEF Dialog!Cardinality, Cardinality
<1>3. QED
  BY <1>1, <1>2 DEF DialogStates, Dialog!TypeOK

\* Whatever part runs, its state has its type (the objects and classes of each part,
\* and the queues of callbacks that wait).
THEOREM TypesHold == BrowserSpec => []TypesOK
<1>1. /\ SocketInv
      /\ part \in Parts /\ (part = "socket" => page = None)
      /\ part = "chat" => ChatInv
      /\ part = "form" => FormInv
      /\ part = "modal" => DialogInv(page)
      /\ part = "tip" => TipInv(page)
      /\ part = "place" => PlaceInv(page)
      /\ part = "carousel" => CarouselInv(page)
      /\ part = "panels" => PanelsInv(page)
      /\ part = "menus" => Agreed(page)
      /\ part = "tabs" => TabInv(page)
      /\ part = "spy" => SpyInv(page)
      /\ part = "affix" => AffixInv(page)
      => TypesOK
  <2> SUFFICES ASSUME SocketInv, part \in Parts, part = "socket" => page = None,
                      part = "chat" => ChatInv, part = "form" => FormInv,
                      part = "modal" => DialogInv(page), part = "tip" => TipInv(page),
                      part = "place" => PlaceInv(page),
                      part = "carousel" => CarouselInv(page),
                      part = "panels" => PanelsInv(page), part = "menus" => Agreed(page),
                      part = "tabs" => TabInv(page), part = "spy" => SpyInv(page),
                      part = "affix" => AffixInv(page)
               PROVE  TypesOK
    OBVIOUS
  <2>1. TypeOK
    BY DEF SocketInv
  <2>2. part = "chat" => Chat!TypeOK
    BY DEF ChatInv
  <2>3. part = "form" => Form!TypeOK
    BY DEF FormInv
  <2>4. part = "modal" => Dialog!TypeOK
    BY DialogTyped
  <2>5. part = "tip" => Tip!TypeOK
    BY DEF TipInv, TipStates, Tip!TypeOK
  <2>6. part = "place" => Placing!TypeOK
    BY DEF PlaceInv, PlaceStates, Placing!TypeOK
  <2>7. part = "carousel" => Slides!TypeOK
    BY DEF CarouselInv, Rolling, CarouselStates, Slides!TypeOK
  <2>8. part = "panels" => Accordion!TypeOK
    BY DEF PanelsInv, PanelsSafe, PanelStates, Accordion!TypeOK
  <2>9. part = "menus" => Dropdowns!TypeOK
    BY DEF Agreed, MenuStates, Dropdowns!TypeOK
  <2>10. part = "tabs" => TabList!TypeOK
    BY DEF TabInv, TabStates, TabList!TypeOK
  <2>11. part = "spy" => Spy!TypeOK
    BY DEF SpyInv, SpyStates, Spy!TypeOK
  <2>12. part = "affix" => Fixed!TypeOK
    BY DEF AffixInv, AffixStates, Fixed!TypeOK
  <2>13. QED
    BY <2>1, <2>2, <2>3, <2>4, <2>5, <2>6, <2>7, <2>8, <2>9, <2>10, <2>11, <2>12
    DEF TypesOK
<1>2. BrowserSpec => []SocketInv
  BY ConnectionImplemented, SocketKept, PTL DEF FairSpec
<1>3. QED
  BY <1>1, <1>2, PartKept, ChatKept, FormKept, DialogKept, TipKept, PlaceKept, CarouselKept,
     PanelsKept, MenusKept, TabsKept, SpyKept, AffixKept, PTL
=============================================================================

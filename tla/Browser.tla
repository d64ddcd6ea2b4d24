-------------------------------- MODULE Browser --------------------------------
(***************************************************************************)
(* The browser's side: the connection of a chat page, what the page shows,    *)
(* the contract form, and the plugins of bootstrap.js.  The parts of a page     *)
(* share no state, so that a behaviour is one of one part: Init chooses the   *)
(* part, and the others stay as they are.                                     *)
(***************************************************************************)
EXTENDS ClientReconnect, Integers, Sequences

CONSTANTS
    None,
    Names, Me,                                  \* of the chat page
    Departments, OrgKind, ByHeart, Officers, Docs, \* of the form
    WindowWidth, WindowHeight,
    Backdrops,
    MaxDue,                                     \* bound: see the plugins
    BodyWidths, BodyHeight, ElementWidth, ElementHeight, TipWidth, TipHeight, Step,
    LastSlide, MaxQueued,
    Panels, Menus, LastItem, Tabs,
    Layouts, SpyOffset,
    Heights, Height, Natural, Pinned, Tops, Bottoms

VARIABLES part,   \* the part of the page that runs
          page    \* its state, for the parts other than the connection

browser == <<vars, part, page>>

Chat == INSTANCE ChatPage WITH Users <- Names, Nobody <- None, chat <- page
Form == INSTANCE CountSignForm WITH form <- page

Dialog    == INSTANCE Modal WITH NoBackdrop <- None, modal <- page
Tip       == INSTANCE Tooltip WITH tip <- page
Placing   == INSTANCE TipPlacement WITH place <- page
Slides    == INSTANCE Carousel WITH LastItem <- LastSlide, carousel <- page
Accordion == INSTANCE Collapse WITH panels <- page
Dropdowns == INSTANCE Dropdown WITH menus <- page
TabList   == INSTANCE Tab WITH tabs <- page
Spy       == INSTANCE ScrollSpy WITH Offset <- SpyOffset, spy <- page
Fixed     == INSTANCE Affix WITH NoOffset <- None, affix <- page

-----------------------------------------------------------------------------
(* What is assumed of the constants.                                        *)

\* No user has the group room's name.
ASSUME ChatAssumption ==
    IsFiniteSet(Names) /\ Chat!GroupRoom \notin Names /\ None \notin Names

\* A field of the form that is empty, or was typed in, is told from one that was
\* filled.
ASSUME FormAssumption ==
    /\ None \notin Departments /\ ByHeart \subseteq Departments
    /\ {None, "typed"} \cap Docs = {}
    /\ None \notin [department : Departments, role : Form!Roles]

\* None is no backdrop.
ASSUME ModalAssumption == IsFiniteSet(Backdrops) /\ None \notin Backdrops

\* A carousel has an item.
ASSUME SlideAssumption == LastSlide \in Nat

\* Panels have the order of their numbers.
ASSUME PanelAssumption == Panels \subseteq Nat

\* A menu has an item.
ASSUME MenuAssumption == Menus \subseteq Int /\ LastItem \in Nat

\* A tip fits into the window.
ASSUME TipAssumption ==
    /\ BodyWidths \subseteq Nat /\ BodyHeight \in Nat
    /\ ElementWidth \in Nat /\ ElementHeight \in Nat
    /\ WindowWidth \in Nat /\ WindowHeight \in Nat
    /\ TipWidth \in 0 .. WindowWidth /\ TipHeight \in 0 .. WindowHeight

\* A page is no smaller than the window, and its sections are in order.
ASSUME LayoutAssumption ==
    /\ WindowHeight \in Nat /\ SpyOffset \in Int
    /\ \A l \in Layouts :
          /\ l.height \in Nat /\ WindowHeight <= l.height
          /\ l.tops \in Seq(Nat)
          /\ \A i, j \in DOMAIN l.tops : i <= j => l.tops[i] <= l.tops[j]

\* The affixed element fits into the window, and between its offsets on any page.
ASSUME AffixAssumption ==
    /\ Heights \subseteq Nat /\ Tops \subseteq Nat /\ Bottoms \subseteq Nat
    /\ None \notin Tops \cup Bottoms
    /\ WindowHeight \in Nat /\ Height \in Nat /\ Natural \in Nat /\ Pinned \in Nat
    /\ Pinned + Height <= WindowHeight
    /\ \A h \in Heights :
          /\ WindowHeight <= h
          /\ \A t \in Tops, b \in Bottoms : t + Pinned + Height + b <= h

-----------------------------------------------------------------------------
Parts == {"socket", "chat", "form", "modal", "tip", "place", "carousel", "panels", "menus",
          "tabs", "spy", "affix"}

BrowserInit ==
    /\ Init
    /\ \/ part = "socket" /\ page = None
       \/ part = "chat" /\ Chat!Init
       \/ part = "form" /\ Form!Init
       \/ part = "modal" /\ Dialog!Init
       \/ part = "tip" /\ Tip!Init
       \/ part = "place" /\ Placing!Init
       \/ part = "carousel" /\ Slides!Init
       \/ part = "panels" /\ Accordion!Init
       \/ part = "menus" /\ Dropdowns!Init
       \/ part = "tabs" /\ TabList!Init
       \/ part = "spy" /\ Spy!Init
       \/ part = "affix" /\ Fixed!Init

PageNext ==
    \/ part = "chat" /\ Chat!Next
    \/ part = "form" /\ Form!Next
    \/ part = "modal" /\ Dialog!Next
    \/ part = "tip" /\ Tip!Next
    \/ part = "place" /\ Placing!Scroll
    \/ part = "carousel" /\ Slides!Next
    \/ part = "panels" /\ Accordion!Next
    \/ part = "menus" /\ Dropdowns!Next
    \/ part = "tabs" /\ TabList!Next
    \/ part = "spy" /\ Spy!Next
    \/ part = "affix" /\ Fixed!Next

BrowserNext == \/ part = "socket" /\ Next /\ UNCHANGED <<part, page>>
               \/ PageNext /\ UNCHANGED <<vars, part>>

\* Of all these only the timeout of reconnect() is owed.
BrowserSpec == BrowserInit /\ [][BrowserNext]_browser /\ WF_vars(Retry)

-----------------------------------------------------------------------------
\* Each part's state has its type.
TypesOK ==
    /\ TypeOK
    /\ part \in Parts
    /\ part = "socket" => page = None
    /\ part = "chat" => Chat!TypeOK
    /\ part = "form" => Form!TypeOK
    /\ part = "modal" => Dialog!TypeOK
    /\ part = "tip" => Tip!TypeOK
    /\ part = "place" => Placing!TypeOK
    /\ part = "carousel" => Slides!TypeOK
    /\ part = "panels" => Accordion!TypeOK
    /\ part = "menus" => Dropdowns!TypeOK
    /\ part = "tabs" => TabList!TypeOK
    /\ part = "spy" => Spy!TypeOK
    /\ part = "affix" => Fixed!TypeOK

(* The properties of the parts, which their modules state.                  *)

\* A message goes to the one in whose box it was typed, while one user's box at most
\* is displayed.
SentWhereTyped == part = "chat" => Chat!SentWhereTyped

\* What arrives out of sight has its red point until the list is made anew.
UnseenMarked == part = "chat" => Chat!UnseenMarked

\* A form that may be submitted is that of the department and the document chosen.
FormRight == part = "form" => Form!FormRight

\* A modal dialog comes and goes whole, unless shown again while it hides.
ModalWhole == part = "modal" => Dialog!ModalWhole

\* A tip is shown while something asks for it, inside its viewport.
TipRight == /\ part = "tip" => Tip!TipShown
            /\ part = "place" => Placing!TipFits

\* Slides, indicators and the interval of a carousel agree.
CarouselAgrees == part = "carousel" => Slides!CarouselAgrees

\* Panels of an accordion, and their triggers, agree.
PanelsAgree == part = "panels" => Accordion!PanelsAgree

\* Menus, their backdrop and the focus agree.
MenusAgree == part = "menus" => Dropdowns!MenusAgree

\* The tab chosen shows its pane, if no choice came while panes were changing.
TabShowsPane == part = "tabs" => TabList!TabShowsPane

\* The active link follows the scrolling, from the second event after a change of
\* the page's height.
SpyFollows == part = "spy" => Spy!SpyFollows

\* An affixed element is where its offsets put it, away from the edges.
AffixSettles == part = "affix" => Fixed!AffixSettles
=============================================================================

------------------------------- MODULE Dropdown -------------------------------
(***************************************************************************)
(* Bootstrap's Dropdown (bootstrap.js): menus opened by a toggle, closed by a *)
(* click anywhere else, walked through with the arrow keys.  The page's own   *)
(* handlers prevent the hiding of some menus and the showing of others.       *)
(***************************************************************************)
EXTENDS Integers, FiniteSets

CONSTANTS Menus,     \* numbers, in the document's order
          LastItem   \* the items of a menu are 0 .. LastItem, its toggle -1

VARIABLE menus

Toggle == -1
Focus == Menus \X (Toggle .. LastItem)
Nothing == <<>>

TypeOK ==
    menus \in [
      touch : BOOLEAN, disabled : SUBSET Menus,
      holds : SUBSET Menus, refuses : SUBSET Menus,  \* hide, show are prevented
      open : SUBSET Menus, expanded : SUBSET Menus,  \* the parent's class, aria-expanded
      focus : Focus \cup {Nothing},
      backdrop : BOOLEAN]

Init ==
    menus \in [
      touch : BOOLEAN, disabled : SUBSET Menus, holds : SUBSET Menus, refuses : SUBSET Menus,
      open : {{}}, expanded : {{}}, focus : {Nothing}, backdrop : {FALSE}]

-----------------------------------------------------------------------------
(* Methods.                                                                 *)

\* The items of a menu that closes lose the focus.
Blurred(d) ==
    IF d.focus # Nothing /\ d.focus[2] # Toggle /\ d.focus[1] \notin d.open
    THEN [d EXCEPT !.focus = Nothing] ELSE d

\* clearMenus(e), for a click into an input of a menu or for anything else.  The
\* loop puts the hide event of the first open menu in e's place, so that a menu
\* whose input was clicked is spared only if no menu before it is open.
clearMenus(d, inputOf) ==
    LET spared == {m \in inputOf : \A q \in d.open : m <= q}
        closed == d.open \ (d.holds \cup spared)
    IN  Blurred([d EXCEPT !.open = @ \ closed, !.expanded = @ \ closed, !.backdrop = FALSE])

\* Variant: the other menus are left alone.
toggleOnly(d, m) ==
    IF m \in d.open \cup d.refuses THEN clearMenus(d, {})
    ELSE [d EXCEPT !.open = @ \cup {m}, !.expanded = @ \cup {m}, !.backdrop = d.touch,
                   !.focus = <<m, Toggle>>]

\* After a refused show the click goes on to the document, whose clearMenus takes
\* the backdrop away again.
toggle(d, m) ==
    LET n == clearMenus(d, {})
    IN  IF m \in d.open \cup d.refuses THEN n
        ELSE [n EXCEPT !.open = @ \cup {m}, !.expanded = @ \cup {m}, !.backdrop = d.touch,
                       !.focus = <<m, Toggle>>]

\* A click on a toggle that does its work goes no further; one on a disabled toggle
\* is a click anywhere else.
Clicked(d, m) == IF m \in d.disabled THEN clearMenus(d, {}) ELSE toggle(d, m)

\* keydown(), with the focus on a toggle or in its menu; from the menu escape
\* clicks the menu, which is a click anywhere else.
keydown(d, key) ==
    LET m == d.focus[1]
        index == d.focus[2]
        moved == CASE key = "up" /\ index > 0 -> index - 1
                   [] key = "down" /\ index < LastItem -> index + 1
                   [] OTHER -> IF index = Toggle THEN 0 ELSE index
    IN  CASE index = Toggle /\ m \in d.disabled -> d
          [] key = "escape" /\ m \in d.open /\ ~(index = Toggle /\ m \in d.disabled) ->
                LET n == [d EXCEPT !.focus = <<m, Toggle>>]
                IN  IF index = Toggle THEN Clicked(n, m) ELSE clearMenus(n, {})
          [] key # "escape" /\ m \notin d.open /\ ~(index = Toggle /\ m \in d.disabled) ->
                Clicked(d, m)
          [] key # "escape" /\ m \in d.open /\ ~(index = Toggle /\ m \in d.disabled) ->
                [d EXCEPT !.focus = <<m, moved>>]
          [] OTHER -> d

-----------------------------------------------------------------------------
(* Events.                                                                  *)

ClickToggle(m) == menus' = Clicked(menus, m)
ClickInput(m) == m \in menus.open /\ menus' = clearMenus(menus, {m})
ClickElsewhere == menus' = clearMenus(menus, {})
Tab(m) == m \notin menus.disabled /\ menus' = [menus EXCEPT !.focus = <<m, Toggle>>]
Keydown(key) == menus.focus # Nothing /\ menus' = keydown(menus, key)

Next == \/ \E m \in Menus : ClickToggle(m) \/ ClickInput(m) \/ Tab(m)
        \/ \E key \in {"up", "down", "escape", "space"} : Keydown(key)
        \/ ClickElsewhere

-----------------------------------------------------------------------------
(* Properties                                                               *)

\* However menus are clicked and walked through, at most one is open besides those
\* that the page keeps open, what is open says so, the focus is on a toggle or in
\* an open menu, and a touch screen is not covered by a backdrop when all menus
\* are closed, whatever the page refuses to show.
MenusAgree ==
    /\ Cardinality(menus.open \ menus.holds) <= 1
    /\ menus.expanded = menus.open
    /\ menus.focus # Nothing /\ menus.focus[2] # Toggle => menus.focus[1] \in menus.open
    /\ menus.backdrop => menus.open # {}
=============================================================================

--------------------------------- MODULE Affix ---------------------------------
(***************************************************************************)
(* Bootstrap's Affix (bootstrap.js): an element that scrolls with the page     *)
(* until it is pinned to the window, and is let go again near the page's end.  *)
(* Every scroll event, and a click a moment later, checks where it is.         *)
(***************************************************************************)
EXTENDS Integers

CONSTANTS Heights,       \* of the document
          WindowHeight,
          Height,        \* of the element
          Natural,       \* its place in the document
          Pinned,        \* its place in the window while it is pinned
          Tops, Bottoms, \* values of offset.top, offset.bottom
          NoOffset

VARIABLE affix

States == {"null", "top", "affix", "bottom"}

TypeOK ==
    affix \in [
      offsetTop : Tops \cup {NoOffset}, offsetBottom : Bottoms \cup {NoOffset},
      scrollHeight : Heights,
      scrollTop : Nat,
      affixed : States,
      top : Int]            \* the element's style, while it is let go

-----------------------------------------------------------------------------
\* position.top: by its class, and by the style that was set for it.
PositionTop(a) ==
    CASE a.affixed \in {"null", "top"} -> Natural
      [] a.affixed = "affix" -> a.scrollTop + Pinned
      [] a.affixed = "bottom" -> a.top

\* Variant: a pinned element is let go by the bottom of the window.
getStateByWindow(a) ==
    CASE a.offsetTop # NoOffset /\ a.affixed = "top" ->
            IF a.scrollTop < a.offsetTop THEN "top" ELSE "affix"
      [] a.affixed = "bottom" ->
            IF a.offsetTop # NoOffset
            THEN IF a.scrollTop + Pinned <= PositionTop(a) THEN "affix" ELSE "bottom"
            ELSE IF a.scrollTop + WindowHeight <= a.scrollHeight - a.offsetBottom
                 THEN "affix" ELSE "bottom"
      [] OTHER ->
            CASE a.offsetTop # NoOffset /\ a.scrollTop <= a.offsetTop -> "top"
              [] a.offsetBottom # NoOffset /\ ~(a.offsetTop # NoOffset /\ a.scrollTop <= a.offsetTop)
                 /\ a.scrollTop + WindowHeight >= a.scrollHeight - a.offsetBottom -> "bottom"
              [] OTHER -> "affix"

\* getState(); this.unpin is the place of a pinned element in the window.
getState(a) ==
    LET initializing == a.affixed = "null"
        collider == IF initializing THEN a.scrollTop + WindowHeight ELSE PositionTop(a) + Height
        atTop    == a.offsetTop # NoOffset /\ a.scrollTop <= a.offsetTop
    IN  CASE a.offsetTop # NoOffset /\ a.affixed = "top" ->
                IF a.scrollTop < a.offsetTop THEN "top" ELSE "affix"
          [] a.affixed = "bottom" /\ a.offsetTop # NoOffset ->
                IF a.scrollTop + Pinned <= PositionTop(a) THEN "affix" ELSE "bottom"
          [] a.affixed = "bottom" /\ a.offsetTop = NoOffset ->
                IF a.scrollTop + WindowHeight <= a.scrollHeight - a.offsetBottom
                THEN "affix" ELSE "bottom"
          [] a.affixed = "affix" \/ initializing ->
                CASE atTop -> "top"
                  [] ~atTop /\ a.offsetBottom # NoOffset
                     /\ collider >= a.scrollHeight - a.offsetBottom -> "bottom"
                  [] OTHER -> "affix"

\* checkPosition()
checkPosition(a) ==
    LET state == getState(a)
    IN  [a EXCEPT !.affixed = state,
                  !.top = IF state = "bottom" THEN a.scrollHeight - Height - a.offsetBottom ELSE 0]

Init ==
    \E h \in Heights, t \in Tops \cup {NoOffset}, b \in Bottoms \cup {NoOffset} :
    \E top \in 0 .. h - WindowHeight :
        affix = checkPosition([offsetTop |-> t, offsetBottom |-> b, scrollHeight |-> h,
                               scrollTop |-> top, affixed |-> "null", top |-> 0])

\* A scroll event, or the check after a click.
Scroll == \E top \in 0 .. affix.scrollHeight - WindowHeight :
              affix' = checkPosition([affix EXCEPT !.scrollTop = top])

\* The page's contents change.
Change == \E h \in Heights :
              affix' = [affix EXCEPT !.scrollHeight = h,
                                     !.scrollTop = IF @ > h - WindowHeight
                                                   THEN h - WindowHeight ELSE @]

Next == Scroll \/ Change

-----------------------------------------------------------------------------
(* Properties                                                               *)

\* Where the element belongs, but at the very places where one state ends and
\* another begins, and on a page too short to pin it in.
AtTop(a) == a.offsetTop # NoOffset /\ a.scrollTop < a.offsetTop
AtBottom(a) == a.offsetBottom # NoOffset
               /\ a.scrollTop + Pinned + Height > a.scrollHeight - a.offsetBottom
OnEdge(a) ==
    \/ a.scrollTop = a.offsetTop
    \/ a.offsetBottom # NoOffset
       /\ a.scrollTop + Pinned + Height = a.scrollHeight - a.offsetBottom
    \/ AtTop(a) /\ AtBottom(a)

\* Wherever the page is scrolled and however its height changes, two checks bring
\* the element to where it belongs, and a third leaves it there; at an edge every
\* check may move it to the other side.  (Without an offset.top an element that was
\* let go is pinned again only when the window leaves the page's end.)
AffixSettles ==
    LET twice == checkPosition(checkPosition(affix)) IN
    ~OnEdge(affix) =>
        /\ checkPosition(twice) = twice
        /\ AtTop(affix) => twice.affixed = "top"
        /\ AtBottom(affix) => twice.affixed = "bottom"
        /\ ~AtTop(affix) /\ ~AtBottom(affix) /\ affix.offsetTop # NoOffset =>
              twice.affixed = "affix"
=============================================================================

----------------------------- MODULE TipPlacement -----------------------------
(***************************************************************************)
(* Where Bootstrap's Tooltip puts its tip (bootstrap.js), in a page that      *)
(* scrolls, with the body for a viewport.  Coordinates are of the document     *)
(* unless said otherwise; the window shows what is between scrollTop and      *)
(* scrollTop + WindowHeight, and so across.                                   *)
(***************************************************************************)
EXTENDS Integers

CONSTANTS WindowWidth, WindowHeight, BodyWidths, BodyHeight,
          ElementWidth, ElementHeight,
          TipWidth, TipHeight,
          Step      \* bound: elements and scrolling are at multiples of it

VARIABLE place

Multiples(n) == {i \in 0 .. n : i % Step = 0}

Placements == {"top", "bottom", "left", "right"}

TypeOK ==
    place \in [bodyWidth : BodyWidths, left : Nat, top : Nat, scrollLeft : Nat, scrollTop : Nat,
               placement : Placements, auto : BOOLEAN]

Init ==
    \E w \in BodyWidths :
        place \in [bodyWidth : {w}, left : Multiples(w - ElementWidth),
                   top : Multiples(BodyHeight - ElementHeight),
                   scrollLeft : {0}, scrollTop : {0}, placement : Placements, auto : BOOLEAN]

\* The page is scrolled, and the tip shown anew.
Scroll ==
    \E x \in Multiples(place.bodyWidth - WindowWidth), y \in Multiples(BodyHeight - WindowHeight) :
        place' = [place EXCEPT !.scrollLeft = x, !.scrollTop = y]

-----------------------------------------------------------------------------
(* getPosition(): the rectangle of the window's coordinates, of which left     *)
(* and top are replaced by those of the document, and for the body width and  *)
(* height by those of the window.                                             *)

PositionOf(p) ==
    [left |-> p.left, top |-> p.top, width |-> ElementWidth, height |-> ElementHeight,
     right |-> p.left + ElementWidth - p.scrollLeft,
     bottom |-> p.top + ElementHeight - p.scrollTop]

PositionOfBody(p) ==
    [left |-> 0, top |-> 0, width |-> WindowWidth, height |-> WindowHeight,
     right |-> p.bodyWidth - p.scrollLeft, bottom |-> BodyHeight - p.scrollTop,
     scroll |-> p.scrollTop]

\* show(): the other side, if the tip would go over the body's edge.
Placed(p) ==
    LET pos == PositionOf(p)
        viewportDim == PositionOfBody(p)
    IN  IF ~p.auto THEN p.placement ELSE
        CASE p.placement = "bottom" /\ pos.bottom + TipHeight > viewportDim.bottom -> "top"
          [] p.placement = "top" /\ pos.top - TipHeight < viewportDim.top -> "bottom"
          [] p.placement = "right" /\ pos.right + TipWidth > viewportDim.width -> "left"
          [] p.placement = "left" /\ pos.left - TipWidth < viewportDim.left -> "right"
          [] OTHER -> p.placement

Across(pos) == pos.left + pos.width \div 2 - TipWidth \div 2
Along(pos) == pos.top + pos.height \div 2 - TipHeight \div 2

getCalculatedOffset(placement, pos) ==
    CASE placement = "bottom" -> [top |-> pos.top + pos.height, left |-> Across(pos)]
      [] placement = "top"    -> [top |-> pos.top - TipHeight, left |-> Across(pos)]
      [] placement = "left"   -> [top |-> Along(pos), left |-> pos.left - TipWidth]
      [] placement = "right"  -> [top |-> Along(pos), left |-> pos.left + pos.width]

\* Variant: the document's scrolling is forgotten.
DeltaUnscrolled(p, placement, pos) ==
    LET view == PositionOfBody(p) IN
    IF placement \in {"right", "left"}
    THEN [left |-> 0,
          top |-> IF pos.top < view.top THEN view.top - pos.top
                  ELSE IF pos.top + TipHeight > view.top + view.height
                  THEN view.top + view.height - (pos.top + TipHeight) ELSE 0]
    ELSE [top |-> 0, left |-> 0]

\* getViewportAdjustedDelta(), along the side the tip is on.
getViewportAdjustedDelta(p, placement, pos) ==
    LET view == PositionOfBody(p)
        topEdgeOffset == pos.top - view.scroll
        bottomEdgeOffset == pos.top - view.scroll + TipHeight
        rightEdgeOffset == pos.left + TipWidth
    IN  IF placement \in {"right", "left"}
        THEN [left |-> 0,
              top |-> IF topEdgeOffset < view.top THEN view.top - topEdgeOffset
                      ELSE IF bottomEdgeOffset > view.top + view.height
                      THEN view.top + view.height - bottomEdgeOffset ELSE 0]
        ELSE [top |-> 0,
              left |-> IF pos.left < view.left THEN view.left - pos.left
                       ELSE IF rightEdgeOffset > view.right
                       THEN view.left + view.width - rightEdgeOffset ELSE 0]

\* applyPlacement().
Offset(p) ==
    LET offset == getCalculatedOffset(Placed(p), PositionOf(p))
        delta  == getViewportAdjustedDelta(p, Placed(p), offset)
    IN  IF delta.left # 0 THEN [offset EXCEPT !.left = @ + delta.left]
                          ELSE [offset EXCEPT !.top = @ + delta.top]

-----------------------------------------------------------------------------
(* Properties                                                               *)

Meet(from, size, other, length) == from < other + length /\ other < from + size

\* A tip never covers its element, and what the window can show of it along its
\* side is shown: a tip at the left or right, wherever the page is scrolled; a
\* tip above or below in a page that is not wider than the window.  (In a wider
\* one coordinates of the document are compared with those of the window.)
TipFits ==
    LET at == Offset(place) IN
    /\ \/ ~Meet(at.left, TipWidth, place.left, ElementWidth)
       \/ ~Meet(at.top, TipHeight, place.top, ElementHeight)
    /\ IF Placed(place) \in {"left", "right"}
       THEN at.top >= place.scrollTop /\ at.top + TipHeight <= place.scrollTop + WindowHeight
       ELSE place.bodyWidth = WindowWidth =>
                at.left >= 0 /\ at.left + TipWidth <= WindowWidth
=============================================================================

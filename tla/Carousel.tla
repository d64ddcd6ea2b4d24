------------------------------- MODULE Carousel -------------------------------
(***************************************************************************)
(* Bootstrap's Carousel (bootstrap.js): a timer, keys, controls, indicators,  *)
(* the pointer and calls move one item after another.  The browser supports   *)
(* transitions; pause() triggers the end of one on the carousel itself, whose *)
(* items do not hear it.  A handler that prevents "slide" leaves the state.   *)
(***************************************************************************)
EXTENDS Naturals, Sequences, FiniteSetsExt

CONSTANTS LastItem,  \* the items are 0 .. LastItem
          MaxQueued  \* bound: to()s that wait for the end of a slide

VARIABLE carousel

Items == 0 .. LastItem

TypeOK ==
    carousel \in [
      wrap : BOOLEAN, animated : BOOLEAN, ride : BOOLEAN, scripted : BOOLEAN,
      made : BOOLEAN, option : BOOLEAN,        \* options.interval
      active : SUBSET Items, indicator : Items,
      sliding : BOOLEAN, paused : BOOLEAN,
      interval : BOOLEAN,                      \* the timer runs
      due : Seq([from : SUBSET Items, to : Items]),
      slid : 0 .. 2,                           \* events "slid" that are due
      queued : Seq(Items),
      hovered : BOOLEAN,
      restarted : BOOLEAN]                     \* history: made to cycle while hovered

Init ==
    carousel \in [
      wrap : BOOLEAN, animated : BOOLEAN, ride : BOOLEAN, scripted : BOOLEAN,
      made : {FALSE}, option : {TRUE}, active : {{0}}, indicator : {0},
      sliding : {FALSE}, paused : {FALSE}, interval : {FALSE}, due : {<<>>}, slid : {0},
      queued : {<<>>}, hovered : {FALSE}, restarted : {FALSE}]

-----------------------------------------------------------------------------
(* Methods.  An event as argument leaves this.paused alone.                 *)

Cycle(c, event) ==
    LET paused == c.paused /\ event
    IN  [c EXCEPT !.paused = paused, !.interval = c.option /\ ~paused,
                  !.restarted = @ \/ (c.hovered /\ ~event)]

Pause(c, event) == [c EXCEPT !.paused = @ \/ ~event, !.interval = FALSE]

getItemForDirection(c, direction) ==
    LET active == Min(c.active) IN
    IF direction = "prev"
    THEN IF active > 0 THEN active - 1 ELSE IF c.wrap THEN LastItem ELSE active
    ELSE IF active < LastItem THEN active + 1 ELSE IF c.wrap THEN 0 ELSE active

\* A carousel whose timer runs has it started anew.
Slide(c, next) ==
    IF next \in c.active THEN [c EXCEPT !.sliding = FALSE]
    ELSE LET n == [c EXCEPT !.indicator = next] IN
         [ IF c.animated
           THEN [n EXCEPT !.sliding = TRUE, !.due = Append(@, [from |-> c.active, to |-> next])]
           ELSE [n EXCEPT !.active = {next}, !.sliding = FALSE]
           EXCEPT !.paused = @ /\ ~c.interval ]

\* Variant: next() and prev() do not wait for a slide.
MoveAtOnce(c, direction) ==
    IF Len(c.due) > 1 THEN c ELSE Slide(c, getItemForDirection(c, direction))

\* next(), prev().
Move(c, direction) ==
    IF c.sliding THEN c ELSE Slide(c, getItemForDirection(c, direction))

To(c, pos) ==
    CASE c.sliding -> [c EXCEPT !.queued = Append(@, pos)]
      [] ~c.sliding /\ c.active = {pos} -> Cycle(Pause(c, FALSE), FALSE)
      [] OTHER -> Slide(c, pos)

Slids == INSTANCE CallbackList WITH Op <- To

\* new Carousel(), on first use.
Made(c, option) == IF c.made THEN c ELSE [c EXCEPT !.made = TRUE, !.option = option]

-----------------------------------------------------------------------------
(* Events.                                                                  *)

Room == Len(carousel.queued) < MaxQueued /\ carousel.slid < 2

\* $(..).carousel() and the page's load, for data-ride.
Plugin == /\ Room
          /\ carousel.scripted \/ (carousel.ride /\ ~carousel.made)
          /\ carousel' = Cycle(Pause(Made(carousel, TRUE), FALSE), FALSE)

\* A click on a control, and on an indicator: a carousel that is made by the
\* latter has no interval.
Control(direction) == Room /\ carousel' = Move(Made(carousel, TRUE), direction)
Indicator(pos) == Room /\ carousel' = To(Made(carousel, FALSE), pos)

Tick == Room /\ carousel.interval /\ carousel' = Move(carousel, "next")

\* The arrow keys.
Keydown(direction) == Room /\ carousel.made /\ carousel' = Move(carousel, direction)

MouseEnter ==
    /\ ~carousel.hovered
    /\ LET c == [carousel EXCEPT !.hovered = TRUE, !.restarted = ~carousel.made]
       IN  carousel' = IF c.made THEN Pause(c, TRUE) ELSE c

MouseLeave ==
    /\ carousel.hovered
    /\ LET c == [carousel EXCEPT !.hovered = FALSE, !.restarted = FALSE]
       IN  carousel' = IF c.made THEN Cycle(c, TRUE) ELSE c

CallPause == carousel.scripted /\ carousel.made /\ carousel' = Pause(carousel, FALSE)
CallCycle == carousel.scripted /\ carousel.made /\ carousel' = Cycle(carousel, FALSE)

\* The transition of the item that leaves; "slid" follows when the browser is idle.
TransitionEnd ==
    /\ Room /\ carousel.due # <<>>
    /\ LET slide == Head(carousel.due)
       IN  carousel' = [carousel EXCEPT !.active = (@ \ slide.from) \cup {slide.to},
                                        !.sliding = FALSE, !.due = Tail(@), !.slid = @ + 1]

Slid == /\ carousel.slid > 0
        /\ carousel' = Slids!Fire([carousel EXCEPT !.slid = @ - 1, !.queued = <<>>],
                                  carousel.queued)

Next == \/ \E direction \in {"prev", "next"} : Control(direction) \/ Keydown(direction)
        \/ \E pos \in Items : Indicator(pos)
        \/ Plugin \/ Tick \/ MouseEnter \/ MouseLeave \/ CallPause \/ CallCycle
        \/ TransitionEnd \/ Slid

-----------------------------------------------------------------------------
(* Properties                                                               *)

\* Whatever asks for an item while another slides in, one item is active, a slide
\* that has not ended is known to be under way, the indicators show the item that
\* is or will be active, and a carousel under the pointer does not go on by itself
\* unless it was told to since.
CarouselAgrees ==
    /\ Cardinality(carousel.active) = 1
    /\ carousel.sliding = (carousel.due # <<>>)
    /\ carousel.indicator = IF carousel.sliding THEN carousel.due[Len(carousel.due)].to ELSE Min(carousel.active)
    /\ carousel.interval => ~carousel.hovered \/ carousel.restarted
=============================================================================

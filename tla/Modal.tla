-------------------------------- MODULE Modal --------------------------------
(***************************************************************************)
(* Bootstrap's Modal (bootstrap.js): a dialog over a backdrop.  A method of   *)
(* the JavaScript object is an operator from the object's state to its next,  *)
(* since a page runs one handler at a time; the ends of the CSS transitions,  *)
(* on which the methods' callbacks wait, are actions.  A handler that         *)
(* prevents "show" or "hide" leaves the state as it is: a stuttering step.    *)
(***************************************************************************)
EXTENDS Naturals, Sequences, FiniteSets, Functions

CONSTANTS Backdrops,   \* bound: backdrop elements that exist at a time
          NoBackdrop

VARIABLE modal

Callbacks == {"opened", "hidden", "remove"}

TypeOK ==
    modal \in [
      fade : BOOLEAN, backdropOption : {"none", "plain", "static"}, keyboard : BOOLEAN,
      isShown : BOOLEAN,
      backdrop : Backdrops \cup {NoBackdrop},   \* this.$backdrop
      dom : SUBSET Backdrops,                   \* backdrops in the document
      due : [Backdrops -> Seq(Callbacks)],      \* callbacks on a backdrop's transition
      hiding : 0 .. Cardinality(Backdrops),     \* hideModal()s on the element's transition
      opening : BOOLEAN,                        \* the dialog slides in
      display : BOOLEAN, in : BOOLEAN,          \* the element's style and class
      open : BOOLEAN,                           \* body's class modal-open
      pad : 0 .. 1, originalBodyPad : 0 .. 1,   \* body's padding, in scrollbars
      trap : BOOLEAN, keys : BOOLEAN,           \* handlers: focusin, keydown
      clicks : BOOLEAN, ignoreBackdropClick : BOOLEAN,
      crossed : BOOLEAN]                        \* history: shown while still hiding

Init ==
    modal \in [
      fade : BOOLEAN, backdropOption : {"none", "plain", "static"}, keyboard : BOOLEAN,
      isShown : {FALSE}, backdrop : {NoBackdrop}, dom : {{}},
      due : {[b \in Backdrops |-> <<>>]}, hiding : {0}, opening : {FALSE},
      display : {FALSE}, in : {FALSE}, open : {FALSE}, pad : {0}, originalBodyPad : {0},
      trap : {FALSE}, keys : {FALSE}, clicks : {FALSE}, ignoreBackdropClick : {FALSE},
      crossed : {FALSE}]

-----------------------------------------------------------------------------
(* Methods.                                                                 *)

\* The callback of show(): the element appears, the focus is held in it.
Opened(m) == [m EXCEPT !.display = TRUE, !.in = TRUE, !.trap = TRUE, !.opening = m.fade]

\* The callback of hideModal(): the body as it was.
Hidden(m) == [m EXCEPT !.open = FALSE, !.pad = m.originalBodyPad]

\* removeBackdrop(): whatever backdrop is this.$backdrop by now.
RemoveBackdrop(m) ==
    [m EXCEPT !.dom = @ \ {m.backdrop}, !.backdrop = NoBackdrop,
              !.due = [b \in Backdrops |-> IF b = m.backdrop THEN <<>> ELSE @[b]]]

Call(m, callback) ==
    CASE callback = "opened" -> Opened(m)
      [] callback = "hidden" -> Hidden(m)
      [] callback = "remove" -> Hidden(RemoveBackdrop(m))

\* backdrop(callback): made for a modal that is shown, taken away for one that
\* is not; the callback runs when it has faded.
Backdrop(m, callback) ==
    IF m.isShown /\ m.backdropOption # "none"
    THEN LET b   == CHOOSE x \in Backdrops : x \notin m.dom
             new == [m EXCEPT !.backdrop = b, !.dom = @ \cup {b}, !.clicks = TRUE]
         IN  IF m.fade THEN [new EXCEPT !.due[b] = <<callback>>] ELSE Call(new, callback)
    ELSE IF ~m.isShown /\ m.backdrop # NoBackdrop
    THEN IF m.fade THEN [m EXCEPT !.due[m.backdrop] = Append(@, "remove")]
                   ELSE Call(m, "remove")
    ELSE Call(m, callback)

\* What a hide() has still to do.
StillHiding(m) == m.hiding > 0 \/ \E b \in Backdrops : "remove" \in Range(m.due[b])

\* Variant: the body's padding is measured after the class is set.
SetScrollbarLate(m) == [m EXCEPT !.originalBodyPad = m.pad, !.open = TRUE]

\* checkScrollbar(), setScrollbar(), then the class that takes the body's
\* scrollbar away; the page is longer than the window.
SetScrollbar(m) ==
    [m EXCEPT !.originalBodyPad = m.pad,
              !.pad = IF m.open THEN m.pad ELSE 1,
              !.open = TRUE]

Show(m) ==
    IF m.isShown THEN m
    ELSE Backdrop([SetScrollbar(m) EXCEPT !.isShown = TRUE, !.keys = m.keyboard \/ m.keys,
                                          !.clicks = TRUE,
                                          !.crossed = m.crossed \/ StillHiding(m)],
                  "opened")

HideModal(m) == Backdrop([m EXCEPT !.display = FALSE], "hidden")

Hide(m) ==
    IF ~m.isShown THEN m
    ELSE LET n == [m EXCEPT !.isShown = FALSE, !.keys = FALSE, !.trap = FALSE,
                            !.in = FALSE, !.clicks = FALSE]
         IN  IF m.fade THEN [n EXCEPT !.hiding = @ + 1] ELSE HideModal(n)

\* The callbacks of a backdrop's transition, and those of the element's.
HideAgain(m, i) == HideModal(m)
BackdropEnds == INSTANCE CallbackList WITH Op <- Call
ElementEnds == INSTANCE CallbackList WITH Op <- HideAgain

Toggle(m) == IF m.isShown THEN Hide(m) ELSE Show(m)

-----------------------------------------------------------------------------
(* Events.                                                                  *)

Room == /\ Cardinality(modal.dom) + modal.hiding + 1 < Cardinality(Backdrops)

\* $(..).modal(), modal("show").
CallShow == Room /\ modal' = Show(modal)

\* modal("hide"), or a click on what dismisses.
CallHide == modal' = Hide(modal)

\* A click on what toggles it, in the page or by modal("toggle").
Click == Room /\ modal' = Toggle(modal)

\* The escape key.
Keydown == modal.keys /\ modal' = Hide(modal)

\* The button goes down over the dialog and up over the backdrop: the click that
\* follows is not meant for the backdrop.
DragOut == /\ modal.clicks /\ modal.display
           /\ modal' = [modal EXCEPT !.ignoreBackdropClick = TRUE]

ClickBackdrop ==
    /\ modal.clicks /\ modal.display /\ modal.backdropOption # "none"
    /\ modal' = IF modal.ignoreBackdropClick
                THEN [modal EXCEPT !.ignoreBackdropClick = FALSE]
                ELSE IF modal.backdropOption = "static" THEN modal ELSE Hide(modal)

\* The transition of a backdrop, 150 ms.
BackdropEnd(b) ==
    /\ modal.due[b] # <<>>
    /\ modal' = BackdropEnds!Fire([modal EXCEPT !.due[b] = <<>>], modal.due[b])

\* The transition of the element, after a hide().  An element that is not
\* displayed yet has none, and the timeout of 300 ms stands in for it: a backdrop
\* that show() made before has faded in by then.
ElementEnd ==
    /\ modal.hiding > 0
    /\ modal.display \/ \A b \in Backdrops : "opened" \notin Range(modal.due[b])
    /\ modal' = ElementEnds!Fire([modal EXCEPT !.hiding = 0], [i \in 1 .. modal.hiding |-> i])

\* The transition of the dialog: the event "shown".
DialogEnd == modal.opening /\ modal' = [modal EXCEPT !.opening = FALSE]

Next == \/ CallShow \/ CallHide \/ Click \/ Keydown \/ DragOut \/ ClickBackdrop
        \/ ElementEnd \/ DialogEnd \/ \E b \in Backdrops : BackdropEnd(b)

-----------------------------------------------------------------------------
(* Properties                                                               *)

AtRest == modal.hiding = 0 /\ \A b \in Backdrops : modal.due[b] = <<>>

\* However show(), hide(), keys and clicks follow one another, once transitions
\* are over a modal that is shown has one backdrop and the page's scrolling, and
\* one that is hidden leaves the page as it found it, unless show() came while a
\* hide() was still under way: then backdrops are orphaned.
ModalWhole ==
    AtRest /\ ~modal.crossed =>
        /\ {modal.isShown} = {modal.display, modal.open}
        /\ modal.dom = IF modal.isShown /\ modal.backdropOption # "none"
                       THEN {modal.backdrop} ELSE {}
        /\ modal.dom = {} <=> modal.backdrop = NoBackdrop
        /\ modal.pad = IF modal.isShown THEN 1 ELSE 0
        /\ modal.keys = (modal.isShown /\ modal.keyboard)
        /\ modal.isShown => modal.in /\ modal.trap /\ modal.clicks
=============================================================================

------------------------------- MODULE Tooltip -------------------------------
(***************************************************************************)
(* Bootstrap's Tooltip, and the Popover that is made of it (bootstrap.js): a  *)
(* tip that pointer, focus and clicks call for, with a delay and with a        *)
(* transition on whose end the callbacks of show() and hide() wait.  A        *)
(* handler that prevents an event leaves the state as it is.                  *)
(***************************************************************************)
EXTENDS Naturals, Sequences, FiniteSetsExt

CONSTANT MaxDue   \* bound: callbacks that wait for one transition

VARIABLE tip

Kinds == {"tooltip", "popover"}

\* The default triggers of the two.
Triggers == [tooltip |-> {"hover", "focus"}, popover |-> {"click"}]

Callbacks == {"shown", "hidden", "destroyed"}

TypeOK ==
    tip \in [
      kind : Kinds, animation : BOOLEAN, delay : BOOLEAN, title : BOOLEAN, content : BOOLEAN,
      scripted : BOOLEAN,                          \* the page calls methods, too
      enabled : BOOLEAN, hoverState : {"null", "in", "out"},
      inState : SUBSET {"click", "hover", "focus"},
      timeout : {"none", "show", "hide"},
      attached : BOOLEAN, in : BOOLEAN, fade : BOOLEAN,   \* the tip's place and classes
      describedby : BOOLEAN,
      due : Seq(Callbacks),
      gone : BOOLEAN,
      hurried : BOOLEAN]                           \* history: see Turn

New(options) ==
    [kind |-> options.kind, animation |-> options.animation, delay |-> options.delay,
     title |-> options.title, content |-> options.content, scripted |-> options.scripted,
     enabled |-> TRUE, hoverState |-> "null", inState |-> {}, timeout |-> "none",
     attached |-> FALSE, in |-> FALSE, fade |-> FALSE, describedby |-> FALSE,
     due |-> <<>>, gone |-> FALSE, hurried |-> FALSE]

Init == \E options \in [kind : Kinds, animation : BOOLEAN, delay : BOOLEAN, title : BOOLEAN,
                        content : BOOLEAN, scripted : BOOLEAN] :
            tip = New(options)

-----------------------------------------------------------------------------
(* Methods.                                                                 *)

HasContent(t) == t.title \/ (t.kind = "popover" /\ t.content)

\* Variant: the tip goes whatever was asked for since.
HiddenAnyway(t) == [t EXCEPT !.attached = FALSE, !.describedby = FALSE]

\* What hide() leaves to do: the tip goes unless it is called for again.
Hidden(t) == [t EXCEPT !.attached = @ /\ t.hoverState = "in", !.describedby = FALSE]

Destroyed(t) == [Hidden(t) EXCEPT !.attached = FALSE, !.gone = TRUE]

Hide(t, callback) ==
    LET n == [t EXCEPT !.in = FALSE]
    IN  [ IF t.fade THEN [n EXCEPT !.due = Append(@, callback)]
          ELSE IF callback = "hidden" THEN Hidden(n) ELSE Destroyed(n)
          EXCEPT !.hoverState = "null" ]

Leave(t) ==
    IF t.inState # {} THEN t
    ELSE LET n == [t EXCEPT !.hoverState = "out"]
         IN  IF t.delay THEN [n EXCEPT !.timeout = "hide"]
                        ELSE Hide([n EXCEPT !.timeout = "none"], "hidden")

\* What show() leaves to do: a leave() that came in the meantime.
Shown(t) ==
    LET n == [t EXCEPT !.hoverState = "null"]
    IN  IF t.hoverState = "out" THEN Leave(n) ELSE n

Show(t) ==
    IF ~HasContent(t) \/ ~t.enabled THEN t
    ELSE LET n == [t EXCEPT !.describedby = TRUE, !.attached = TRUE, !.in = TRUE,
                            !.fade = t.animation]
         IN  IF t.animation THEN [n EXCEPT !.due = Append(@, "shown")] ELSE Shown(n)

Enter(t) ==
    IF t.in \/ t.hoverState = "in" THEN [t EXCEPT !.hoverState = "in"]
    ELSE LET n == [t EXCEPT !.hoverState = "in"]
         IN  IF t.delay THEN [n EXCEPT !.timeout = "show"]
                        ELSE Show([n EXCEPT !.timeout = "none"])

\* toggle() without an event.
Toggle(t) == IF t.in THEN Leave(t) ELSE Enter(t)

\* A callback; the object of a tip that is gone has no element: it fails.
Call(t, callback) ==
    IF t.gone THEN t
    ELSE CASE callback = "shown" -> Shown(t)
           [] callback = "hidden" -> Hidden(t)
           [] callback = "destroyed" -> Destroyed(t)

Ends == INSTANCE CallbackList WITH Op <- Call

-----------------------------------------------------------------------------
(* Events.                                                                  *)

Room == ~tip.gone /\ Len(tip.due) < MaxDue

\* Pointer, focus or click while a show() and a hide() both end: the end of the
\* first resets hoverState, and that of the second then takes the tip.
Turn(inState) == [tip EXCEPT !.inState = inState,
                             !.hurried = @ \/ {"shown", "hidden"} \subseteq Range(tip.due)]

\* mouseenter, focusin; mouseleave, focusout; click.
In(how) == /\ Room /\ how \in Triggers[tip.kind] \ tip.inState
           /\ tip' = Enter(Turn(tip.inState \cup {how}))

Out(how) == /\ Room /\ how \in Triggers[tip.kind] \cap tip.inState
            /\ tip' = Leave(Turn(tip.inState \ {how}))

Click == /\ Room /\ "click" \in Triggers[tip.kind]
         /\ LET t == Turn(SymDiff(tip.inState, {"click"}))
            IN  tip' = IF t.inState # {} THEN Enter(t) ELSE Leave(t)

Timeout ==
    /\ Room /\ tip.timeout # "none"
    /\ LET t == [tip EXCEPT !.timeout = "none"]
       IN  tip' = CASE tip.timeout = "show" /\ tip.hoverState = "in" -> Show(t)
                    [] tip.timeout = "hide" /\ tip.hoverState = "out" -> Hide(t, "hidden")
                    [] OTHER -> t

TransitionEnd == /\ tip.due # <<>>
                 /\ tip' = Ends!Fire([tip EXCEPT !.due = <<>>], tip.due)

\* The page's own calls.
CallShow == Room /\ tip.scripted /\ tip' = Show(tip)
CallHide == Room /\ tip.scripted /\ tip' = Hide(tip, "hidden")
CallToggle == Room /\ tip.scripted /\ tip' = Toggle(tip)
CallToggleEnabled == Room /\ tip.scripted /\ tip' = [tip EXCEPT !.enabled = ~@]
CallDestroy == Room /\ tip.scripted /\ tip' = Hide([tip EXCEPT !.timeout = "none"], "destroyed")

\* $(..).tooltip(), after destroy().
Plugin == tip.gone /\ tip' = New(tip)

Next == \/ \E how \in {"hover", "focus"} : In(how) \/ Out(how)
        \/ Click \/ Timeout \/ TransitionEnd
        \/ CallShow \/ CallHide \/ CallToggle \/ CallToggleEnabled \/ CallDestroy \/ Plugin

-----------------------------------------------------------------------------
(* Properties                                                               *)

AtRest == tip.due = <<>> /\ tip.timeout = "none"

\* However pointer, focus and clicks come and go while tips fade and timers run,
\* in the end a tip with content is shown exactly while something calls for it,
\* unless it was called for or dismissed while an earlier show() and hide() both
\* ended; and what is
\* not shown describes nothing.
TipShown ==
    AtRest /\ ~tip.scripted /\ HasContent(tip) /\ ~tip.hurried =>
        /\ {tip.inState # {}} = {tip.attached, tip.in}
        /\ tip.describedby => tip.attached
=============================================================================

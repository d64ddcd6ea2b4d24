---------------------------------- MODULE Tab ----------------------------------
(***************************************************************************)
(* Bootstrap's Tab (bootstrap.js): the tab that is chosen is marked at once,  *)
(* its pane comes when the pane before it has faded.  Tabs are not in menus;   *)
(* a handler that prevents "show" or "hide" leaves the state.                 *)
(***************************************************************************)
EXTENDS Naturals, Sequences

CONSTANTS Tabs,    \* tabs, and their panes
          MaxDue   \* bound: callbacks that wait for one transition

VARIABLE tabs

Activation == [from : SUBSET Tabs, to : Tabs]

TypeOK ==
    tabs \in [
      fade : BOOLEAN,
      tab : Tabs,                               \* the li with class active
      active : SUBSET Tabs, in : SUBSET Tabs,   \* the panes' classes
      due : [Tabs -> Seq(Activation)],
      hurried : BOOLEAN]                        \* history: chosen while panes changed

Init ==
    \E t \in Tabs :
        tabs \in [fade : BOOLEAN, tab : {t}, active : {{t}}, in : {{t}},
                  due : {[p \in Tabs |-> <<>>]}, hurried : {FALSE}]

-----------------------------------------------------------------------------
AtRest == \A p \in Tabs : tabs.due[p] = <<>>

\* Variant: only the tab's own pane before is replaced.
ActivateFrom(s, activation) ==
    LET from == CHOOSE p \in activation.from : TRUE
    IN  [s EXCEPT !.active = (@ \ {from}) \cup {activation.to},
                  !.in = IF s.fade THEN @ \cup {activation.to} ELSE @]

\* activate(): its function next().
Activate(s, activation) ==
    [s EXCEPT !.active = (@ \ activation.from) \cup {activation.to},
              !.in = IF s.fade THEN @ \cup {activation.to} ELSE @]

Ends == INSTANCE CallbackList WITH Op <- Activate

\* show(), a click or a call: next() waits for the end of a transition of every
\* pane that is active.
Show(t) ==
    /\ t # tabs.tab
    /\ \A p \in Tabs : Len(tabs.due[p]) < MaxDue
    /\ LET activation == [from |-> tabs.active, to |-> t]
           s == [tabs EXCEPT !.tab = t, !.hurried = ~AtRest, !.in = @ \ tabs.active]
       IN  tabs' = IF tabs.fade
                   THEN [s EXCEPT !.due = [p \in Tabs |-> IF p \in tabs.active
                                                          THEN Append(@[p], activation) ELSE @[p]]]
                   ELSE Activate(s, activation)

TransitionEnd(p) ==
    /\ tabs.due[p] # <<>>
    /\ tabs' = Ends!Fire([tabs EXCEPT !.due[p] = <<>>], tabs.due[p])

Next == \E t \in Tabs : Show(t) \/ TransitionEnd(t)

-----------------------------------------------------------------------------
(* Properties                                                               *)

\* In the end the pane of the chosen tab is the only one shown, and is not faded
\* out, whatever a hurried choice before had left behind; a choice made while
\* panes still change leaves two of them.
TabShowsPane ==
    AtRest /\ ~tabs.hurried => tabs.active = {tabs.tab} /\ (tabs.fade => tabs.tab \in tabs.in)
=============================================================================

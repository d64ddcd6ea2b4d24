------------------------------- MODULE Collapse -------------------------------
(***************************************************************************)
(* Bootstrap's Collapse (bootstrap.js): panels that open and close, by        *)
(* themselves or as an accordion whose panels name their parent.  An object   *)
(* is made for a panel when it is first used, and some are dropped again; a   *)
(* callback belongs to the object that asked for it.  The browser supports    *)
(* transitions; a handler that prevents an event leaves the state.            *)
(***************************************************************************)
EXTENDS Naturals, Sequences, FiniteSetsExt

CONSTANTS Panels,  \* numbers, in the document's order
          MaxDue   \* bound: callbacks that wait for one transition

VARIABLE panels

Classes == {"collapse", "collapsing", "in"}
Due == [panel : Panels, what : {"shown", "hidden"}, live : BOOLEAN]

TypeOK ==
    panels \in [
      parent : BOOLEAN, scripted : BOOLEAN,
      class : [Panels -> Classes],
      collapsed : [Panels -> BOOLEAN],                \* the trigger's class
      data : [Panels -> {"none", "idle", "transitioning"}],
      grouped : [Panels -> BOOLEAN],                  \* the object has a $parent
      due : [Panels -> Seq(Due)],
      hurried : BOOLEAN]                              \* history: see Used

Init ==
    \E initial \in {{}} \cup {{p} : p \in Panels} :
        panels \in [
          parent : BOOLEAN, scripted : BOOLEAN,
          class : {[p \in Panels |-> IF p \in initial THEN "in" ELSE "collapse"]},
          collapsed : {[p \in Panels |-> p \notin initial]},
          data : {[p \in Panels |-> "none"]}, grouped : {[p \in Panels |-> FALSE]},
          due : {[p \in Panels |-> <<>>]}, hurried : {FALSE}]

-----------------------------------------------------------------------------
(* Methods, of the panels' objects.                                         *)

\* hide(), of every panel of a set that is open and has no transition.
Hide(s, ps) ==
    LET closing == {p \in ps : s.data[p] # "transitioning" /\ s.class[p] = "in"}
    IN  [s EXCEPT !.class = [p \in Panels |-> IF p \in closing THEN "collapsing" ELSE @[p]],
                  !.collapsed = [p \in Panels |-> p \in closing \/ @[p]],
                  !.data = [p \in Panels |-> IF p \in closing THEN "transitioning" ELSE @[p]],
                  !.due = [p \in Panels |-> IF p \in closing
                                            THEN Append(@[p], [panel |-> p, what |-> "hidden", live |-> TRUE])
                                            ELSE @[p]]]

\* new Collapse(), for some panels; the triggers of a group, or the panels' own,
\* are set by what is open now.
Made(s, ps, grouped) ==
    LET qs == IF grouped THEN Panels ELSE ps
    IN  [s EXCEPT !.data = [p \in Panels |-> IF p \in ps THEN "idle" ELSE @[p]],
                  !.grouped = [p \in Panels |-> IF p \in ps THEN grouped ELSE @[p]],
                  !.collapsed = [p \in Panels |-> IF p \in qs THEN s.class[p] # "in" ELSE @[p]]]

\* Plugin.call(actives, "hide"): objects are made for those that have none, and
\* know no parent.
PluginHide(s, ps) == Hide(Made(s, {p \in ps : s.data[p] = "none"}, FALSE), ps)

\* data("bs.collapse", null): what is under way ends for no object any more.
Drop(s, ps) ==
    [s EXCEPT !.data = [p \in Panels |-> IF p \in ps THEN "none" ELSE @[p]],
              !.due = [p \in Panels |-> IF p \in ps
                                        THEN [i \in DOMAIN @[p] |-> [@[p][i] EXCEPT !.live = FALSE]]
                                        ELSE @[p]]]

\* The second half of show().
Open(s, p) ==
    [s EXCEPT !.class[p] = "collapsing", !.collapsed[p] = FALSE, !.data[p] = "transitioning",
              !.due[p] = Append(@, [panel |-> p, what |-> "shown", live |-> TRUE])]

\* Variant: another panel's transition does not matter.
ShowAnyway(s, p, seen) ==
    IF s.data[p] = "transitioning" \/ s.class[p] = "in" THEN s
    ELSE LET actives == IF s.grouped[p] THEN {q \in Panels : s.class[q] \in {"in", "collapsing"}}
                        ELSE {}
         IN  Open(PluginHide(s, actives), p)

\* show(): the others of an accordion are hidden; the first of them, by the object
\* it is seen to have, answers for them all.
Show(s, p, seen) ==
    IF s.data[p] = "transitioning" \/ s.class[p] = "in" THEN s
    ELSE LET actives == IF s.grouped[p] THEN {q \in Panels : s.class[q] \in {"in", "collapsing"}}
                        ELSE {}
             first   == seen[Min(actives)]
             hidden  == PluginHide(s, actives)
         IN  CASE actives = {} -> Open(s, p)
               [] actives # {} /\ first = "transitioning" -> s
               [] actives # {} /\ first = "none" -> Open(Drop(hidden, actives), p)
               [] actives # {} /\ first = "idle" -> Open(hidden, p)

Toggle(s, p, seen) == IF s.class[p] = "in" THEN Hide(s, {p}) ELSE Show(s, p, seen)

-----------------------------------------------------------------------------
(* Events.                                                                  *)

Room == \A p \in Panels : Len(panels.due[p]) < MaxDue

\* The first use of a panel while another moves goes wrong: the trigger of one
\* that is opening is marked collapsed, and a panel that closes without an object
\* is not seen to move.
Used(p, grouped) ==
    IF panels.data[p] # "none" THEN panels
    ELSE [Made(panels, {p}, grouped) EXCEPT
              !.hurried = @ \/ \E q \in Panels : panels.class[q] = "collapsing"]

\* A click on a panel's trigger: an object that has to be made toggles before the
\* panel has it.
Click(p) == Room /\ panels' = Toggle(Used(p, panels.parent), p, panels.data)

\* The page's own calls: an object they make knows no parent.
CallShow(p) == /\ Room /\ panels.scripted
               /\ LET s == Used(p, FALSE) IN panels' = Show(s, p, s.data)
CallHide(p) == Room /\ panels.scripted /\ panels' = Hide(Used(p, FALSE), {p})

\* A callback of a panel, for the object that is still the panel's or for one that
\* is not.
Complete(s, callback) ==
    LET p == callback.panel
    IN  [s EXCEPT !.class[p] = IF callback.what = "shown" THEN "in" ELSE "collapse",
                  !.data[p] = IF callback.live THEN "idle" ELSE @]

Ends == INSTANCE CallbackList WITH Op <- Complete

TransitionEnd(p) == /\ panels.due[p] # <<>>
                    /\ panels' = Ends!Fire([panels EXCEPT !.due[p] = <<>>], panels.due[p])

Next == \E p \in Panels : Click(p) \/ CallShow(p) \/ CallHide(p) \/ TransitionEnd(p)

-----------------------------------------------------------------------------
(* Properties                                                               *)

AtRest == \A p \in Panels : panels.due[p] = <<>>

\* However fast panels are clicked, none is left half open; and unless the page
\* calls methods itself, or a panel was first used while another moved, triggers
\* tell in the end what is open, and at most one panel of an accordion is.
PanelsAgree ==
    AtRest =>
        /\ \A p \in Panels : panels.class[p] # "collapsing" /\ panels.data[p] # "transitioning"
        /\ ~panels.hurried /\ ~panels.scripted =>
              /\ \A p \in Panels : panels.collapsed[p] = (panels.class[p] # "in")
              /\ panels.parent => Cardinality({p \in Panels : panels.class[p] = "in"}) <= 1
=============================================================================

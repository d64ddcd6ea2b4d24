------------------------------- MODULE ScrollSpy -------------------------------
(***************************************************************************)
(* Bootstrap's ScrollSpy (bootstrap.js): the link of the section the window   *)
(* has reached is active.  Where sections are is read anew when the page's     *)
(* height has changed, by a process() that still uses what was read before; a  *)
(* page whose sections move while its height stays is not read anew.          *)
(***************************************************************************)
EXTENDS Integers, Sequences

CONSTANTS Layouts,      \* pages: the height, at least the window's, and the
                        \* sections' tops, in their order
          WindowHeight,
          Offset        \* options.offset

VARIABLE spy

NoTarget == 0

Positions == UNION {0 .. l.height - WindowHeight : l \in Layouts}
Targets == {NoTarget} \cup UNION {DOMAIN l.tops : l \in Layouts}

TypeOK ==
    spy \in [
      layout : Layouts, scrollTop : Positions,
      offsets : {l.tops : l \in Layouts},          \* with the targets, their indexes
      scrollHeight : {l.height : l \in Layouts},
      activeTarget : Targets,
      fresh : BOOLEAN]      \* history: the last process() found nothing to read anew,
                            \* and nothing has changed or been read since

-----------------------------------------------------------------------------
\* Variant: the bottom of the page is like any other place.
NoBottom(s) ==
    LET scrollTop == s.scrollTop + Offset
        reached   == {i \in DOMAIN s.offsets : scrollTop >= s.offsets[i]}
    IN  IF s.activeTarget # NoTarget /\ s.offsets # <<>> /\ scrollTop < s.offsets[1] THEN NoTarget
        ELSE IF reached = {} THEN s.activeTarget
        ELSE CHOOSE i \in reached : i + 1 \notin reached

\* What process() makes active: the last section at the page's bottom, none above
\* the first, the one reached between, and otherwise no other.
Activated(s) ==
    LET scrollTop == s.scrollTop + Offset
        maxScroll == Offset + s.layout.height - WindowHeight
        reached(i) == /\ scrollTop >= s.offsets[i]
                      /\ i = Len(s.offsets) \/ scrollTop < s.offsets[i + 1]
        first == s.offsets # <<>> /\ scrollTop < s.offsets[1]
    IN  CASE scrollTop >= maxScroll -> Len(s.offsets)
          [] scrollTop < maxScroll /\ s.activeTarget # NoTarget /\ first -> NoTarget
          [] scrollTop < maxScroll /\ \E i \in DOMAIN s.offsets : reached(i) ->
                CHOOSE i \in DOMAIN s.offsets : reached(i)
          [] OTHER -> s.activeTarget

refresh(s) == [s EXCEPT !.offsets = s.layout.tops, !.scrollHeight = s.layout.height]

\* process(): activates by the offsets it had on entry.
process(s) ==
    [ IF s.scrollHeight # s.layout.height THEN refresh(s) ELSE s
      EXCEPT !.activeTarget = Activated(s), !.fresh = s.scrollHeight = s.layout.height ]

\* new ScrollSpy(): refresh(), then process().
Init ==
    \E l \in Layouts : \E top \in 0 .. l.height - WindowHeight :
        spy = process([layout |-> l, scrollTop |-> top, offsets |-> l.tops,
                       scrollHeight |-> l.height, activeTarget |-> NoTarget, fresh |-> TRUE])

\* The scroll event, at a new place or at the same.
Scroll == \E top \in 0 .. spy.layout.height - WindowHeight :
              spy' = process([spy EXCEPT !.scrollTop = top])

\* The page's contents change; the window may be scrolled by it, without an event
\* that has come yet.
Change == \E l \in Layouts :
              spy' = [spy EXCEPT !.layout = l, !.fresh = FALSE,
                                 !.scrollTop = IF @ > l.height - WindowHeight
                                               THEN l.height - WindowHeight ELSE @]

\* scrollspy("refresh").
CallRefresh == spy' = [refresh(spy) EXCEPT !.fresh = @ /\ spy.offsets = spy.layout.tops]

Next == Scroll \/ Change \/ CallRefresh

-----------------------------------------------------------------------------
(* Properties                                                               *)

\* Sections that have moved on a page that is as high as it was read.
Unnoticed == spy.offsets # spy.layout.tops /\ spy.scrollHeight = spy.layout.height

\* The active section is the last one the window has reached, or the page's last
\* at its bottom: from the second scroll event after the page's height has changed,
\* which uses what the first has read, and from the first one after a refresh; not
\* while sections have moved unnoticed.  (A page that has lost all its sections keeps
\* the last one active.)
SpyFollows ==
    spy.fresh /\ ~Unnoticed /\ spy.layout.tops # <<>> =>
        LET tops   == spy.layout.tops
            target == spy.activeTarget
        IN  IF spy.scrollTop + WindowHeight = spy.layout.height THEN target = Len(tops)
            ELSE \A i \in DOMAIN tops : spy.scrollTop + Offset >= tops[i] <=> i <= target
=============================================================================

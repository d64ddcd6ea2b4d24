----------------------------- MODULE CountSignForm -----------------------------
(***************************************************************************)
(* The contract countersign form (d.js, its earlier form old.js, and ds.js):  *)
(* what a chosen department and a chosen approval document put in the form's   *)
(* hidden fields.  Calls to the server are synchronous: a handler is one step, *)
(* whose answers may fail.  The server's data are constants.                   *)
(***************************************************************************)
EXTENDS Naturals, Sequences

CONSTANTS Departments,
          OrgKind,    \* per department, what its code says of it
          ByHeart,    \* departments that, or whose parents, old.js lists by their ids
          Officers,   \* per department, the roles somebody has
          Docs,       \* approval documents
          None        \* an empty field

VARIABLE form

Scripts == {"d", "old"}
Roles == {"leader", "manager", "dep", "sub"}
OrgKinds == {"huangshi", "changde", "subsidiary", "travel", "other"}
Flags == {"is_cg", "is_yy", "is_hs", "is_cd", "is_cgb"}

\* Of which of the departments asked for a user is a member.
Users == {{}, {"is_cg"}, {"is_yy", "is_hs"}, {"is_yy", "is_cd"}, {"is_cgb"}}

Officer == [department : Departments, role : Roles] \cup {None}

TypeOK ==
    form \in [
      script : Scripts, mode : {"add", "update", "applicant", "view"},
      user : Users, flags : [Flags -> BOOLEAN \cup {None}],
      financial : {None, "huangshi", "changde"},   \* and the purchaser with him
      unanswered : SUBSET Flags,                   \* history: calls that failed
      department : Departments \cup {None},
      type : 0 .. 3 \cup {None}, settlement : 0 .. 1 \cup {None},
      leader : Officer, manager : Officer, depleader : Officer, subleader : Officer,
      cut : BOOLEAN,                               \* history: a choice lost an answer
      haveDoc : BOOLEAN, readonly : BOOLEAN,
      docNo : Docs \cup {None, "typed"}, docId : Docs \cup {None}]

Edited == form.mode \in {"add", "update"}

-----------------------------------------------------------------------------
(* The page is loaded.                                                      *)

Calls == <<"is_cg", "is_yy", "is_hs", "is_cd", "is_cgb">>

\* The inputs of a call are those whose name contains its own.
Inputs(call) == IF call = "is_cg" THEN {"is_cg", "is_cgb"} ELSE {call}

Financial(f, call) ==
    CASE call = "is_hs" -> IF call \in f.user THEN "huangshi" ELSE "changde"
      [] call = "is_cd" -> IF call \in f.user THEN "changde" ELSE "huangshi"
      [] OTHER -> f.financial

\* One checkUserDepart.
Asked(f, call) ==
    IF call \in f.unanswered THEN f
    ELSE [f EXCEPT !.flags = [n \in Flags |-> IF n \in Inputs(call) THEN call \in f.user ELSE @[n]],
                   !.financial = Financial(f, call)]

Asks == INSTANCE CallbackList WITH Op <- Asked

checkUserDeparts(f) == Asks!Fire(f, Calls)

\* A document makes its field writable in a form that is edited.
Loaded(f) == IF f.mode \in {"add", "update"}
             THEN checkUserDeparts([f EXCEPT !.readonly = ~f.haveDoc])
             ELSE f

\* A form is new, or one that was saved before it was given a department.
Init ==
    \E script \in Scripts, mode \in {"add", "update", "applicant", "view"}, user \in Users,
       haveDoc \in BOOLEAN, doc \in Docs, unanswered \in {{}} \cup {{call} : call \in Flags} :
        /\ mode = "add" => ~haveDoc
        /\ mode \in {"applicant", "view"} => unanswered = {}
        /\ form = Loaded([
             script |-> script, mode |-> mode, user |-> user,
             flags |-> [n \in Flags |-> None], financial |-> None, unanswered |-> unanswered,
             department |-> None, type |-> None, settlement |-> None, leader |-> None,
             manager |-> None, depleader |-> None, subleader |-> None, cut |-> FALSE,
             haveDoc |-> haveDoc, readonly |-> TRUE,
             docNo |-> IF haveDoc THEN doc ELSE None, docId |-> IF haveDoc THEN doc ELSE None])

-----------------------------------------------------------------------------
(* A department is chosen.                                                  *)

\* The first of the roles that somebody has: a || b || ...
FirstOf(d, roles) ==
    LET held == {i \in DOMAIN roles : roles[i] \in Officers[d]}
    IN  IF held = {} THEN None
        ELSE [department |-> d, role |-> roles[CHOOSE i \in held : \A k \in held : i <= k]]

Or(officer, old) == IF officer = None THEN old ELSE officer

\* checkBussniessLeader() with its answer: nobody but the leader is taken out of
\* the form when the department has no such person.
SetLeaders(f) ==
    LET d == f.department
    IN  [f EXCEPT !.leader = FirstOf(d, <<"leader", "manager", "dep">>),
                  !.manager = Or(FirstOf(d, <<"manager", "sub", "dep">>), @),
                  !.depleader = Or(FirstOf(d, <<"dep">>), @),
                  !.subleader = Or(FirstOf(d, <<"sub", "dep">>), @)]

\* dapart_type by the department's code.
Type(d) == CASE OrgKind[d] = "huangshi" -> 3
             [] OrgKind[d] = "changde" -> 2
             [] OrgKind[d] \in {"subsidiary", "travel"} -> 1
             [] OTHER -> 0

PreSettlement(d) == IF OrgKind[d] = "travel" THEN 1 ELSE 0

\* Variant: a settlement in advance is never taken back.
checkcompanySticky(f) ==
    [f EXCEPT !.type = Type(f.department),
              !.settlement = IF f.script = "d" /\ PreSettlement(f.department) = 1 THEN 1 ELSE @]

\* checkcompany() with its answer.
checkcompany(f) ==
    [f EXCEPT !.type = Type(f.department),
              !.settlement = IF f.script = "d" THEN PreSettlement(f.department) ELSE @]

\* depcallback() up to its calls: the department, or none.  The older script has a
\* list of the departments that settle in advance, whatever their codes are.
ChosenBefore(f, d) == [f EXCEPT !.department = d, !.cut = FALSE,
                                !.settlement = IF d \in ByHeart THEN 1 ELSE 0]

Chosen(f, d) == IF f.script = "old" THEN ChosenBefore(f, d)
                ELSE [f EXCEPT !.department = d, !.cut = FALSE]

Missed(f) == [f EXCEPT !.cut = TRUE]

\* Its two calls.  Of the leaders, the server may know nothing, or the call may
\* fail; or it gives null for a person that is missing, whose split() throws
\* before anything is set and before checkcompany() is called.
depcallback(d) ==
    LET f == Chosen(form, d)
    IN  \E leaders \in {"known", "unknown", "null"}, answered \in BOOLEAN :
          /\ d = None \/ "dep" \in Officers[d] => leaders # "null"
          /\ form' = CASE d = None -> f
                       [] d # None /\ leaders = "null" -> Missed(f)
                       [] OTHER -> LET g == IF leaders = "known" THEN SetLeaders(f) ELSE Missed(f)
                                   IN  IF answered THEN checkcompany(g) ELSE Missed(g)

-----------------------------------------------------------------------------
(* The approval document.                                                   *)

\* The document's id stays.
ChangeHaveDoc == /\ Edited
                 /\ form' = [form EXCEPT !.haveDoc = ~@, !.docNo = None, !.readonly = form.haveDoc]

\* The dialog's button; without a selected row it throws and sets nothing.
PickDoc == /\ Edited /\ ~form.readonly
           /\ \E doc \in Docs : form' = [form EXCEPT !.docNo = doc, !.docId = doc]

TypeDocNo == /\ Edited /\ ~form.readonly
             /\ form' = [form EXCEPT !.docNo = "typed"]

Next == \/ \E d \in Departments \cup {None} : depcallback(d)
        \/ ChangeHaveDoc \/ PickDoc \/ TypeDocNo

-----------------------------------------------------------------------------
(* Properties                                                               *)

beforeSubmit ==
    /\ form.mode # "view" => form.department # None
    /\ form.haveDoc => form.docNo # None

OfDepartment(officer) == officer # None /\ officer.department = form.department

\* What the workflow behind the form is steered by belongs to the department
\* chosen last, whatever was chosen before, in a form that may be submitted:
\* unless an answer was lost since the choice, or the department has nobody that
\* could stand in.  The older script's settlement is that of its list, whatever was
\* lost; where list and codes differ, the two scripts do.
DepartmentRight ==
    beforeSubmit /\ form.department # None =>
        /\ ~form.cut =>
             /\ form.type = Type(form.department)
             /\ form.script = "d" => (form.settlement = 1) = (OrgKind[form.department] = "travel")
             /\ "dep" \in Officers[form.department] =>
                  \A o \in {form.leader, form.manager, form.depleader, form.subleader} : OfDepartment(o)
        /\ form.script = "old" => (form.settlement = 1) = (form.department \in ByHeart)

\* A form that says it has a document names one, and its link leads there
\* unless the number was written by hand.
DocRight ==
    beforeSubmit /\ Edited =>
        /\ form.docNo # None => form.haveDoc
        /\ form.docNo \in Docs => form.docId = form.docNo

\* The flags are the user's, and the reviewer is that of his company, as far as
\* the calls that decide them were answered.
UserRight ==
    Edited =>
        /\ \A n \in Flags \ form.unanswered : form.flags[n] = (n \in form.user)
        /\ "is_cd" \notin form.unanswered =>
             \A n \in {"is_hs", "is_cd"} \cap form.user :
                form.financial = (IF n = "is_hs" THEN "huangshi" ELSE "changde")

FormRight == DepartmentRight /\ DocRight /\ UserRight
=============================================================================

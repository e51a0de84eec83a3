------------------------------ MODULE MCOpsQueue ------------------------------
(* Instances of CaseReports and OpsQueue for TLC. *)
EXTENDS CaseReports

Case(status, priority, due, created) ==
  [status |-> status, priority |-> priority, label |-> "high", due |-> due, created |-> created]

\* An overdue case; the same, created later, due later, less urgent or decided
MCQueueRow == {Case("submitted", "medium", 1, 1), Case("submitted", "medium", 1, 2),
               Case("submitted", "medium", 2, 1), Case("submitted", "low", 1, 1),
               Case("approved", "medium", 1, 1)}

\* No filter, a status that is in use, and a risk label nobody knows with a
\* priority
MCFilter == {[status |-> None, priority |-> None, label |-> None],
             [status |-> "submitted", priority |-> None, label |-> "severe"]}

\* No page, a page that is no number (both None), too small, right, too large
MCRawPage == {None, -1, 1, 2, 7}

\* Both days, the first, and a window that ends before it begins
MCWindow == {[from |-> 1, to |-> 2], [from |-> 1, to |-> 1], [from |-> 2, to |-> 1]}
================================================================================

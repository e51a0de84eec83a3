------------------------------- MODULE CaseReports -------------------------------
(***************************************************************************)
(* The report of the analytics endpoint, beside the operations queue: three     *)
(* queries over the cases created in a window of days, outside a transaction,   *)
(* while cases are created and changed.                                       *)
(*                                                                          *)
(* Readers do not disturb each other: the model lets a report start between two *)
(* listings.                                                                 *)
(***************************************************************************)
EXTENDS OpsQueue

CONSTANT Window      \* bound: the windows [from, to] asked for

ASSUME WindowAssumption == Window \subseteq [from : Nat, to : Nat]

VARIABLES
  query,       \* the query of the report that comes next, or how it ended
  window,      \* ReturnMetricsWindow, None between reports
  byStatus, byPriority, reported,   \* the answers of the queries so far
  known        \* the cases there were when the report began

report == <<query, window, byStatus, byPriority, reported, known>>

\* The sum of a dictionary of counts: as many pairs as its keys have units
TotalOf(D) == Cardinality(UNION {{k} \X (1..D[k]) : k \in DOMAIN D})

NoCounts(S) == [s \in S |-> 0]
CasesNow == {c \in CaseId : table[c] # None}

\* The queryset: the days are inclusive
InWindow == {c \in CasesNow : window.from <= table[c].created /\ table[c].created <= window.to}

\* faulty: the total is counted before the priorities
NextQuery_Fault == [status |-> "total", total |-> "priority", priority |-> "answered"][query]

NextQuery == [status |-> "priority", priority |-> "total", total |-> "answered"][query]

ReportInit ==
  /\ Init
  /\ query = "none"
  /\ window = None
  /\ byStatus = NoCounts(Status) /\ byPriority = NoCounts(Priority) /\ reported = 0
  /\ known = {}

\* The pages shown before are forgotten
AskReport ==
  /\ at = "idle" /\ query = "none"
  /\ window' \in Window
  /\ query' = IF window'.from > window'.to THEN "refused" ELSE "status"
  /\ known' = CasesNow
  /\ shown' = <<>>
  /\ UNCHANGED <<table, now, reader, stable, byStatus, byPriority, reported>>

CountStatuses ==
  /\ query = "status"
  /\ byStatus' = [s \in Status |-> Cardinality({c \in InWindow : table[c].status = s})]
  /\ query' = NextQuery
  /\ UNCHANGED <<vars, window, byPriority, reported, known>>

CountPriorities ==
  /\ query = "priority"
  /\ byPriority' = [p \in Priority |-> Cardinality({c \in InWindow : table[c].priority = p})]
  /\ query' = NextQuery
  /\ UNCHANGED <<vars, window, byStatus, reported, known>>

CountReported ==
  /\ query = "total"
  /\ reported' = Cardinality(InWindow)
  /\ query' = NextQuery
  /\ UNCHANGED <<vars, window, byStatus, byPriority, known>>

\* 200 with the counts, or 400 for a window that ends before it begins
AnswerReport ==
  /\ query \in {"answered", "refused"}
  /\ query' = "none"
  /\ byStatus' = NoCounts(Status) /\ byPriority' = NoCounts(Priority) /\ reported' = 0
  /\ known' = {}
  /\ window' = None
  /\ UNCHANGED vars

ReportNext == AskReport \/ CountStatuses \/ CountPriorities \/ CountReported \/ AnswerReport

QueueAndReports ==
  \/ /\ ChangeCase \/ CreateCase \/ PassTime
     /\ UNCHANGED report
  \/ /\ query = "none"
     /\ StartListing \/ CountCases \/ FetchPage \/ CountTotal \/ CountByStatus \/ Answer
     /\ UNCHANGED report
  \/ ReportNext

ReportSpec == ReportInit /\ [][QueueAndReports]_<<vars, report>>

--------------------------------------------------------------------------------
(* Properties *)

\* A report accounts for no case twice and loses none: by status it counts at most
\* what it counts by priority, and that at most its total, and the sums are equal
\* unless a case was created since the report began, however many cases changed
\* status and priority between the queries (analytics/services/return_metrics.py).
ReportAddsUp ==
  query = "answered" =>
    /\ TotalOf(byStatus) <= TotalOf(byPriority)
    /\ TotalOf(byPriority) <= reported
    /\ CasesNow = known => TotalOf(byStatus) = reported
================================================================================

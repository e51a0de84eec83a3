------------------------------- MODULE CaseRules -------------------------------
(***************************************************************************)
(* The pure rules of a return case: statuses, priorities, the transition    *)
(* table and the SLA windows.  Shared by the abstract lifecycle, the        *)
(* detailed workflow, the operations queue and the demo seeding.            *)
(***************************************************************************)
EXTENDS Integers

CONSTANT None       \* Python's None: a value that was not supplied

\* ReturnCase.Status
Status == {"submitted", "in_review", "waiting_customer", "waiting_merchant",
           "approved", "rejected"}

\* ReturnCase.Priority
Priority == {"low", "medium", "high", "urgent"}

\* STATUS_SUBMITTED and PRIORITY_NORMAL of services/cases.py
InitialStatus == "submitted"
InitialPriority_Normal == "normal"      \* faulty: the name the SLA table uses
InitialPriority == "medium"

\* _ALLOWED_STATUS_TRANSITIONS
AllowedTransitions(s) ==
  CASE s = "submitted" -> Status \ {"submitted"}
    [] s = "in_review" -> Status \ {"submitted", "in_review"}
    [] s \in {"waiting_customer", "waiting_merchant"} ->
         {"in_review", "approved", "rejected"}
    [] OTHER -> {}

\* TERMINAL_STATUSES, without "cancelled", which no case can have
Terminal == {"approved", "rejected"}

\* SLA_WINDOWS: hours to the resolution deadline.  The table's key is "normal",
\* while the model's default priority is "medium".
ResolutionHours == [low |-> 240, normal |-> 120, high |-> 72, urgent |-> 24]

\* get_sla_window: a priority without a window of its own gets the normal one
SlaHours(p) ==
  ResolutionHours[IF p \in DOMAIN ResolutionHours THEN p ELSE "normal"]

\* The columns of a ReturnCase row the workflow changes.  sla stands for
\* sla_due_at - last_status_changed_at, in hours: both are set from "now" in
\* the same save.
Row == [status : Status, priority : Priority, sla : {SlaHours(p) : p \in Priority}]

\* The row create_return_case inserts
NewRow == [status   |-> InitialStatus,
           priority |-> InitialPriority,
           sla      |-> SlaHours(InitialPriority)]

\* A case_created or status_updated event: its place in the order of creation
\* (created_at, id) and what its payload says of the case.  A case_created
\* event has no previous status and priority.
StatusEvent == [at : Nat,
                from : Status \cup {None}, to : Status,
                fromPriority : Priority \cup {None}, toPriority : Priority]

CreatedEvent(at) ==
  [at |-> at, from |-> None, to |-> InitialStatus,
   fromPriority |-> None, toPriority |-> InitialPriority]

\* e is the latest event of E
Latest(e, E) == e \in E /\ \A f \in E : f.at <= e.at

\* f comes right after e in E
Follows(f, e, E) ==
  /\ e \in E /\ f \in E /\ e.at < f.at
  /\ \A g \in E : g.at <= e.at \/ f.at <= g.at

================================================================================

----------------------------- MODULE CaseLifecycle -----------------------------
(***************************************************************************)
(* What the workflow API promises of a case (docs/api/returns-workflow.md    *)
(* and the transition table of services/cases.py): it is created submitted   *)
(* and medium; an update moves it along the table, may set its priority,     *)
(* renews its deadline and is logged, all in one atomic step.                *)
(*                                                                          *)
(* What the services keep of this when updates of one case overlap is the   *)
(* action Overtake: the move is made from a state the case has had.          *)
(*                                                                          *)
(* The module is written to be implemented: an event is any element that     *)
(* the step adds to the log, later than those already there.                 *)
(***************************************************************************)
EXTENDS CaseRules

CONSTANT Case

VARIABLES
  row, log,
  overtaken   \* the events of the log whose move was not made from the row

vars == <<row, log, overtaken>>

Init == /\ row = [c \in Case |-> None]
        /\ log = [c \in Case |-> {}]
        /\ overtaken = [c \in Case |-> {}]

\* The step adds e, the latest event, to the log of c
Logged(c, e) ==
  /\ \A f \in log[c] : f.at < e.at
  /\ log' = [log EXCEPT ![c] = @ \cup {e}]

Create(c) ==
  /\ row[c] = None
  /\ row' = [row EXCEPT ![c] = NewRow]
  /\ \E e \in log'[c] : e = CreatedEvent(e.at) /\ Logged(c, e)
  /\ UNCHANGED overtaken

Move(c, s, p) ==
  /\ row[c] # None
  /\ s \in AllowedTransitions(row[c].status)
  /\ row' = [row EXCEPT ![c] = [status |-> s, priority |-> p, sla |-> SlaHours(p)]]
  /\ \E e \in log'[c] :
       /\ Logged(c, e)
       /\ e = [at |-> e.at, from |-> row[c].status, to |-> s,
               fromPriority |-> row[c].priority, toPriority |-> p]
  /\ UNCHANGED overtaken

\* From a status and a priority the case has had, to s; the deadline is the one
\* of p, and the priority becomes p unless p was only kept
Overtake(c, s, p) ==
  /\ row[c] # None
  /\ \E e \in log'[c], f, g \in log[c] :
       /\ Logged(c, e)
       /\ e = [at |-> e.at, from |-> f.to, to |-> s,
               fromPriority |-> g.toPriority, toPriority |-> p]
       /\ s \in AllowedTransitions(f.to)
       /\ \E q \in {p} \cup (IF p = g.toPriority THEN {row[c].priority} ELSE {}) :
            row' = [row EXCEPT ![c] = [status |-> s, priority |-> q, sla |-> SlaHours(p)]]
       /\ overtaken' = [overtaken EXCEPT ![c] = @ \cup {e}]

Next ==
  \E c \in Case :
    Create(c) \/ \E s \in Status, p \in Priority : Move(c, s, p) \/ Overtake(c, s, p)

Spec == Init /\ [][Next]_vars
================================================================================

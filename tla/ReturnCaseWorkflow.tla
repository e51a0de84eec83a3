-------------------------- MODULE ReturnCaseWorkflow --------------------------
(***************************************************************************)
(* The case workflow of returns/services, run by the threads of the         *)
(* application server against one PostgreSQL database.                      *)
(*                                                                          *)
(* Operators named X_Fault are X with a mistake the code could have made.    *)
(* No action uses them: they show that the properties can fail.              *)
(*                                                                          *)
(* A request is served by one worker thread: the view loads the case in a   *)
(* statement of its own (no transaction is open yet), then calls a service  *)
(* that runs in transaction.atomic.  Isolation is READ COMMITTED: every     *)
(* statement reads what is committed when it runs, plus what the            *)
(* transaction wrote itself.  No query locks the case it reads; an UPDATE   *)
(* holds its row, and update_or_create holds the RiskScore row, until the   *)
(* transaction ends.                                                        *)
(***************************************************************************)
EXTENDS CaseRules, Sequences, FiniteSets

CONSTANTS
  Worker,           \* server threads (GUNICORN_WORKERS * GUNICORN_THREADS)
  Case,             \* order references; each names at most one case
  Doc,              \* primary keys of EvidenceDocument rows
  RequestedStatus,  \* the statuses clients ask for: a bound on the input
  RequestedPriority,\* the priorities clients ask for: a bound on the input
  MaxRequests       \* bound on the requests of one behaviour

ASSUME InputAssumption ==
  /\ RequestedStatus \subseteq Status
  /\ RequestedPriority \subseteq Priority
  /\ MaxRequests \in Nat

VARIABLES
  \* committed tables
  row,      \* ReturnCase, None while the reference names no case
  history,  \* CaseEvent rows of type case_created and status_updated
  docs,     \* EvidenceDocument rows
  activity, \* CaseEvent rows of the other types an actor causes
  notes,    \* number of CaseNote rows
  risk,     \* the RiskScore row, None while there is none
  scored,   \* CaseEvent rows of type risk_scored
  \* row locks
  caseLock, \* the worker whose transaction wrote the case row, or None
  riskLock, \* the worker whose transaction holds the RiskScore row, or None
  \* worker threads
  pc,       \* where the worker is in its request
  req,      \* the request it serves
  held,     \* the ReturnCase instance in its memory
  txn,      \* what its open transaction has written
  clock,    \* per case, created_at of the event inserted last
  arrived,  \* number of requests so far
  \* history variables: they record, and no guard reads them
  overtaken,\* the times of the status events of a case whose UPDATE was decided
            \* on an instance that was not the row any more
  late,     \* workers whose case got a document of another request after they
            \* had begun to read its features
  outdated  \* cases whose score was stored by a late worker, or that got a
            \* document since whose rescoring failed

tables  == <<row, history, docs, activity, notes, risk, scored>>
locks   == <<caseLock, riskLock>>
records == <<overtaken, late, outdated>>
vars    == <<tables, locks, pc, req, held, txn, clock, arrived, records>>

--------------------------------------------------------------------------------
(* Values *)

UploadRole == {"customer", "merchant", "ops", "admin"}
Document == [id : Doc, role : UploadRole]

\* extract_case_features: of what can change after creation, the features
\* depend on the documents of the customer and of the merchant alone.  Each of
\* its three queries of documents is a statement of its own: evidence_count,
\* hours_to_first_customer_evidence and merchant_document_count.
Query == {"evidence", "first", "merchant"}
Matching(q, D) == {d \in D : d.role = IF q = "merchant" THEN "merchant" ELSE "customer"}
Read == [Query -> SUBSET Document]

\* What the queries find in D
Features(D) == [q \in Query |-> Matching(q, D)]

\* The scorer _get_scoring_result ended up with
Scorer == {"artifact", "placeholder"}
Trigger == {"case_created", "status_updated", "document_uploaded"}

\* A RiskScore row: the scorer that ran, and the features its score, label and
\* reason_codes were computed from
RiskRow == [model : Scorer, features : Read]
ScoredEvent == [at : Nat, triggeredBy : Trigger, result : RiskRow]

ActivityType == {"note_added", "document_uploaded", "merchant_response_submitted"}
Activity == [type : ActivityType, doc : Doc \cup {None}]

StatusKind == {"api_status", "case_update", "request_info"}
UploadKind == {"upload", "merchant_response"}
Kind == {"create", "add_note"} \cup StatusKind \cup UploadKind

Request == [kind : Kind, case : Case, target : Status \cup {None},
            priority : Priority \cup {None}, role : UploadRole \cup {None},
            file : BOOLEAN]

\* What a transaction has written and not yet committed: the case row, the
\* inserted rows, the RiskScore row; and the features it has read
EmptyTxn == [row |-> None, event |-> None, docs |-> {}, activity |-> <<>>,
             note |-> FALSE, read |-> Features({}), risk |-> None, scored |-> None]

Txn == [row : Row \cup {None}, event : StatusEvent \cup {None},
        docs : SUBSET Document, activity : Seq(Activity), note : BOOLEAN, read : Read,
        risk : RiskRow \cup {None}, scored : ScoredEvent \cup {None}]

ASSUME NoneAssumption ==
  /\ None \notin Worker \cup Case \cup Doc \cup Status \cup Priority \cup UploadRole
  /\ None \notin Row \cup StatusEvent \cup RiskRow \cup ScoredEvent \cup Request

\* The points of score_case_and_persist: its queries, update_or_create and the
\* insert of the event
Scoring == Query \cup {"persist", "log"}
PC == {"idle", "insert", "form", "service", "commit"} \cup Scoring

CaseOf(w) == req[w].case

\* score_case_and_persist(triggered_by=...)
TriggerOf(kind) == CASE kind = "create"        -> "case_created"
                     [] kind \in StatusKind    -> "status_updated"
                     [] OTHER                  -> "document_uploaded"

--------------------------------------------------------------------------------
Init ==
  /\ row      = [c \in Case |-> None]
  /\ history  = [c \in Case |-> {}]
  /\ docs     = [c \in Case |-> {}]
  /\ activity = [c \in Case |-> <<>>]
  /\ notes    = [c \in Case |-> 0]
  /\ risk     = [c \in Case |-> None]
  /\ scored   = [c \in Case |-> {}]
  /\ caseLock = [c \in Case |-> None]
  /\ riskLock = [c \in Case |-> None]
  /\ pc       = [w \in Worker |-> "idle"]
  /\ req      = [w \in Worker |-> None]
  /\ held     = [w \in Worker |-> None]
  /\ txn      = [w \in Worker |-> EmptyTxn]
  /\ clock    = [c \in Case |-> 0]
  /\ arrived  = 0
  /\ overtaken = [c \in Case |-> {}]
  /\ late      = {}
  /\ outdated  = {}

--------------------------------------------------------------------------------
(* Requests arrive *)

\* A worker picks up request r: its view starts and, unless the request
\* creates the case, loads the row (get_object_or_404) into memory.
Arrive(w, r, next) ==
  /\ pc[w] = "idle"
  /\ arrived < MaxRequests
  /\ arrived' = arrived + 1
  /\ req' = [req EXCEPT ![w] = r]
  /\ held' = [held EXCEPT ![w] = row[r.case]]
  /\ pc' = [pc EXCEPT ![w] = next]
  /\ UNCHANGED <<tables, locks, txn, clock, records>>

ARequest(kind, c) == [kind |-> kind, case |-> c, target |-> None,
                      priority |-> None, role |-> None, file |-> FALSE]

\* POST /api/returns/: the serializer does not look the reference up
StartCreate(w, c) == Arrive(w, ARequest("create", c), "insert")

\* PATCH /api/returns/{id}/status/: any status, with or without a priority
StartApiStatus(w, c) ==
  /\ row[c] # None
  /\ \E s \in RequestedStatus, p \in RequestedPriority \cup {None} :
       Arrive(w, [ARequest("api_status", c) EXCEPT !.target = s, !.priority = p],
              "service")

\* The case-update form of the console: both fields are always sent
StartCaseUpdate(w, c) ==
  /\ row[c] # None
  /\ \E s \in RequestedStatus, p \in RequestedPriority :
       Arrive(w, [ARequest("case_update", c) EXCEPT !.target = s, !.priority = p],
              "form")

\* The request-info form of the console: a waiting status, a note, no priority
StartRequestInfo(w, c) ==
  /\ row[c] # None
  /\ \E s \in {"waiting_customer", "waiting_merchant"} \cap RequestedStatus :
       Arrive(w, [ARequest("request_info", c) EXCEPT !.target = s], "service")

StartAddNote(w, c) ==
  /\ row[c] # None
  /\ Arrive(w, ARequest("add_note", c), "service")

StartUpload(w, c) ==
  /\ row[c] # None
  /\ \E r \in UploadRole :
       Arrive(w, [ARequest("upload", c) EXCEPT !.role = r, !.file = TRUE], "service")

\* The merchant portal: a note, a file or both.  It asks for the merchant group
\* only, and _actor_role puts admin and ops before merchant.
StartMerchantResponse(w, c) ==
  /\ row[c] # None
  /\ \E r \in {"merchant", "ops", "admin"}, f \in BOOLEAN :
       Arrive(w, [ARequest("merchant_response", c) EXCEPT !.role = r, !.file = f],
              "service")

--------------------------------------------------------------------------------
(* Row locks, and the end of a request *)

\* A statement that writes the case row, or the RiskScore row, waits for the
\* transaction that wrote it last
CaseRowFree_Fault(w) == TRUE    \* faulty: the save commits on its own
CaseRowFree(w) == caseLock[CaseOf(w)] = None
RiskRowFree(w) == riskLock[CaseOf(w)] = None

\* created_at of the next event of a case
Tick(c) == clock[c] + 1
Ticked(c) == clock' = [clock EXCEPT ![c] = Tick(c)]

\* faulty: a connection that stays idle in its transaction
Freed_Fault(lock, w) == lock

\* A row lock lasts until the transaction ends
Freed(lock, w) == [c \in Case |-> IF lock[c] = w THEN None ELSE lock[c]]

\* The worker is free again: what it wrote and did not commit is gone, and its
\* row locks with it.
Release(w) ==
  /\ pc' = [pc EXCEPT ![w] = "idle"]
  /\ req' = [req EXCEPT ![w] = None]
  /\ held' = [held EXCEPT ![w] = None]
  /\ txn' = [txn EXCEPT ![w] = EmptyTxn]
  /\ caseLock' = Freed(caseLock, w)
  /\ riskLock' = Freed(riskLock, w)
  /\ UNCHANGED <<clock, arrived>>

Rollback(w) == Release(w) /\ UNCHANGED <<tables, records>>

\* The thread dies, times out or loses its connection: PostgreSQL rolls back
Crash(w) ==
  /\ pc[w] # "idle"
  /\ Rollback(w)

--------------------------------------------------------------------------------
(* create_return_case *)

\* INSERT waits for a transaction that has inserted the same reference
InsertCase(w) ==
  /\ pc[w] = "insert"
  /\ CaseRowFree(w)
  /\ row[CaseOf(w)] = None
  /\ caseLock' = [caseLock EXCEPT ![CaseOf(w)] = w]
  /\ held' = [held EXCEPT ![w] = NewRow]
  /\ txn' = [txn EXCEPT ![w].row = NewRow,
                        ![w].event = CreatedEvent(Tick(CaseOf(w)))]
  /\ Ticked(CaseOf(w))
  /\ pc' = [pc EXCEPT ![w] = "evidence"]
  /\ UNCHANGED <<tables, riskLock, req, arrived, records>>

\* The reference is taken: IntegrityError on the unique order_reference
DuplicateReference(w) ==
  /\ pc[w] = "insert"
  /\ CaseRowFree(w)
  /\ row[CaseOf(w)] # None
  /\ Rollback(w)

--------------------------------------------------------------------------------
(* update_return_case_status *)

\* faulty: any change of status passes
TransitionAllowed_Fault(w) == req[w].target # held[w].status

\* Both the form and the service judge the instance in memory
TransitionAllowed(w) == req[w].target \in AllowedTransitions(held[w].status)

\* OpsCaseDetailView.post, case-update: the form is validated against the case
\* loaded first, then the case is read again
ReloadCase(w) ==
  /\ pc[w] = "form"
  /\ TransitionAllowed(w)
  /\ held' = [held EXCEPT ![w] = row[CaseOf(w)]]
  /\ pc' = [pc EXCEPT ![w] = "service"]
  /\ UNCHANGED <<tables, locks, req, txn, clock, arrived, records>>

InvalidForm(w) ==
  /\ pc[w] = "form"
  /\ ~TransitionAllowed(w)
  /\ Rollback(w)

\* The instance after the service has set its fields
Updated(w) ==
  LET p == IF req[w].priority = None THEN held[w].priority ELSE req[w].priority
  IN  [status |-> req[w].target, priority |-> p, sla |-> SlaHours(p)]

\* faulty: save() of all fields; and sla_due_at missing from update_fields
SavedRow_Fault(w) == Updated(w)
SavedRow_NoSla(w) == [Updated(w) EXCEPT !.sla = row[CaseOf(w)].sla]

\* UPDATE of update_fields: the priority column is written only if one was given
SavedRow(w) ==
  [Updated(w) EXCEPT
     !.priority = IF req[w].priority = None THEN row[CaseOf(w)].priority ELSE @]

\* faulty: the previous values are read after the instance was changed
UpdatedEvent_Fault(w) ==
  [at |-> Tick(CaseOf(w)), from |-> Updated(w).status, to |-> Updated(w).status,
   fromPriority |-> Updated(w).priority, toPriority |-> Updated(w).priority]

UpdatedEvent(w) ==
  [at |-> Tick(CaseOf(w)), from |-> held[w].status, to |-> Updated(w).status,
   fromPriority |-> held[w].priority, toPriority |-> Updated(w).priority]

\* The transition is checked on the instance in memory; the UPDATE waits for
\* the row lock and writes onto whatever row is committed by then.
UpdateCase(w) ==
  /\ pc[w] = "service"
  /\ req[w].kind \in StatusKind
  /\ TransitionAllowed(w)
  /\ CaseRowFree(w)
  /\ caseLock' = [caseLock EXCEPT ![CaseOf(w)] = w]
  /\ txn' = [txn EXCEPT ![w].row = SavedRow(w),
                        ![w].event = UpdatedEvent(w),
                        ![w].note = req[w].kind = "request_info"]
  /\ held' = [held EXCEPT ![w] = Updated(w)]
  /\ Ticked(CaseOf(w))
  /\ overtaken' = IF held[w] = row[CaseOf(w)] THEN overtaken
                   ELSE [overtaken EXCEPT ![CaseOf(w)] = @ \cup {Tick(CaseOf(w))}]
  /\ pc' = [pc EXCEPT ![w] = "evidence"]
  /\ UNCHANGED <<tables, riskLock, req, arrived, late, outdated>>

\* ReturnCaseWorkflowError: the view answers 400
RejectTransition(w) ==
  /\ pc[w] = "service"
  /\ req[w].kind \in StatusKind
  /\ ~TransitionAllowed(w)
  /\ Rollback(w)

--------------------------------------------------------------------------------
(* add_case_note, upload_document_for_case, submit_merchant_response *)

Happened(type, d) == [type |-> type, doc |-> d]

AddNote(w) ==
  /\ pc[w] = "service"
  /\ req[w].kind = "add_note"
  /\ txn' = [txn EXCEPT ![w].note = TRUE,
                        ![w].activity = <<Happened("note_added", None)>>]
  /\ pc' = [pc EXCEPT ![w] = "commit"]
  /\ UNCHANGED <<tables, locks, req, held, clock, arrived, records>>

\* A key no row uses.  (The database also skips the keys of inserts that were
\* rolled back, which makes no difference to what is stored.)
FreshDoc(d) ==
  /\ \A c \in Case : \A e \in docs[c] : e.id # d
  /\ \A v \in Worker : \A e \in txn[v].docs : e.id # d

InsertDocument(w) ==
  /\ pc[w] = "service"
  /\ req[w].kind \in UploadKind
  /\ req[w].file
  /\ \E d \in Doc :
       /\ FreshDoc(d)
       /\ txn' = [txn EXCEPT
                    ![w].docs = {[id |-> d, role |-> req[w].role]},
                    ![w].activity = <<Happened("document_uploaded", d)>>]
  /\ pc' = [pc EXCEPT ![w] = "evidence"]
  /\ UNCHANGED <<tables, locks, req, held, clock, arrived, records>>

\* A response without a file uploads nothing and scores nothing
NoteOnlyResponse(w) ==
  /\ pc[w] = "service"
  /\ req[w].kind = "merchant_response"
  /\ ~req[w].file
  /\ pc' = [pc EXCEPT ![w] = "commit"]
  /\ UNCHANGED <<tables, locks, req, held, txn, clock, arrived, records>>

--------------------------------------------------------------------------------
(* score_case_and_persist *)

\* faulty: scoring before the upload is inserted
VisibleDocs_Fault(w) == docs[CaseOf(w)]

\* READ COMMITTED: the committed rows and the transaction's own
VisibleDocs(w) == docs[CaseOf(w)] \cup txn[w].docs

AfterQuery == [evidence |-> "first", first |-> "merchant", merchant |-> "persist"]

\* extract_case_features, one query; documents may be committed between them
ReadFeature(w) ==
  /\ pc[w] \in Query
  /\ txn' = [txn EXCEPT
               ![w].read = [@ EXCEPT ![pc[w]] = Matching(pc[w], VisibleDocs(w))]]
  /\ late' = IF pc[w] = "evidence" THEN late \ {w} ELSE late
  /\ pc' = [pc EXCEPT ![w] = AfterQuery[pc[w]]]
  /\ UNCHANGED <<tables, locks, req, held, clock, arrived, overtaken, outdated>>

\* The scorer rates what was read, then update_or_create locks the RiskScore
\* row, or waits for who holds it, and writes the values computed before
PersistRisk(w) ==
  /\ pc[w] = "persist"
  /\ RiskRowFree(w)
  /\ riskLock' = [riskLock EXCEPT ![CaseOf(w)] = w]
  /\ \E m \in Scorer :
       txn' = [txn EXCEPT ![w].risk = [model |-> m, features |-> txn[w].read]]
  /\ pc' = [pc EXCEPT ![w] = "log"]
  /\ UNCHANGED <<tables, caseLock, req, held, clock, arrived, records>>

\* ... and the risk_scored event
LogRisk(w) ==
  /\ pc[w] = "log"
  /\ txn' = [txn EXCEPT ![w].scored =
                [at |-> Tick(CaseOf(w)), triggeredBy |-> TriggerOf(req[w].kind),
                 result |-> txn[w].risk]]
  /\ Ticked(CaseOf(w))
  /\ pc' = [pc EXCEPT ![w] = "commit"]
  /\ UNCHANGED <<tables, locks, req, held, arrived, records>>

\* faulty: every caller of the scorer catches its errors
Swallows_Fault(kind) == TRUE

\* Only an upload catches a scoring error
Swallows(kind) == kind \in UploadKind

\* A query, the scorer or a write of score_case_and_persist raises: the whole
\* service call is rolled back ...
ScoringFails(w) ==
  /\ pc[w] \in Scoring
  /\ ~Swallows(req[w].kind)
  /\ Rollback(w)

\* faulty: no savepoint; and the handler deletes the document it could not score
AfterSwallow_Fault(t) == t
AfterSwallow_NoDocs(t) == [t EXCEPT !.docs = {}]

\* What the transaction holds after the savepoint of score_case_and_persist is
\* rolled back: what it wrote before, and no RiskScore row without its event
AfterSwallow(t) == [t EXCEPT !.read = Features({}), !.risk = None, !.scored = None]

\* ... but an upload logs the error and goes on.  A row lock taken after the
\* savepoint is freed with it.
RescoreSwallowed(w) ==
  /\ pc[w] \in Scoring
  /\ Swallows(req[w].kind)
  /\ txn' = [txn EXCEPT ![w] = AfterSwallow(@)]
  /\ riskLock' = Freed(riskLock, w)
  /\ pc' = [pc EXCEPT ![w] = "commit"]
  /\ UNCHANGED <<tables, caseLock, req, held, clock, arrived, records>>

--------------------------------------------------------------------------------
(* COMMIT *)

\* submit_merchant_response emits its own event last
Response(w) ==
  IF req[w].kind = "merchant_response"
    THEN <<[type |-> "merchant_response_submitted",
            doc  |-> IF txn[w].docs = {} THEN None
                     ELSE (CHOOSE e \in txn[w].docs : TRUE).id]>>
    ELSE <<>>

\* An optional row added to a table of rows
Added(rows, new) == IF new = None THEN rows ELSE rows \cup {new}

\* Who serves c besides w: late if it has begun to read, see ReadFeature
OthersAt(c, w) == {v \in Worker \ {w} : pc[v] # "idle" /\ CaseOf(v) = c}

\* Tables change at c, where the transaction wrote something
Commit(w) ==
  LET c == CaseOf(w)
      t == txn[w]
  IN
  /\ pc[w] = "commit"
  /\ row' = [row EXCEPT ![c] = IF t.row = None THEN @ ELSE t.row]
  /\ history' = [history EXCEPT ![c] = Added(@, t.event)]
  /\ docs' = [docs EXCEPT ![c] = @ \cup t.docs]
  /\ activity' = [activity EXCEPT ![c] = @ \o t.activity \o Response(w)]
  /\ notes' = [notes EXCEPT ![c] = IF t.note THEN @ + 1 ELSE @]
  /\ risk' = [risk EXCEPT ![c] = IF t.risk = None THEN @ ELSE t.risk]
  /\ scored' = [scored EXCEPT ![c] = Added(@, t.scored)]
  /\ late' = IF t.docs = {} THEN late ELSE late \cup OthersAt(c, w)
  /\ outdated' = IF t.risk # None /\ w \notin late THEN outdated \ {c}
                  ELSE IF t.risk # None \/ t.docs # {} THEN outdated \cup {c}
                  ELSE outdated
  /\ Release(w)
  /\ UNCHANGED overtaken

--------------------------------------------------------------------------------
Start(w) ==
  \E c \in Case :
    \/ StartCreate(w, c)
    \/ StartApiStatus(w, c)
    \/ StartCaseUpdate(w, c)
    \/ StartRequestInfo(w, c)
    \/ StartAddNote(w, c)
    \/ StartUpload(w, c)
    \/ StartMerchantResponse(w, c)

\* The steps of a request that has arrived, other than a failure or a crash
Advance(w) ==
  \/ InsertCase(w) \/ DuplicateReference(w)
  \/ ReloadCase(w) \/ InvalidForm(w)
  \/ UpdateCase(w) \/ RejectTransition(w)
  \/ AddNote(w) \/ InsertDocument(w) \/ NoteOnlyResponse(w)
  \/ ReadFeature(w) \/ PersistRisk(w) \/ LogRisk(w)
  \/ Commit(w)

Step(w) == Advance(w) \/ ScoringFails(w) \/ RescoreSwallowed(w)

\* The bound on requests is reached and every worker is free
Drained ==
  /\ arrived = MaxRequests
  /\ \A w \in Worker : pc[w] = "idle"
  /\ UNCHANGED vars

Next ==
  \/ \E w \in Worker : Start(w) \/ Step(w) \/ Crash(w)
  \/ Drained

Spec == Init /\ [][Next]_vars

\* A thread with work to do goes on, and PostgreSQL grants a row lock to those
\* waiting for it in turn: strong fairness, as a lock may be taken and freed
\* again while a worker waits.  Nothing has to fail.
Fairness == \A w \in Worker : SF_vars(Advance(w))

FairSpec == Spec /\ Fairness

--------------------------------------------------------------------------------
(* Properties *)

\* Every variable has its type.
TypeOK ==
  /\ row \in [Case -> Row \cup {None}]
  /\ history \in [Case -> SUBSET StatusEvent]
  /\ docs \in [Case -> SUBSET Document]
  /\ activity \in [Case -> Seq(Activity)]
  /\ notes \in [Case -> Nat]
  /\ risk \in [Case -> RiskRow \cup {None}]
  /\ scored \in [Case -> SUBSET ScoredEvent]
  /\ caseLock \in [Case -> Worker \cup {None}]
  /\ riskLock \in [Case -> Worker \cup {None}]
  /\ pc \in [Worker -> PC]
  /\ req \in [Worker -> Request \cup {None}]
  /\ held \in [Worker -> Row \cup {None}]
  /\ txn \in [Worker -> Txn]
  /\ clock \in [Case -> Nat]
  /\ arrived \in 0..MaxRequests
  /\ overtaken \in [Case -> SUBSET Nat]
  /\ late \subseteq Worker
  /\ outdated \subseteq Case

\* The case row says what the latest of its status events says: two updates of
\* one case never leave the row of one behind the event of the other.  Status
\* and deadline always; the priority unless that update was overtaken (UPDATE,
\* INSERT of the event and COMMIT of update_return_case_status).  So the
\* deadline is the one of the priority the case has, with the same exception.
RowMatchesAudit ==
  \A c \in Case : \A e \in history[c] :
    Latest(e, history[c]) =>
      /\ row[c] # None
      /\ row[c].status = e.to
      /\ row[c].sla = SlaHours(e.toPriority)
      /\ e.at \in overtaken[c] \/ row[c].priority = e.toPriority

\* The RiskScore row holds what the latest risk_scored event of the case
\* reports, also when two scorings race, or when one fails after it has written
\* the row (the savepoint of score_case_and_persist).
RiskMatchesAudit ==
  \A c \in Case : \A e \in scored[c] :
    Latest(e, scored[c]) => risk[c] = e.result

\* A case is created whole or not at all: its row, exactly one case_created
\* event, its RiskScore and a risk_scored event, whatever fails on the way and
\* however many creations of the same order reference race
\* (create_return_case, the unique order_reference).
CreatedWhole ==
  \A c \in Case :
    LET created == {e \in history[c] : e.from = None}
    IN  IF row[c] = None
          THEN history[c] = {} /\ scored[c] = {} /\ risk[c] = None
          ELSE /\ \E e \in created : created = {e}
               /\ \E e \in scored[c] : e.triggeredBy = "case_created"
               /\ risk[c] # None

\* The audit trail of documents is exact: every stored document has one
\* document_uploaded event, there are no others, and a merchant response names
\* a stored document or none, also when the rescoring after the
\* upload failed (upload_document_for_case, submit_merchant_response).
DocumentsAudited ==
  \A c \in Case :
    LET a == activity[c]
        Of(type) == {i \in DOMAIN a : a[i].type = type}
    IN  /\ {d.id : d \in docs[c]} = {a[i].doc : i \in Of("document_uploaded")}
        /\ Cardinality(docs[c]) = Cardinality(Of("document_uploaded"))
        /\ \A i \in Of("merchant_response_submitted") :
             a[i].doc \in {None} \cup {d.id : d \in docs[c]}

\* The priority of a case changes only when a request that asked for exactly
\* that priority commits: a request that gave none never writes back the
\* priority it had read (update_fields of update_return_case_status).
PriorityOnlyOnRequest ==
  [][\A c \in Case :
       row[c] # None /\ row'[c].priority # row[c].priority =>
         \E w \in Worker : /\ pc[w] = "commit" /\ pc'[w] = "idle"
                           /\ CaseOf(w) = c
                           /\ req[w].priority = row'[c].priority]_vars

\* Every request ends: no cycle of workers waiting for each other's row locks
\* (the case row before the RiskScore row), none waiting for a lock that is
\* never freed.
EveryRequestEnds ==
  \A w \in Worker : pc[w] # "idle" ~> pc[w] = "idle"

\* The status events of a case form a chain: each update starts from the status
\* and the priority the one before left.  Only an update that was overtaken may
\* break it (payload of update_return_case_status).
AuditChain ==
  \A c \in Case : \A e, f \in history[c] :
    Follows(f, e, history[c]) /\ f.at \notin overtaken[c] =>
      /\ f.from = e.to
      /\ e.at \in overtaken[c] \/ f.fromPriority = e.toPriority

\* Only an update that was overtaken moves an approved or rejected case
\* (_ALLOWED_STATUS_TRANSITIONS).
DecisionsHold ==
  [][\A c \in Case :
       /\ row[c] # None /\ row[c].status \in Terminal
       /\ row'[c].status # row[c].status
       => \E e \in history'[c] \ history[c] : e.at \in overtaken[c]]_vars

\* The risk score of a case takes in every document the case has, unless a
\* rescoring failed since, or the score was stored by a worker that had begun to
\* read before another request committed a document (upload_document_for_case
\* rescores in its transaction, update_or_create waits for the other's).
RiskIsFresh ==
  \A c \in Case :
    row[c] # None /\ c \notin outdated => risk[c].features = Features(docs[c])

--------------------------------------------------------------------------------
(* What the documentation claims, and overlapping requests refute *)

\* An approved or rejected case keeps its status for good
\* (docs/api/returns-workflow.md: "no further transitions").
TerminalIsFinal ==
  [][\A c \in Case :
       row[c] # None /\ row[c].status \in Terminal =>
         row'[c].status = row[c].status]_vars

\* The due date is the one of the priority the case has
\* (refresh_case_sla_fields: "derived from the current case priority").
SlaFollowsPriority ==
  \A c \in Case : row[c] # None => row[c].sla = SlaHours(row[c].priority)

--------------------------------------------------------------------------------
(* What the workflow promises *)

\* The status events in the log whose update was overtaken
OvertakenEvents == [c \in Case |-> {e \in history[c] : e.at \in overtaken[c]}]

Lifecycle ==
  INSTANCE CaseLifecycle WITH log <- history, overtaken <- OvertakenEvents

\* The services follow the documented lifecycle: a request makes one atomic,
\* logged move along the transition table, or none; from the row as it is, or,
\* overtaken by another request, from a status the case had before.
FollowsLifecycle == Lifecycle!Spec
================================================================================

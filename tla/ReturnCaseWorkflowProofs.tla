----------------------- MODULE ReturnCaseWorkflowProofs -----------------------
(***************************************************************************)
(* Theorems about ReturnCaseWorkflow, for any number of workers, cases,      *)
(* documents and requests, overlapping or not: what the case row and its     *)
(* score say, and what is stored (cases created whole, documents with their   *)
(* events).                                                                 *)
(***************************************************************************)
EXTENDS ReturnCaseWorkflow, FiniteSetTheorems, SequenceTheorems, TLAPS

\* What a worker has in hand at each point of a request
RequestInv ==
  \A w \in Worker :
    /\ pc[w] = "idle" <=> req[w] = None
    /\ pc[w] \in {"idle", "insert", "form", "service"} => txn[w] = EmptyTxn
    /\ pc[w] = "insert" => req[w].kind = "create"
    /\ pc[w] = "form" => req[w].kind = "case_update"
    /\ pc[w] \in {"form", "service"} => held[w] # None /\ row[req[w].case] # None
    /\ pc[w] # "idle" /\ req[w].kind \in StatusKind => req[w].target # None
    /\ pc[w] # "idle" /\ req[w].kind \in UploadKind => req[w].role # None
    /\ pc[w] = "log" => txn[w].risk # None

\* A transaction that has written the case row holds its lock; its event is
\* later than all events of the case and says what the row says, the priority
\* with the exception of an update that was overtaken.
CaseRowOf(w) ==
  /\ txn[w].row = None <=> txn[w].event = None
  /\ txn[w].event # None =>
       /\ pc[w] # "idle"
       /\ caseLock[req[w].case] = w
       /\ txn[w].event.at <= clock[req[w].case]
       /\ \A e \in history[req[w].case] : e.at < txn[w].event.at
       /\ txn[w].row.status = txn[w].event.to
       /\ txn[w].row.sla = SlaHours(txn[w].event.toPriority)
       /\ \/ txn[w].event.at \in overtaken[req[w].case]
          \/ txn[w].row.priority = txn[w].event.toPriority

CaseRowInv ==
  /\ \A c \in Case : \A e \in history[c] : e.at <= clock[c]
  /\ \A w \in Worker : CaseRowOf(w)

\* A transaction that has written the RiskScore row holds its lock; it commits
\* the row with its event or, if the error was swallowed, neither.
RiskRowOf(w) ==
  /\ txn[w].risk # None =>
       /\ pc[w] \in {"log", "commit"}
       /\ riskLock[req[w].case] = w
       /\ pc[w] = "commit" => txn[w].scored # None
  /\ txn[w].scored # None =>
       /\ pc[w] = "commit"
       /\ txn[w].risk # None
       /\ txn[w].scored.at <= clock[req[w].case]
       /\ \A e \in scored[req[w].case] : e.at < txn[w].scored.at
       /\ txn[w].scored.result = txn[w].risk

RiskRowInv ==
  /\ \A c \in Case : \A e \in scored[c] : e.at <= clock[c]
  /\ \A w \in Worker : RiskRowOf(w)

--------------------------------------------------------------------------------
(* Type correctness, with what the workers hold *)

TypeInv == TypeOK /\ RequestInv

\* The values the services write have the types of their columns.
LEMMA RuleTypes ==
  /\ NewRow \in Row
  /\ \A at \in Nat : CreatedEvent(at) \in StatusEvent
  /\ EmptyTxn \in Txn
  /\ \A s : AllowedTransitions(s) \subseteq Status
<1>1. NewRow \in Row
  BY DEF NewRow, Row, InitialStatus, InitialPriority, Status, Priority
<1>2. \A at \in Nat : CreatedEvent(at) \in StatusEvent
  BY DEF CreatedEvent, StatusEvent, InitialStatus, InitialPriority, Status, Priority
<1>3. EmptyTxn \in Txn
  BY EmptySeq DEF EmptyTxn, Txn, Features, Matching, Read
<1>4. \A s : AllowedTransitions(s) \subseteq Status
  BY DEF AllowedTransitions, Status
<1> QED BY <1>1, <1>2, <1>3, <1>4

\* A worker that starts a request on an existing case, or the creation of one.
LEMMA ArriveType ==
  ASSUME TypeInv, NEW w \in Worker, NEW r \in Request,
         NEW next \in {"insert", "form", "service"}, Arrive(w, r, next),
         next = "insert" => r.kind = "create",
         next = "form" => r.kind = "case_update",
         next \in {"form", "service"} => row[r.case] # None,
         r.kind \in StatusKind => r.target # None,
         r.kind \in UploadKind => r.role # None
  PROVE  TypeInv'
<1> USE DEF TypeInv
<1>1. r # None
  BY NoneAssumption DEF Request
<1>2. TypeOK'
  <2>1. /\ req' \in [Worker -> Request \cup {None}]
        /\ pc' \in [Worker -> PC]
    BY DEF TypeOK, Arrive, PC
  <2>2. held' \in [Worker -> Row \cup {None}]
    BY DEF TypeOK, Arrive, Request
  <2>3. arrived' \in 0..MaxRequests
    BY InputAssumption DEF TypeOK, Arrive
  <2> QED BY <2>1, <2>2, <2>3 DEF TypeOK, Arrive, tables, locks, records
<1>3. RequestInv'
  BY <1>1 DEF TypeOK, RequestInv, Arrive, tables, locks, Request
<1> QED BY <1>2, <1>3

LEMMA StartType ==
  ASSUME TypeInv, NEW w \in Worker, Start(w)
  PROVE  TypeInv'
<1>1. PICK c \in Case :
        \/ StartCreate(w, c) \/ StartApiStatus(w, c) \/ StartCaseUpdate(w, c)
        \/ StartRequestInfo(w, c) \/ StartAddNote(w, c) \/ StartUpload(w, c)
        \/ StartMerchantResponse(w, c)
  BY DEF Start
<1>2. \A s \in Status : s # None
  BY NoneAssumption
<1>3. CASE StartCreate(w, c)
  <2> DEFINE r == ARequest("create", c)
  <2>1. r \in Request /\ r.kind = "create"
    BY DEF ARequest, Request, Kind
  <2> HIDE DEF r
  <2>2. Arrive(w, r, "insert")
    BY <1>3 DEF StartCreate, r
  <2> QED BY <2>1, <2>2, ArriveType DEF StatusKind, UploadKind
<1>4. CASE StartApiStatus(w, c)
  <2>1. PICK s \in RequestedStatus, p \in RequestedPriority \cup {None} :
          Arrive(w, [ARequest("api_status", c) EXCEPT !.target = s, !.priority = p],
                 "service")
    BY <1>4 DEF StartApiStatus
  <2> DEFINE r == [ARequest("api_status", c) EXCEPT !.target = s, !.priority = p]
  <2>2. r \in Request /\ r.kind = "api_status" /\ r.case = c /\ r.target = s
    BY InputAssumption DEF ARequest, Request, Kind, StatusKind
  <2>3. row[c] # None
    BY <1>4 DEF StartApiStatus
  <2>4. Arrive(w, r, "service")
    BY <2>1
  <2> HIDE DEF r
  <2> QED BY <1>2, <2>2, <2>3, <2>4, InputAssumption, ArriveType DEF StatusKind, UploadKind
<1>5. CASE StartCaseUpdate(w, c)
  <2>1. PICK s \in RequestedStatus, p \in RequestedPriority :
          Arrive(w, [ARequest("case_update", c) EXCEPT !.target = s, !.priority = p],
                 "form")
    BY <1>5 DEF StartCaseUpdate
  <2> DEFINE r == [ARequest("case_update", c) EXCEPT !.target = s, !.priority = p]
  <2>2. r \in Request /\ r.kind = "case_update" /\ r.case = c /\ r.target = s
    BY InputAssumption DEF ARequest, Request, Kind, StatusKind
  <2>3. row[c] # None
    BY <1>5 DEF StartCaseUpdate
  <2>4. Arrive(w, r, "form")
    BY <2>1
  <2> HIDE DEF r
  <2> QED BY <1>2, <2>2, <2>3, <2>4, InputAssumption, ArriveType DEF StatusKind, UploadKind
<1>6. CASE StartRequestInfo(w, c)
  <2>1. PICK s \in {"waiting_customer", "waiting_merchant"} \cap RequestedStatus :
          Arrive(w, [ARequest("request_info", c) EXCEPT !.target = s], "service")
    BY <1>6 DEF StartRequestInfo
  <2> DEFINE r == [ARequest("request_info", c) EXCEPT !.target = s]
  <2>2. r \in Request /\ r.kind = "request_info" /\ r.case = c /\ r.target = s
    BY InputAssumption DEF ARequest, Request, Kind, StatusKind
  <2>3. row[c] # None
    BY <1>6 DEF StartRequestInfo
  <2>4. Arrive(w, r, "service")
    BY <2>1
  <2> HIDE DEF r
  <2> QED BY <1>2, <2>2, <2>3, <2>4, InputAssumption, ArriveType DEF StatusKind, UploadKind
<1>7. CASE StartAddNote(w, c)
  <2> DEFINE r == ARequest("add_note", c)
  <2>1. r \in Request /\ r.kind = "add_note" /\ r.case = c
    BY DEF ARequest, Request, Kind
  <2> HIDE DEF r
  <2>2. Arrive(w, r, "service") /\ row[c] # None
    BY <1>7 DEF StartAddNote, r
  <2> QED BY <2>1, <2>2, ArriveType DEF StatusKind, UploadKind
<1>8. CASE StartUpload(w, c)
  <2>1. PICK u \in UploadRole :
          Arrive(w, [ARequest("upload", c) EXCEPT !.role = u, !.file = TRUE], "service")
    BY <1>8 DEF StartUpload
  <2> DEFINE r == [ARequest("upload", c) EXCEPT !.role = u, !.file = TRUE]
  <2>2. r \in Request /\ r.kind = "upload" /\ r.case = c /\ r.role = u
    BY DEF ARequest, Request, Kind, UploadKind
  <2>3. row[c] # None
    BY <1>8 DEF StartUpload
  <2>4. Arrive(w, r, "service")
    BY <2>1
  <2>5. u # None
    BY NoneAssumption
  <2> HIDE DEF r
  <2> QED BY <2>2, <2>3, <2>4, <2>5, ArriveType DEF StatusKind, UploadKind
<1>9. CASE StartMerchantResponse(w, c)
  <2>1. PICK u \in {"merchant", "ops", "admin"}, f \in BOOLEAN :
          Arrive(w, [ARequest("merchant_response", c) EXCEPT !.role = u, !.file = f],
                 "service")
    BY <1>9 DEF StartMerchantResponse
  <2> DEFINE r == [ARequest("merchant_response", c) EXCEPT !.role = u, !.file = f]
  <2>2. r \in Request /\ r.kind = "merchant_response" /\ r.case = c /\ r.role = u
    BY DEF ARequest, Request, Kind, UploadKind, UploadRole
  <2>3. row[c] # None
    BY <1>9 DEF StartMerchantResponse
  <2>4. Arrive(w, r, "service")
    BY <2>1
  <2>5. u \in UploadRole /\ u # None
    BY NoneAssumption DEF UploadRole
  <2> HIDE DEF r
  <2> QED BY <2>2, <2>3, <2>4, <2>5, ArriveType DEF StatusKind, UploadKind
<1> QED BY <1>1, <1>3, <1>4, <1>5, <1>6, <1>7, <1>8, <1>9

\* The end of a request, whatever becomes of the tables: rows are not deleted.
LEMMA ReleaseType ==
  ASSUME TypeInv, NEW w \in Worker, pc[w] # "idle", Release(w),
         row' \in [Case -> Row \cup {None}],
         \A c \in Case : row[c] # None => row'[c] # None
  PROVE  /\ caseLock' \in [Case -> Worker \cup {None}]
         /\ riskLock' \in [Case -> Worker \cup {None}]
         /\ pc' \in [Worker -> PC]
         /\ req' \in [Worker -> Request \cup {None}]
         /\ held' \in [Worker -> Row \cup {None}]
         /\ txn' \in [Worker -> Txn]
         /\ clock' \in [Case -> Nat]
         /\ arrived' \in 0..MaxRequests
         /\ RequestInv'
<1> USE DEF TypeInv
<1>1. /\ caseLock' \in [Case -> Worker \cup {None}]
      /\ riskLock' \in [Case -> Worker \cup {None}]
  BY DEF TypeOK, Release, Freed
<1>2. /\ pc' \in [Worker -> PC]
      /\ req' \in [Worker -> Request \cup {None}]
      /\ held' \in [Worker -> Row \cup {None}]
  BY DEF TypeOK, Release, PC
<1>3. txn' \in [Worker -> Txn]
  BY RuleTypes DEF TypeOK, Release
<1>4. RequestInv'
  <2> SUFFICES ASSUME NEW v \in Worker
               PROVE  RequestInv!(v)'
    BY DEF RequestInv
  <2>1. CASE v = w
    BY <2>1 DEF TypeOK, RequestInv, Release
  <2>2. CASE v # w
    <3>1. /\ pc'[v] = pc[v] /\ req'[v] = req[v]
          /\ txn'[v] = txn[v] /\ held'[v] = held[v]
      BY <2>2 DEF TypeOK, Release
    <3>2. pc[v] \in {"form", "service"} => req[v].case \in Case
      BY DEF TypeOK, RequestInv, Request
    <3> QED BY <3>1, <3>2 DEF RequestInv
  <2> QED BY <2>1, <2>2
<1> QED BY <1>1, <1>2, <1>3, <1>4 DEF TypeOK, Release

LEMMA RollbackType ==
  ASSUME TypeInv, NEW w \in Worker, pc[w] # "idle", Rollback(w)
  PROVE  TypeInv'
BY ReleaseType DEF TypeInv, TypeOK, Rollback, tables, records

RecordsOK == /\ overtaken \in [Case -> SUBSET Nat]
             /\ late \subseteq Worker
             /\ outdated \subseteq Case

\* The steps between two points of a request: only the worker itself and the
\* row locks change.
LEMMA InnerType ==
  ASSUME TypeInv, NEW w \in Worker, pc[w] # "idle",
         UNCHANGED <<tables, req, arrived>>,
         NEW t \in Txn, NEW h \in Row \cup {None},
         NEW next \in {"service", "commit"} \cup Scoring,
         txn' = [txn EXCEPT ![w] = t], held' = [held EXCEPT ![w] = h],
         pc' = [pc EXCEPT ![w] = next],
         caseLock' \in [Case -> Worker \cup {None}],
         riskLock' \in [Case -> Worker \cup {None}],
         clock' \in [Case -> Nat], RecordsOK',
         next = "service" => t = EmptyTxn /\ h # None /\ row[req[w].case] # None,
         next = "log" => t.risk # None
  PROVE  TypeInv'
<1> USE DEF TypeInv
<1>1. TypeOK'
  BY DEF TypeOK, RecordsOK, tables, PC
<1>2. RequestInv'
  <2> SUFFICES ASSUME NEW v \in Worker
               PROVE  RequestInv!(v)'
    BY DEF RequestInv
  <2>1. CASE v = w
    BY <2>1 DEF TypeOK, RequestInv, tables, Scoring, Query
  <2>2. CASE v # w
    <3>1. /\ pc'[v] = pc[v] /\ req'[v] = req[v]
          /\ txn'[v] = txn[v] /\ held'[v] = held[v] /\ row' = row
      BY <2>2 DEF TypeOK, tables
    <3> QED BY <3>1 DEF RequestInv
  <2> QED BY <2>1, <2>2
<1> QED BY <1>1, <1>2

\* What a worker that serves a request has, as one fact
LEMMA Serving ==
  ASSUME TypeInv, NEW w \in Worker, pc[w] # "idle"
  PROVE  /\ req[w] \in Request /\ CaseOf(w) \in Case
         /\ txn[w] \in Txn /\ held[w] \in Row \cup {None}
BY DEF TypeInv, TypeOK, RequestInv, CaseOf, Request

\* The clock of a case moves on by one.
LEMMA TickedType ==
  ASSUME TypeOK, NEW c \in Case, Ticked(c)
  PROVE  clock' \in [Case -> Nat] /\ Tick(c) \in Nat
BY DEF TypeOK, Ticked, Tick

LEMMA UpdatedType ==
  ASSUME TypeInv, NEW w \in Worker, pc[w] = "service", req[w].kind \in StatusKind
  PROVE  /\ held[w] \in Row /\ row[CaseOf(w)] \in Row
         /\ Updated(w) \in Row /\ SavedRow(w) \in Row
         /\ SavedRow(w).status = Updated(w).status
         /\ SavedRow(w).sla = SlaHours(Updated(w).priority)
<1>1. /\ req[w] \in Request /\ CaseOf(w) \in Case /\ held[w] \in Row
      /\ row[CaseOf(w)] \in Row /\ req[w].target \in Status
  BY DEF TypeInv, TypeOK, RequestInv, CaseOf, Request
<1>2. Updated(w) \in Row
  BY <1>1 DEF Updated, Row, Request
<1>3. /\ SavedRow(w) \in Row
      /\ SavedRow(w).status = Updated(w).status /\ SavedRow(w).sla = Updated(w).sla
  BY <1>1, <1>2 DEF SavedRow, Row, Request
<1>4. Updated(w).sla = SlaHours(Updated(w).priority)
  BY DEF Updated
<1> QED BY <1>1, <1>2, <1>3, <1>4

\* The history variables after a step of a worker
LEMMA RecordsType ==
  ASSUME TypeInv, NEW w \in Worker, Step(w)
  PROVE  RecordsOK'
<1>0. /\ overtaken \in [Case -> SUBSET Nat] /\ late \subseteq Worker
      /\ outdated \subseteq Case
  BY DEF TypeInv, TypeOK
<1>1. CASE UpdateCase(w)
  <2>1. CaseOf(w) \in Case
    BY <1>1, Serving DEF UpdateCase
  <2>2. Tick(CaseOf(w)) \in Nat
    BY <2>1 DEF Tick, TypeInv, TypeOK
  <2> QED
    BY <1>0, <1>1, <2>1, <2>2 DEF UpdateCase, RecordsOK
<1>2. CASE ReadFeature(w)
  BY <1>0, <1>2 DEF ReadFeature, RecordsOK
<1>3. CASE Commit(w)
  <2>1. CaseOf(w) \in Case
    BY <1>3, Serving DEF Commit
  <2>2. late' \subseteq Worker
    BY <1>0, <1>3 DEF Commit, OthersAt
  <2>3. outdated' \subseteq Case
    BY <1>0, <1>3, <2>1 DEF Commit
  <2> QED
    BY <1>0, <1>3, <2>2, <2>3 DEF Commit, RecordsOK
<1>4. CASE ~UpdateCase(w) /\ ~ReadFeature(w) /\ ~Commit(w)
  <2>1. UNCHANGED records
    BY <1>4 DEF Step, Advance, InsertCase, DuplicateReference, ReloadCase, InvalidForm,
       RejectTransition, AddNote, InsertDocument, NoteOnlyResponse, PersistRisk, LogRisk,
       ScoringFails, RescoreSwallowed, Rollback
  <2> QED
    BY <1>0, <2>1 DEF records, RecordsOK
<1> QED
  BY <1>1, <1>2, <1>3, <1>4

LEMMA StepType ==
  ASSUME TypeInv, NEW w \in Worker, Step(w)
  PROVE  TypeInv'
<1>0. pc[w] # "idle" => /\ req[w] \in Request /\ CaseOf(w) \in Case
                       /\ txn[w] \in Txn /\ held[w] \in Row \cup {None}
  BY Serving
<1>00. TypeOK /\ RequestInv /\ RecordsOK'
  BY RecordsType DEF TypeInv
<1>000. {"evidence", "first", "merchant", "persist", "log"} = Scoring
  BY DEF Scoring, Query
<1>1. CASE InsertCase(w)
  <2> DEFINE t == [txn[w] EXCEPT !.row = NewRow, !.event = CreatedEvent(Tick(CaseOf(w)))]
  <2>0. pc[w] # "idle"
    BY <1>1 DEF InsertCase
  <2>1. clock' \in [Case -> Nat] /\ Tick(CaseOf(w)) \in Nat
    BY <1>0, <1>00, <1>1, <2>0, TickedType DEF InsertCase
  <2>2. t \in Txn
    BY <1>0, <2>0, <2>1, RuleTypes DEF Txn
  <2>3. txn' = [txn EXCEPT ![w] = t] /\ held' = [held EXCEPT ![w] = NewRow]
    BY <1>1, <1>00 DEF InsertCase, TypeOK, Txn
  <2>4. /\ caseLock' \in [Case -> Worker \cup {None}]
        /\ riskLock' \in [Case -> Worker \cup {None}]
    BY <1>0, <1>1, <1>00, <2>0 DEF InsertCase, TypeOK
  <2>5. /\ UNCHANGED <<tables, req, arrived>>
        /\ pc' = [pc EXCEPT ![w] = "evidence"]
    BY <1>1 DEF InsertCase
  <2> HIDE DEF t
  <2> QED BY <2>0, <2>1, <2>2, <2>3, <2>4, <2>5, RuleTypes, <1>00, <1>000, InnerType
<1>2. CASE DuplicateReference(w) \/ InvalidForm(w) \/ RejectTransition(w) \/ ScoringFails(w)
  BY <1>2, RollbackType DEF DuplicateReference, InvalidForm, RejectTransition, ScoringFails,
     Scoring, Query
<1>3. CASE ReloadCase(w)
  <2>0. pc[w] = "form" /\ txn[w] = EmptyTxn /\ row[req[w].case] # None
    BY <1>3, <1>00 DEF ReloadCase, RequestInv
  <2>1. /\ row[CaseOf(w)] \in Row \cup {None} /\ row[CaseOf(w)] # None
        /\ held' = [held EXCEPT ![w] = row[CaseOf(w)]]
        /\ txn' = [txn EXCEPT ![w] = EmptyTxn]
    BY <1>0, <1>3, <1>00, <2>0 DEF ReloadCase, TypeOK, CaseOf
  <2>2. /\ caseLock' \in [Case -> Worker \cup {None}]
        /\ riskLock' \in [Case -> Worker \cup {None}]
        /\ clock' \in [Case -> Nat]
        /\ UNCHANGED <<tables, req, arrived>>
        /\ pc' = [pc EXCEPT ![w] = "service"]
    BY <1>3, <1>00 DEF ReloadCase, TypeOK, locks
  <2> QED BY <2>0, <2>1, <2>2, RuleTypes, <1>00, <1>000, InnerType
<1>4. CASE UpdateCase(w)
  <2> DEFINE n == req[w].kind = "request_info"
             t == [txn[w] EXCEPT !.row = SavedRow(w), !.event = UpdatedEvent(w),
                                 !.note = n]
  <2>0. pc[w] = "service" /\ req[w].kind \in StatusKind
    BY <1>4 DEF UpdateCase
  <2>1. clock' \in [Case -> Nat] /\ Tick(CaseOf(w)) \in Nat
    BY <1>0, <1>00, <1>4, <2>0, TickedType DEF UpdateCase
  <2>2. held[w] \in Row /\ Updated(w) \in Row /\ SavedRow(w) \in Row
    BY <2>0, UpdatedType
  <2>3. UpdatedEvent(w) \in StatusEvent
    BY <2>1, <2>2 DEF UpdatedEvent, StatusEvent, Row
  <2>4. n \in BOOLEAN
    OBVIOUS
  <2>5. txn' = [txn EXCEPT ![w] = t] /\ held' = [held EXCEPT ![w] = Updated(w)]
    BY <1>4, <1>00 DEF UpdateCase, TypeOK, Txn
  <2> HIDE DEF n
  <2>8. t \in Txn
    BY <1>0, <2>0, <2>2, <2>3, <2>4 DEF Txn
  <2>6. /\ caseLock' \in [Case -> Worker \cup {None}]
        /\ riskLock' \in [Case -> Worker \cup {None}]
    BY <1>0, <1>4, <1>00, <2>0 DEF UpdateCase, TypeOK
  <2>7. /\ UNCHANGED <<tables, req, arrived>>
        /\ pc' = [pc EXCEPT ![w] = "evidence"]
    BY <1>4 DEF UpdateCase
  <2> HIDE DEF t
  <2> QED BY <2>0, <2>1, <2>2, <2>5, <2>6, <2>7, <2>8, <1>00, <1>000, InnerType
<1>5. CASE AddNote(w)
  <2> DEFINE t == [txn[w] EXCEPT !.note = TRUE,
                                 !.activity = <<Happened("note_added", None)>>]
  <2>0. <<Happened("note_added", None)>> \in Seq(Activity)
    BY DEF Happened, Activity, ActivityType
  <2>1. t \in Txn
    BY <1>0, <1>5, <2>0 DEF AddNote, Txn
  <2>2. /\ pc[w] # "idle"
        /\ txn' = [txn EXCEPT ![w] = t] /\ held' = [held EXCEPT ![w] = held[w]]
        /\ caseLock' \in [Case -> Worker \cup {None}]
        /\ riskLock' \in [Case -> Worker \cup {None}]
        /\ clock' \in [Case -> Nat]
        /\ UNCHANGED <<tables, req, arrived>>
        /\ pc' = [pc EXCEPT ![w] = "commit"]
    BY <1>5, <1>00 DEF AddNote, TypeOK, locks, Txn
  <2> HIDE DEF t
  <2> QED BY <1>0, <2>1, <2>2, <1>00, <1>000, InnerType
<1>6. CASE InsertDocument(w)
  <2>1. PICK d \in Doc :
          txn' = [txn EXCEPT
                    ![w].docs = {[id |-> d, role |-> req[w].role]},
                    ![w].activity = <<Happened("document_uploaded", d)>>]
    BY <1>6 DEF InsertDocument
  <2> DEFINE t == [txn[w] EXCEPT !.docs = {[id |-> d, role |-> req[w].role]},
                                 !.activity = <<Happened("document_uploaded", d)>>]
  <2>2. req[w].role \in UploadRole
    BY <1>0, <1>6, <1>00 DEF InsertDocument, RequestInv, Request
  <2>3. t \in Txn
    <3>1. <<Happened("document_uploaded", d)>> \in Seq(Activity)
      BY DEF Happened, Activity, ActivityType
    <3>2. {[id |-> d, role |-> req[w].role]} \in SUBSET Document
      BY <2>2 DEF Document
    <3> QED BY <1>0, <1>6, <3>1, <3>2 DEF InsertDocument, Txn
  <2>4. /\ pc[w] # "idle"
        /\ txn' = [txn EXCEPT ![w] = t] /\ held' = [held EXCEPT ![w] = held[w]]
        /\ caseLock' \in [Case -> Worker \cup {None}]
        /\ riskLock' \in [Case -> Worker \cup {None}]
        /\ clock' \in [Case -> Nat]
        /\ UNCHANGED <<tables, req, arrived>>
        /\ pc' = [pc EXCEPT ![w] = "evidence"]
    BY <1>6, <1>00, <2>1 DEF InsertDocument, TypeOK, locks, Txn
  <2> HIDE DEF t
  <2> QED BY <1>0, <2>3, <2>4, <1>00, <1>000, InnerType
<1>7. CASE NoteOnlyResponse(w)
  <2>1. /\ pc[w] # "idle"
        /\ txn' = [txn EXCEPT ![w] = txn[w]] /\ held' = [held EXCEPT ![w] = held[w]]
        /\ caseLock' \in [Case -> Worker \cup {None}]
        /\ riskLock' \in [Case -> Worker \cup {None}]
        /\ clock' \in [Case -> Nat]
        /\ UNCHANGED <<tables, req, arrived>>
        /\ pc' = [pc EXCEPT ![w] = "commit"]
    BY <1>7, <1>00 DEF NoteOnlyResponse, TypeOK, locks
  <2> QED BY <1>0, <2>1, <1>00, <1>000, InnerType
<1>8. CASE RescoreSwallowed(w)
  <2> DEFINE t == AfterSwallow(txn[w])
  <2>0. pc[w] # "idle"
    BY <1>8 DEF RescoreSwallowed, Scoring, Query
  <2>1. Features({}) \in Read
    BY DEF Features, Matching, Read
  <2>2. t \in Txn
    BY <1>0, <2>0, <2>1 DEF AfterSwallow, Txn
  <2> HIDE DEF t
  <2>3. /\ txn' = [txn EXCEPT ![w] = t] /\ held' = [held EXCEPT ![w] = held[w]]
        /\ UNCHANGED <<tables, req, arrived>>
        /\ pc' = [pc EXCEPT ![w] = "commit"]
    BY <1>8, <1>00 DEF RescoreSwallowed, TypeOK, t
  <2>4. /\ caseLock' \in [Case -> Worker \cup {None}]
        /\ riskLock' \in [Case -> Worker \cup {None}]
        /\ clock' \in [Case -> Nat]
    BY <1>8, <1>00 DEF RescoreSwallowed, TypeOK, Freed
  <2> QED BY <1>0, <2>0, <2>2, <2>3, <2>4, <1>00, InnerType
<1>9. CASE ReadFeature(w)
  <2> DEFINE q == pc[w]
             x == [txn[w].read EXCEPT ![q] = Matching(q, VisibleDocs(w))]
             t == [txn[w] EXCEPT !.read = x]
  <2>0. pc[w] # "idle" /\ q \in Query
    BY <1>9 DEF ReadFeature, Query
  <2>1. Matching(q, VisibleDocs(w)) \subseteq Document
    BY <1>0, <1>00, <2>0 DEF Matching, VisibleDocs, TypeOK, Txn
  <2>2. x \in Read
    BY <1>0, <2>0, <2>1 DEF Read, Txn
  <2> HIDE DEF x
  <2>3. t \in Txn
    BY <1>0, <2>0, <2>2 DEF Txn
  <2>4. txn' = [txn EXCEPT ![w] = t]
    BY <1>9, <1>00 DEF ReadFeature, TypeOK, Txn, x
  <2>5. AfterQuery[q] \in Scoring \ {"log"}
    BY <2>0 DEF AfterQuery, Query, Scoring
  <2>6. /\ held' = [held EXCEPT ![w] = held[w]]
        /\ caseLock' \in [Case -> Worker \cup {None}]
        /\ riskLock' \in [Case -> Worker \cup {None}]
        /\ clock' \in [Case -> Nat]
        /\ UNCHANGED <<tables, req, arrived>>
        /\ pc' = [pc EXCEPT ![w] = AfterQuery[q]]
    BY <1>9, <1>00 DEF ReadFeature, TypeOK, locks
  <2>7. AfterQuery[q] # "service"
    BY <2>5 DEF Scoring, Query
  <2> HIDE DEF t, q
  <2> QED BY <1>0, <2>0, <2>3, <2>4, <2>5, <2>6, <2>7, <1>00, InnerType
<1>10. CASE PersistRisk(w)
  <2>0. pc[w] = "persist" /\ pc[w] # "idle"
    BY <1>10 DEF PersistRisk
  <2>1. PICK m \in Scorer :
          txn' = [txn EXCEPT ![w].risk = [model |-> m, features |-> txn[w].read]]
    BY <1>10 DEF PersistRisk
  <2> DEFINE s == [model |-> m, features |-> txn[w].read]
             t == [txn[w] EXCEPT !.risk = s]
  <2>2. s \in RiskRow /\ s # None
    BY <1>0, <2>0, NoneAssumption DEF RiskRow, Txn
  <2> HIDE DEF s
  <2>3. t \in Txn /\ t.risk # None
    BY <1>0, <2>0, <2>2 DEF Txn
  <2>4. /\ txn' = [txn EXCEPT ![w] = t] /\ held' = [held EXCEPT ![w] = held[w]]
        /\ clock' \in [Case -> Nat]
        /\ UNCHANGED <<tables, req, arrived>>
        /\ pc' = [pc EXCEPT ![w] = "log"]
    BY <1>10, <1>00, <2>1 DEF PersistRisk, TypeOK, Txn, s
  <2>5. /\ caseLock' \in [Case -> Worker \cup {None}]
        /\ riskLock' \in [Case -> Worker \cup {None}]
    BY <1>0, <1>10, <1>00, <2>0 DEF PersistRisk, TypeOK
  <2> HIDE DEF t
  <2> QED BY <1>0, <2>0, <2>3, <2>4, <2>5, <1>00, <1>000, InnerType
<1>12. CASE LogRisk(w)
  <2> DEFINE e == [at |-> Tick(CaseOf(w)), triggeredBy |-> TriggerOf(req[w].kind),
                   result |-> txn[w].risk]
             t == [txn[w] EXCEPT !.scored = e]
  <2>0. pc[w] = "log" /\ pc[w] # "idle" /\ txn[w].risk \in RiskRow
    BY <1>0, <1>00, <1>12 DEF LogRisk, RequestInv, Txn
  <2>1. clock' \in [Case -> Nat] /\ Tick(CaseOf(w)) \in Nat
    BY <1>0, <1>00, <1>12, <2>0, TickedType DEF LogRisk
  <2>2. e \in ScoredEvent
    BY <2>0, <2>1 DEF ScoredEvent, TriggerOf, Trigger
  <2> HIDE DEF e
  <2>3. t \in Txn
    BY <1>0, <2>0, <2>2 DEF Txn
  <2>4. /\ txn' = [txn EXCEPT ![w] = t] /\ held' = [held EXCEPT ![w] = held[w]]
        /\ UNCHANGED <<tables, req, arrived>>
        /\ pc' = [pc EXCEPT ![w] = "commit"]
    BY <1>12, <1>00 DEF LogRisk, TypeOK, Txn, e
  <2>5. /\ caseLock' \in [Case -> Worker \cup {None}]
        /\ riskLock' \in [Case -> Worker \cup {None}]
    BY <1>12, <1>00 DEF LogRisk, TypeOK, locks
  <2> HIDE DEF t
  <2> QED BY <1>0, <2>0, <2>1, <2>3, <2>4, <2>5, <1>00, InnerType
<1>11. CASE Commit(w)
  <2> DEFINE c == CaseOf(w)
             t == txn[w]
  <2>0. pc[w] # "idle" /\ c \in Case /\ t \in Txn
    BY <1>0, <1>11 DEF Commit
  <2>1. /\ row' \in [Case -> Row \cup {None}]
        /\ \A k \in Case : row[k] # None => row'[k] # None
    BY <1>11, <1>00, <2>0 DEF Commit, TypeOK, Txn
  <2>2. /\ history' \in [Case -> SUBSET StatusEvent]
        /\ scored' \in [Case -> SUBSET ScoredEvent]
    BY <1>11, <1>00, <2>0 DEF Commit, TypeOK, Txn, Added
  <2>3. docs' \in [Case -> SUBSET Document]
    BY <1>11, <1>00, <2>0 DEF Commit, TypeOK, Txn
  <2>4. /\ notes' \in [Case -> Nat]
        /\ risk' \in [Case -> RiskRow \cup {None}]
    BY <1>11, <1>00, <2>0 DEF Commit, TypeOK, Txn
  <2>5. Response(w) \in Seq(Activity)
    <3>1. CASE req[w].kind # "merchant_response"
      BY <3>1, EmptySeq DEF Response
    <3>2. CASE t.docs = {} /\ req[w].kind = "merchant_response"
      BY <3>2 DEF Response, Activity, ActivityType
    <3>3. CASE t.docs # {} /\ req[w].kind = "merchant_response"
      <4> DEFINE d == CHOOSE e \in t.docs : TRUE
      <4>1. d.id \in Doc
        BY <2>0, <3>3 DEF Txn, Document
      <4>2. Response(w) = <<[type |-> "merchant_response_submitted", doc |-> d.id]>>
        BY <3>3 DEF Response
      <4> HIDE DEF d
      <4> QED BY <4>1, <4>2 DEF Activity, ActivityType
    <3> QED BY <3>1, <3>2, <3>3
  <2>6. activity' \in [Case -> Seq(Activity)]
    <3>1. activity[c] \o t.activity \o Response(w) \in Seq(Activity)
      BY <1>00, <2>0, <2>5, ConcatProperties DEF TypeOK, Txn
    <3>2. activity' = [activity EXCEPT ![c] = activity[c] \o t.activity \o Response(w)]
      BY <1>11 DEF Commit
    <3> QED BY <1>00, <2>0, <3>1, <3>2 DEF TypeOK
  <2>7. Release(w)
    BY <1>11 DEF Commit
  <2> QED BY <2>0, <2>1, <2>2, <2>3, <2>4, <2>6, <2>7, <1>00, ReleaseType DEF TypeInv, TypeOK, RecordsOK
<1> QED
  BY <1>1, <1>2, <1>3, <1>4, <1>5, <1>6, <1>7, <1>8, <1>9, <1>10, <1>11, <1>12
  DEF Step, Advance

LEMMA TypeInitially == Init => TypeInv
BY RuleTypes, EmptySeq, InputAssumption
   DEF Init, TypeInv, TypeOK, RequestInv, PC, EmptyTxn, Scoring, Query

LEMMA TypePreserved == TypeInv /\ [Next]_vars => TypeInv'
<1> SUFFICES ASSUME TypeInv, [Next]_vars
             PROVE  TypeInv'
  OBVIOUS
<1>1. ASSUME NEW w \in Worker, Start(w)
      PROVE  TypeInv'
  BY <1>1, StartType
<1>2. ASSUME NEW w \in Worker, Step(w)
      PROVE  TypeInv'
  BY <1>2, StepType
<1>3. ASSUME NEW w \in Worker, Crash(w)
      PROVE  TypeInv'
  BY <1>3, RollbackType DEF Crash
<1>4. CASE UNCHANGED vars
  BY <1>4 DEF vars, tables, locks, records, TypeInv, TypeOK, RequestInv
<1> QED BY <1>1, <1>2, <1>3, <1>4 DEF Next, Drained

\* Type correctness, for every number of workers, cases and requests.
THEOREM TypeCorrect == Spec => []TypeOK
<1>1. Spec => []TypeInv
  BY TypeInitially, TypePreserved, PTL DEF Spec
<1>2. TypeInv => TypeOK
  BY DEF TypeInv
<1> QED BY <1>1, <1>2, PTL

--------------------------------------------------------------------------------
(* Kinds of steps *)

\* The steps of score_case_and_persist, and what an upload does when it fails
Scores(w) == ReadFeature(w) \/ PersistRisk(w) \/ LogRisk(w) \/ RescoreSwallowed(w)

\* The steps between the arrival of a request and the end
Inner(w) ==
  \/ ReloadCase(w) \/ NoteOnlyResponse(w)
  \/ InsertCase(w) \/ UpdateCase(w) \/ AddNote(w) \/ InsertDocument(w)
  \/ Scores(w)

\* Only the transaction of w changes, and the lock of the case row may become
\* its own.
Works(w) ==
  /\ pc[w] # "idle" /\ pc'[w] # "idle"
  /\ UNCHANGED <<tables, req, outdated>>
  /\ \A v \in Worker : v # w => txn'[v] = txn[v] /\ pc'[v] = pc[v] /\ held'[v] = held[v]
  /\ \A c \in Case : /\ \/ caseLock'[c] = caseLock[c]
                        \/ caseLock[c] = None /\ caseLock'[c] = w
                     /\ clock[c] <= clock'[c]

\* Scoring leaves alone what the transaction has written of the case.
LEMMA ScoreEffects ==
  ASSUME TypeInv, NEW w \in Worker, Scores(w)
  PROVE  /\ pc[w] \in Scoring
         /\ pc'[w] \in {"first", "merchant", "persist", "log", "commit"}
         /\ pc'[w] = "commit" <=> LogRisk(w) \/ RescoreSwallowed(w)
         /\ txn'[w].row = txn[w].row /\ txn'[w].event = txn[w].event
         /\ txn'[w].docs = txn[w].docs /\ txn'[w].activity = txn[w].activity
         /\ \A v \in Worker : v # w => txn'[v] = txn[v] /\ pc'[v] = pc[v]
         /\ UNCHANGED <<tables, caseLock, req, held, overtaken, outdated>>
         /\ \A c \in Case : clock[c] <= clock'[c]
<1>0. /\ pc \in [Worker -> PC] /\ txn \in [Worker -> Txn] /\ txn[w] \in Txn
      /\ clock \in [Case -> Nat]
  BY DEF TypeInv, TypeOK
<1>1. CASE ReadFeature(w)
  <2>1. /\ pc[w] \in Query /\ pc'[w] = AfterQuery[pc[w]]
        /\ AfterQuery[pc[w]] \in {"first", "merchant", "persist"}
    BY <1>0, <1>1 DEF ReadFeature, AfterQuery, Query
  <2>2. pc[w] \in Scoring /\ ~LogRisk(w) /\ (RescoreSwallowed(w) => pc'[w] = "commit")
    BY <1>0, <2>1 DEF Scoring, Query, LogRisk, RescoreSwallowed
  <2>3. /\ txn'[w].row = txn[w].row /\ txn'[w].event = txn[w].event
        /\ txn'[w].docs = txn[w].docs /\ txn'[w].activity = txn[w].activity
        /\ \A v \in Worker : v # w => txn'[v] = txn[v] /\ pc'[v] = pc[v]
    BY <1>0, <1>1 DEF ReadFeature, Txn
  <2>4. UNCHANGED <<tables, caseLock, req, held, overtaken, outdated, clock>>
    BY <1>1 DEF ReadFeature, locks
  <2> QED
    BY <1>0, <2>1, <2>2, <2>3, <2>4
<1>2. CASE PersistRisk(w)
  <2>1. PICK m \in Scorer :
          txn' = [txn EXCEPT ![w].risk = [model |-> m, features |-> txn[w].read]]
    BY <1>2 DEF PersistRisk
  <2>2. /\ txn'[w].row = txn[w].row /\ txn'[w].event = txn[w].event
        /\ txn'[w].docs = txn[w].docs /\ txn'[w].activity = txn[w].activity
        /\ \A v \in Worker : v # w => txn'[v] = txn[v]
    BY <1>0, <2>1 DEF Txn
  <2>3. /\ pc[w] = "persist" /\ pc'[w] = "log"
        /\ \A v \in Worker : v # w => pc'[v] = pc[v]
        /\ ~LogRisk(w) /\ (RescoreSwallowed(w) => pc'[w] = "commit")
    BY <1>0, <1>2 DEF PersistRisk, LogRisk, RescoreSwallowed
  <2>4. UNCHANGED <<tables, caseLock, req, held, overtaken, outdated, clock>>
    BY <1>2 DEF PersistRisk, records
  <2> QED
    BY <1>0, <2>2, <2>3, <2>4 DEF Scoring
<1>3. CASE LogRisk(w)
  <2>1. /\ txn'[w].row = txn[w].row /\ txn'[w].event = txn[w].event
        /\ txn'[w].docs = txn[w].docs /\ txn'[w].activity = txn[w].activity
        /\ \A v \in Worker : v # w => txn'[v] = txn[v] /\ pc'[v] = pc[v]
        /\ pc[w] = "log" /\ pc'[w] = "commit"
    BY <1>0, <1>3 DEF LogRisk, Txn
  <2>2. UNCHANGED <<tables, caseLock, req, held, overtaken, outdated>>
    BY <1>3 DEF LogRisk, records, locks
  <2>3. CaseOf(w) \in Case
    BY <2>1, Serving
  <2>4. \A c \in Case : clock[c] <= clock'[c]
    BY <1>0, <1>3, <2>3 DEF LogRisk, Ticked, Tick
  <2> QED
    BY <1>3, <2>1, <2>2, <2>4 DEF Scoring
<1>4. CASE RescoreSwallowed(w)
  <2>1. /\ txn'[w] = AfterSwallow(txn[w])
        /\ \A v \in Worker : v # w => txn'[v] = txn[v] /\ pc'[v] = pc[v]
        /\ pc[w] \in Scoring /\ pc'[w] = "commit"
    BY <1>0, <1>4 DEF RescoreSwallowed
  <2>2. /\ txn'[w].row = txn[w].row /\ txn'[w].event = txn[w].event
        /\ txn'[w].docs = txn[w].docs /\ txn'[w].activity = txn[w].activity
    BY <1>0, <2>1 DEF AfterSwallow, Txn
  <2>3. UNCHANGED <<tables, caseLock, req, held, overtaken, outdated, clock>>
    BY <1>4 DEF RescoreSwallowed, records
  <2> QED
    BY <1>0, <1>4, <2>1, <2>2, <2>3
<1> QED
  BY <1>1, <1>2, <1>3, <1>4 DEF Scores

\* A step rolls back, commits or works on.
LEMMA StepKinds ==
  ASSUME TypeInv, NEW w \in Worker, Step(w)
  PROVE  /\ pc[w] # "idle"
         /\ Rollback(w) \/ Commit(w) \/ (Works(w) /\ Inner(w))
<1>0. /\ pc \in [Worker -> PC] /\ txn \in [Worker -> Txn] /\ held = held
      /\ caseLock \in [Case -> Worker \cup {None}]
      /\ held \in [Worker -> Row \cup {None}] /\ clock \in [Case -> Nat]
  BY DEF TypeInv, TypeOK
<1>1. CASE DuplicateReference(w) \/ InvalidForm(w) \/ RejectTransition(w) \/ ScoringFails(w)
  BY <1>1 DEF DuplicateReference, InvalidForm, RejectTransition, ScoringFails, Scoring, Query
<1>2. CASE InsertCase(w) \/ UpdateCase(w)
  <2>1. pc[w] # "idle" /\ pc'[w] # "idle"
    BY <1>0, <1>2 DEF InsertCase, UpdateCase
  <2>2. \A c \in Case : clock[c] <= clock'[c]
    BY <1>0, <1>2, <2>1, Serving DEF InsertCase, UpdateCase, Ticked, Tick
  <2>3. UNCHANGED <<tables, req, outdated>>
    BY <1>2 DEF InsertCase, UpdateCase, records
  <2>4. \A v \in Worker : v # w => txn'[v] = txn[v] /\ pc'[v] = pc[v] /\ held'[v] = held[v]
    BY <1>0, <1>2 DEF InsertCase, UpdateCase
  <2>5. \A c \in Case : \/ caseLock'[c] = caseLock[c]
                        \/ caseLock[c] = None /\ caseLock'[c] = w
    BY <1>0, <1>2 DEF InsertCase, UpdateCase, CaseRowFree
  <2> QED
    BY <1>2, <2>1, <2>2, <2>3, <2>4, <2>5 DEF Works, Inner
<1>3. CASE ReloadCase(w) \/ NoteOnlyResponse(w) \/ AddNote(w)
  <2>1. /\ pc[w] # "idle" /\ pc'[w] # "idle"
        /\ \A v \in Worker : v # w => txn'[v] = txn[v] /\ pc'[v] = pc[v] /\ held'[v] = held[v]
    BY <1>0, <1>3 DEF ReloadCase, NoteOnlyResponse, AddNote
  <2>2. UNCHANGED <<tables, req, outdated, caseLock, clock>>
    BY <1>3 DEF ReloadCase, NoteOnlyResponse, AddNote, locks, records
  <2> QED
    BY <1>0, <1>3, <2>1, <2>2 DEF Works, Inner
<1>4. CASE InsertDocument(w)
  <2>1. \A v \in Worker : v # w => txn'[v] = txn[v]
    BY <1>0, <1>4 DEF InsertDocument
  <2>2. /\ pc[w] # "idle" /\ pc'[w] # "idle"
        /\ \A v \in Worker : v # w => pc'[v] = pc[v] /\ held'[v] = held[v]
    BY <1>0, <1>4 DEF InsertDocument
  <2>3. UNCHANGED <<tables, req, outdated, caseLock, clock>>
    BY <1>4 DEF InsertDocument, locks, records
  <2> QED
    BY <1>0, <1>4, <2>1, <2>2, <2>3 DEF Works, Inner
<1>5. CASE Scores(w)
  <2>1. pc[w] # "idle" /\ pc'[w] # "idle"
    BY <1>5, ScoreEffects DEF Scoring, Query
  <2> QED
    BY <1>5, <2>1, ScoreEffects DEF Works, Inner
<1>6. CASE Commit(w)
  BY <1>6 DEF Commit
<1> QED
  BY <1>1, <1>2, <1>3, <1>4, <1>5, <1>6 DEF Step, Advance, Scores

\* A worker picks up r, which creates a case or is about one that exists.
Starts(w, r, next) ==
  /\ Arrive(w, r, next)
  /\ \/ next = "insert" /\ r.kind = "create"
     \/ /\ next \in {"form", "service"} /\ r.kind # "create"
        /\ row[r.case] # None

LEMMA StartForms ==
  ASSUME NEW w \in Worker, Start(w)
  PROVE  \E r, next : Starts(w, r, next)
<1> PICK c \in Case :
      \/ StartCreate(w, c) \/ StartApiStatus(w, c) \/ StartCaseUpdate(w, c)
      \/ StartRequestInfo(w, c) \/ StartAddNote(w, c) \/ StartUpload(w, c)
      \/ StartMerchantResponse(w, c)
  BY DEF Start
<1>1. CASE StartCreate(w, c)
  <2>1. Starts(w, ARequest("create", c), "insert")
    BY <1>1 DEF StartCreate, ARequest, Starts
  <2> QED
    BY <2>1
<1>2. CASE StartApiStatus(w, c)
  <2> PICK s \in RequestedStatus, p \in RequestedPriority \cup {None} :
        Arrive(w, [ARequest("api_status", c) EXCEPT !.target = s, !.priority = p],
               "service")
    BY <1>2 DEF StartApiStatus
  <2>1. Starts(w, [ARequest("api_status", c) EXCEPT !.target = s, !.priority = p],
               "service")
    BY <1>2 DEF StartApiStatus, ARequest, Starts
  <2> QED
    BY <2>1
<1>3. CASE StartCaseUpdate(w, c)
  <2> PICK s \in RequestedStatus, p \in RequestedPriority :
        Arrive(w, [ARequest("case_update", c) EXCEPT !.target = s, !.priority = p],
               "form")
    BY <1>3 DEF StartCaseUpdate
  <2>1. Starts(w, [ARequest("case_update", c) EXCEPT !.target = s, !.priority = p],
               "form")
    BY <1>3 DEF StartCaseUpdate, ARequest, Starts
  <2> QED
    BY <2>1
<1>4. CASE StartRequestInfo(w, c)
  <2> PICK s \in {"waiting_customer", "waiting_merchant"} \cap RequestedStatus :
        Arrive(w, [ARequest("request_info", c) EXCEPT !.target = s], "service")
    BY <1>4 DEF StartRequestInfo
  <2>1. Starts(w, [ARequest("request_info", c) EXCEPT !.target = s], "service")
    BY <1>4 DEF StartRequestInfo, ARequest, Starts
  <2> QED
    BY <2>1
<1>5. CASE StartAddNote(w, c)
  <2>1. Starts(w, ARequest("add_note", c), "service")
    BY <1>5 DEF StartAddNote, ARequest, Starts
  <2> QED
    BY <2>1
<1>6. CASE StartUpload(w, c)
  <2> PICK u \in UploadRole :
        Arrive(w, [ARequest("upload", c) EXCEPT !.role = u, !.file = TRUE], "service")
    BY <1>6 DEF StartUpload
  <2>1. Starts(w, [ARequest("upload", c) EXCEPT !.role = u, !.file = TRUE], "service")
    BY <1>6 DEF StartUpload, ARequest, Starts
  <2> QED
    BY <2>1
<1>7. CASE StartMerchantResponse(w, c)
  <2> PICK u \in {"merchant", "ops", "admin"}, f \in BOOLEAN :
        Arrive(w, [ARequest("merchant_response", c) EXCEPT !.role = u, !.file = f],
               "service")
    BY <1>7 DEF StartMerchantResponse
  <2>1. Starts(w, [ARequest("merchant_response", c) EXCEPT !.role = u, !.file = f],
               "service")
    BY <1>7 DEF StartMerchantResponse, ARequest, Starts
  <2> QED
    BY <2>1
<1> QED
  BY <1>1, <1>2, <1>3, <1>4, <1>5, <1>6, <1>7

--------------------------------------------------------------------------------
(* The case row and its latest status event *)

CaseAuditInv == CaseRowInv /\ RowMatchesAudit

\* A step that leaves the case rows, the status events, the locks on case rows
\* and what transactions have written to the case row alone.
LEMMA CaseAuditFrame ==
  ASSUME TypeInv, CaseAuditInv, TypeInv',
         UNCHANGED <<row, history, caseLock, overtaken>>,
         \A c \in Case : clock[c] <= clock'[c],
         \A v \in Worker :
           /\ txn'[v].row = txn[v].row /\ txn'[v].event = txn[v].event
           /\ txn[v].event # None => req'[v] = req[v] /\ pc'[v] # "idle"
  PROVE  CaseAuditInv'
<1>1. RowMatchesAudit'
  BY DEF CaseAuditInv, RowMatchesAudit
<1>2. \A c \in Case : \A e \in history'[c] : e.at <= clock'[c]
  BY DEF CaseAuditInv, CaseRowInv, CaseRowOf, TypeInv, TypeOK, StatusEvent
<1>3. ASSUME NEW v \in Worker
      PROVE  CaseRowOf(v)'
  <2>1. txn'[v].row = None <=> txn'[v].event = None
    BY DEF CaseAuditInv, CaseRowInv, CaseRowOf
  <2>2. SUFFICES ASSUME txn'[v].event # None
                 PROVE  CaseRowOf(v)'
    BY <2>1 DEF CaseRowOf
  <2>3. /\ txn[v].event # None /\ req'[v] = req[v] /\ pc'[v] # "idle"
        /\ pc[v] # "idle" /\ req[v].case \in Case /\ txn[v].event \in StatusEvent
    BY <2>2 DEF CaseAuditInv, CaseRowInv, CaseRowOf, TypeInv, TypeOK, RequestInv, Request, Txn
  <2>4. txn[v].event.at <= clock'[req[v].case]
    BY <2>3 DEF CaseAuditInv, CaseRowInv, CaseRowOf, TypeInv, TypeOK, StatusEvent
  <2> QED BY <2>3, <2>4 DEF CaseAuditInv, CaseRowInv, CaseRowOf
<1> QED BY <1>1, <1>2, <1>3 DEF CaseAuditInv, CaseRowInv, CaseRowOf

\* A transaction that ends without a trace on the case tables.
LEMMA CaseAuditRollback ==
  ASSUME TypeInv, CaseAuditInv, NEW w \in Worker, pc[w] # "idle", Rollback(w)
  PROVE  CaseAuditInv'
<1>1. RowMatchesAudit'
  BY DEF CaseAuditInv, RowMatchesAudit, Rollback, tables, records
<1>2. \A c \in Case : \A e \in history'[c] : e.at <= clock'[c]
  BY DEF CaseAuditInv, CaseRowInv, CaseRowOf, Rollback, Release, tables
<1>3. \A v \in Worker : CaseRowOf(v)'
  <2> SUFFICES ASSUME NEW v \in Worker
               PROVE  CaseRowOf(v)'
    OBVIOUS
  <2>1. CASE v = w
    BY <2>1 DEF TypeInv, TypeOK, Rollback, Release, EmptyTxn, CaseRowOf
  <2>2. CASE v # w
    <3>1. /\ pc'[v] = pc[v] /\ req'[v] = req[v] /\ txn'[v] = txn[v]
          /\ history' = history /\ clock' = clock /\ overtaken' = overtaken
      BY <2>2 DEF TypeInv, TypeOK, Rollback, Release, tables, records
    <3>2. ASSUME txn[v].event # None
          PROVE  caseLock'[req[v].case] = v
      <4>1. caseLock[req[v].case] = v /\ req[v].case \in Case
        BY <3>2 DEF CaseAuditInv, CaseRowInv, CaseRowOf, TypeInv, TypeOK, RequestInv, Request
      <4> QED BY <2>2, <4>1 DEF Rollback, Release, Freed
    <3> QED BY <3>1, <3>2 DEF CaseAuditInv, CaseRowInv, CaseRowOf
  <2> QED BY <2>1, <2>2
<1> QED BY <1>1, <1>2, <1>3 DEF CaseAuditInv, CaseRowInv, CaseRowOf

\* The INSERT or UPDATE of the case row and the INSERT of its event, once the
\* row is free.
LEMMA CaseAuditWrite ==
  ASSUME TypeInv, CaseAuditInv, TypeInv', NEW w \in Worker,
         pc[w] \in {"insert", "service"}, CaseRowFree(w), Ticked(CaseOf(w)),
         NEW r \in Row, NEW e \in StatusEvent,
         e.at = Tick(CaseOf(w)), r.status = e.to, r.sla = SlaHours(e.toPriority),
         \A c \in Case : overtaken[c] \subseteq overtaken'[c],
         e.at \in overtaken'[CaseOf(w)] \/ r.priority = e.toPriority,
         txn'[w].row = r, txn'[w].event = e,
         \A v \in Worker : v # w => txn'[v] = txn[v],
         caseLock' = [caseLock EXCEPT ![CaseOf(w)] = w],
         pc' = [pc EXCEPT ![w] = "evidence"], UNCHANGED <<tables, req>>
  PROVE  CaseAuditInv'
<1> DEFINE c == CaseOf(w)
<1>0. /\ c \in Case /\ c = req[w].case
      /\ clock[c] \in Nat /\ clock'[c] = clock[c] + 1 /\ e.at = clock[c] + 1
      /\ \A k \in Case : k # c => clock'[k] = clock[k]
  BY Serving DEF CaseOf, Ticked, Tick, TypeInv, TypeOK
<1>1. RowMatchesAudit'
  BY DEF CaseAuditInv, RowMatchesAudit, tables
<1>2. ASSUME NEW k \in Case, NEW f \in history'[k]
      PROVE  f.at <= clock'[k]
  <2>1. /\ f \in history[k] /\ f.at \in Nat /\ f.at <= clock[k]
        /\ clock[k] \in Nat /\ clock'[k] \in Nat
    BY <1>2 DEF CaseAuditInv, CaseRowInv, CaseRowOf, TypeInv, TypeOK, StatusEvent, tables
  <2>2. clock[k] <= clock'[k]
    BY <1>0, <2>1
  <2> QED BY <2>1, <2>2
<1>3. \A v \in Worker : CaseRowOf(v)'
  <2> SUFFICES ASSUME NEW v \in Worker
               PROVE  CaseRowOf(v)'
    OBVIOUS
  <2>1. CASE v = w
    <3>1. r # None /\ e # None
      BY NoneAssumption
    <3>2. caseLock'[c] = w /\ pc'[w] # "idle" /\ req'[w].case = c
      BY <1>0 DEF TypeInv, TypeOK
    <3>3. \A f \in history'[c] : f.at < e.at
      BY <1>0 DEF CaseAuditInv, CaseRowInv, CaseRowOf, TypeInv, TypeOK, StatusEvent, tables
    <3> QED BY <1>0, <2>1, <3>1, <3>2, <3>3 DEF CaseRowOf
  <2>2. CASE v # w
    <3>1. /\ pc'[v] = pc[v] /\ req'[v] = req[v] /\ txn'[v] = txn[v]
          /\ history' = history
      BY <2>2 DEF TypeInv, TypeOK, tables
    <3>2. ASSUME txn[v].event # None
          PROVE  /\ req[v].case \in Case /\ req[v].case # c
                 /\ caseLock'[req[v].case] = v
                 /\ clock'[req[v].case] = clock[req[v].case]
      <4>1. caseLock[req[v].case] = v /\ req[v].case \in Case
        BY <3>2 DEF CaseAuditInv, CaseRowInv, CaseRowOf, TypeInv, TypeOK, RequestInv, Request
      <4>2. req[v].case # c
        BY <1>0, <4>1, NoneAssumption DEF CaseRowFree
      <4> QED BY <1>0, <4>1, <4>2
    <3> QED BY <3>1, <3>2 DEF CaseAuditInv, CaseRowInv, CaseRowOf
  <2> QED BY <2>1, <2>2
<1> QED BY <1>1, <1>2, <1>3 DEF CaseAuditInv, CaseRowInv, CaseRowOf

LEMMA CaseAuditCommit ==
  ASSUME TypeInv, CaseAuditInv, NEW w \in Worker, Commit(w)
  PROVE  CaseAuditInv'
<1> DEFINE c == CaseOf(w)
           t == txn[w]
<1>0. /\ pc[w] # "idle" /\ c \in Case /\ c = req[w].case /\ t \in Txn
      /\ overtaken' = overtaken /\ clock' = clock /\ clock \in [Case -> Nat]
      /\ t.event # None => t.event \in StatusEvent
  BY Serving DEF CaseOf, TypeInv, TypeOK, Commit, Release, Txn
<1>1. \A k \in Case : k # c => row'[k] = row[k] /\ history'[k] = history[k]
  BY <1>0 DEF Commit, TypeInv, TypeOK
<1>2. CASE t.event = None
  <2>1. t.row = None /\ row' = row /\ history' = history
    BY <1>0, <1>2 DEF Commit, Added, CaseAuditInv, CaseRowInv, CaseRowOf, TypeInv, TypeOK
  <2>2. RowMatchesAudit'
    BY <1>0, <2>1 DEF CaseAuditInv, RowMatchesAudit
  <2>3. \A k \in Case : \A e \in history'[k] : e.at <= clock'[k]
    BY <1>0, <2>1 DEF CaseAuditInv, CaseRowInv, CaseRowOf
  <2>4. \A v \in Worker : CaseRowOf(v)'
    <3> SUFFICES ASSUME NEW v \in Worker
                 PROVE  CaseRowOf(v)'
      OBVIOUS
    <3>1. CASE v = w
      BY <3>1 DEF TypeInv, TypeOK, Commit, Release, EmptyTxn, CaseRowOf
    <3>2. CASE v # w
      <4>1. pc'[v] = pc[v] /\ req'[v] = req[v] /\ txn'[v] = txn[v]
        BY <3>2 DEF TypeInv, TypeOK, Commit, Release
      <4>2. ASSUME txn[v].event # None
            PROVE  caseLock'[req[v].case] = v
        <5>1. caseLock[req[v].case] = v /\ req[v].case \in Case
          BY <4>2 DEF CaseAuditInv, CaseRowInv, CaseRowOf, TypeInv, TypeOK, RequestInv, Request
        <5> QED BY <3>2, <5>1 DEF Commit, Release, Freed
      <4> QED BY <1>0, <2>1, <4>1, <4>2 DEF CaseAuditInv, CaseRowInv, CaseRowOf
    <3> QED BY <3>1, <3>2
  <2> QED BY <2>2, <2>3, <2>4 DEF CaseAuditInv, CaseRowInv, CaseRowOf
<1>3. CASE t.event # None
  <2>0. /\ t.row # None /\ caseLock[c] = w
        /\ t.event.at <= clock[c] /\ \A e \in history[c] : e.at < t.event.at
        /\ t.row.status = t.event.to /\ t.row.sla = SlaHours(t.event.toPriority)
        /\ t.event.at \in overtaken[c] \/ t.row.priority = t.event.toPriority
    BY <1>0, <1>3 DEF CaseAuditInv, CaseRowInv, CaseRowOf
  <2>1. row'[c] = t.row /\ history'[c] = history[c] \cup {t.event}
    BY <1>0, <1>3, <2>0 DEF Commit, Added, TypeInv, TypeOK
  <2>2. RowMatchesAudit'
    <3> SUFFICES ASSUME NEW k \in Case, NEW e \in history'[k], Latest(e, history'[k])
                 PROVE  /\ row'[k] # None
                        /\ row'[k].status = e.to
                        /\ row'[k].sla = SlaHours(e.toPriority)
                        /\ e.at \in overtaken'[k] \/ row'[k].priority = e.toPriority
      BY DEF RowMatchesAudit, Latest
    <3>1. CASE k # c
      BY <1>0, <1>1, <3>1 DEF CaseAuditInv, RowMatchesAudit, Latest
    <3>2. CASE k = c
      <4>1. t.event.at <= e.at
        BY <2>1, <3>2 DEF Latest
      <4>2. e = t.event
        <5>1. ASSUME e \in history[c]
              PROVE  FALSE
          <6>1. e.at \in Nat /\ t.event.at \in Nat
            BY <1>0, <1>3, <5>1 DEF TypeInv, TypeOK, StatusEvent
          <6> QED BY <2>0, <4>1, <5>1, <6>1
        <5> QED BY <2>1, <3>2, <5>1
      <4> QED BY <1>0, <2>0, <2>1, <3>2, <4>2
    <3> QED BY <3>1, <3>2
  <2>3. \A k \in Case : \A e \in history'[k] : e.at <= clock'[k]
    BY <1>0, <1>1, <2>0, <2>1 DEF CaseAuditInv, CaseRowInv, CaseRowOf
  <2>4. \A v \in Worker : CaseRowOf(v)'
    <3> SUFFICES ASSUME NEW v \in Worker
                 PROVE  CaseRowOf(v)'
      OBVIOUS
    <3>1. CASE v = w
      BY <3>1 DEF TypeInv, TypeOK, Commit, Release, EmptyTxn, CaseRowOf
    <3>2. CASE v # w
      <4>1. pc'[v] = pc[v] /\ req'[v] = req[v] /\ txn'[v] = txn[v]
        BY <3>2 DEF TypeInv, TypeOK, Commit, Release
      <4>2. ASSUME txn[v].event # None
            PROVE  /\ caseLock'[req[v].case] = v
                   /\ history'[req[v].case] = history[req[v].case]
        <5>1. caseLock[req[v].case] = v /\ req[v].case \in Case
          BY <4>2 DEF CaseAuditInv, CaseRowInv, CaseRowOf, TypeInv, TypeOK, RequestInv, Request
        <5>2. req[v].case # c
          BY <2>0, <3>2, <5>1
        <5> QED BY <1>1, <3>2, <5>1, <5>2 DEF Commit, Release, Freed
      <4> QED BY <1>0, <4>1, <4>2 DEF CaseAuditInv, CaseRowInv, CaseRowOf
    <3> QED BY <3>1, <3>2
  <2> QED BY <2>2, <2>3, <2>4 DEF CaseAuditInv, CaseRowInv, CaseRowOf
<1> QED BY <1>2, <1>3

LEMMA CaseAuditStep ==
  ASSUME TypeInv, CaseAuditInv, TypeInv', NEW w \in Worker, Step(w)
  PROVE  CaseAuditInv'
<1>0. /\ TypeOK /\ RequestInv
      /\ \A k \in Case : clock[k] \in Nat
  BY DEF TypeInv, TypeOK
<1>1. CASE InsertCase(w)
  <2> DEFINE e == CreatedEvent(Tick(CaseOf(w)))
  <2>1. CaseOf(w) \in Case /\ Tick(CaseOf(w)) \in Nat
    BY <1>0, <1>1, Serving, TickedType DEF InsertCase
  <2>2. e \in StatusEvent /\ NewRow \in Row
    BY <2>1, RuleTypes
  <2>3. /\ e.at = Tick(CaseOf(w)) /\ NewRow.status = e.to
        /\ NewRow.sla = SlaHours(e.toPriority) /\ NewRow.priority = e.toPriority
    BY DEF CreatedEvent, NewRow
  <2>4. /\ txn'[w].row = NewRow /\ txn'[w].event = e
        /\ \A v \in Worker : v # w => txn'[v] = txn[v]
    BY <1>0, <1>1 DEF InsertCase, TypeOK, Txn
  <2>5. /\ pc[w] = "insert" /\ CaseRowFree(w) /\ Ticked(CaseOf(w))
        /\ caseLock' = [caseLock EXCEPT ![CaseOf(w)] = w]
        /\ pc' = [pc EXCEPT ![w] = "evidence"] /\ UNCHANGED <<tables, req>>
        /\ overtaken' = overtaken
    BY <1>1 DEF InsertCase, records
  <2> HIDE DEF e
  <2> QED BY <2>2, <2>3, <2>4, <2>5, CaseAuditWrite
<1>2. CASE UpdateCase(w)
  <2> DEFINE e == UpdatedEvent(w)
  <2>1. CaseOf(w) \in Case /\ Tick(CaseOf(w)) \in Nat
    BY <1>0, <1>2, Serving, TickedType DEF UpdateCase
  <2>2. /\ held[w] \in Row /\ row[CaseOf(w)] \in Row
        /\ Updated(w) \in Row /\ SavedRow(w) \in Row
        /\ SavedRow(w).status = Updated(w).status
        /\ SavedRow(w).sla = SlaHours(Updated(w).priority)
    BY <1>2, UpdatedType DEF UpdateCase
  <2>3. e \in StatusEvent
    BY <2>1, <2>2 DEF UpdatedEvent, StatusEvent, Row
  <2>4. /\ e.at = Tick(CaseOf(w)) /\ SavedRow(w).status = e.to
        /\ SavedRow(w).sla = SlaHours(e.toPriority)
    BY <2>2 DEF UpdatedEvent
  <2>5. /\ txn'[w].row = SavedRow(w) /\ txn'[w].event = e
        /\ \A v \in Worker : v # w => txn'[v] = txn[v]
    BY <1>0, <1>2 DEF UpdateCase, TypeOK, Txn
  <2>6. /\ pc[w] = "service" /\ CaseRowFree(w) /\ Ticked(CaseOf(w))
        /\ caseLock' = [caseLock EXCEPT ![CaseOf(w)] = w]
        /\ pc' = [pc EXCEPT ![w] = "evidence"] /\ UNCHANGED <<tables, req>>
    BY <1>2 DEF UpdateCase
  <2>7. \A c \in Case : overtaken[c] \subseteq overtaken'[c]
    BY <1>0, <1>2 DEF UpdateCase, TypeOK
  <2>8. e.at \in overtaken'[CaseOf(w)] \/ SavedRow(w).priority = e.toPriority
    <3>1. CASE held[w] = row[CaseOf(w)]
      BY <2>2, <3>1 DEF SavedRow, Updated, UpdatedEvent, Row
    <3>2. CASE held[w] # row[CaseOf(w)]
      BY <1>0, <1>2, <2>1, <2>4, <3>2 DEF UpdateCase, TypeOK
    <3> QED BY <3>1, <3>2
  <2> HIDE DEF e
  <2> QED BY <2>2, <2>3, <2>4, <2>5, <2>6, <2>7, <2>8, CaseAuditWrite
<1>3. CASE Rollback(w)
  BY <1>3, StepKinds, CaseAuditRollback
<1>4. CASE Commit(w)
  BY <1>4, CaseAuditCommit
<1>5. CASE Works(w) /\ Inner(w) /\ ~InsertCase(w) /\ ~UpdateCase(w)
  <2>1. UNCHANGED <<row, history, caseLock, overtaken, req>>
    <3>1. UNCHANGED <<row, history, req>>
      BY <1>5 DEF Works, tables
    <3>2. UNCHANGED <<caseLock, overtaken>>
      BY <1>5, ScoreEffects DEF Inner, ReloadCase, NoteOnlyResponse, AddNote, InsertDocument,
         locks, records
    <3> QED BY <3>1, <3>2
  <2>2. txn'[w].row = txn[w].row /\ txn'[w].event = txn[w].event
    <3>0. txn[w] \in Txn /\ txn \in [Worker -> Txn]
      BY <1>0 DEF TypeOK
    <3>1. CASE ReloadCase(w) \/ NoteOnlyResponse(w)
      BY <3>1 DEF ReloadCase, NoteOnlyResponse
    <3>2. CASE AddNote(w)
      BY <3>0, <3>2 DEF AddNote, Txn
    <3>3. CASE InsertDocument(w)
      <4>1. PICK d \in Doc :
              txn' = [txn EXCEPT
                        ![w].docs = {[id |-> d, role |-> req[w].role]},
                        ![w].activity = <<Happened("document_uploaded", d)>>]
        BY <3>3 DEF InsertDocument
      <4> QED BY <3>0, <4>1 DEF Txn
    <3> QED BY <1>5, <3>1, <3>2, <3>3, ScoreEffects DEF Inner
  <2>3. \A v \in Worker : txn'[v].row = txn[v].row /\ txn'[v].event = txn[v].event
    BY <1>5, <2>2 DEF Works
  <2>4. \A v \in Worker : txn[v].event # None => req'[v] = req[v] /\ pc'[v] # "idle"
    BY <1>5, <2>1 DEF Works, CaseAuditInv, CaseRowInv, CaseRowOf
  <2> QED BY <1>5, <2>1, <2>3, <2>4, CaseAuditFrame DEF Works
<1> QED BY <1>1, <1>2, <1>3, <1>4, <1>5, StepKinds

LEMMA CaseAuditStart ==
  ASSUME TypeInv, CaseAuditInv, TypeInv', NEW w \in Worker, Start(w)
  PROVE  CaseAuditInv'
<1>1. PICK r, next : next # "idle" /\ Arrive(w, r, next)
  BY DEF Start, StartCreate, StartApiStatus, StartCaseUpdate, StartRequestInfo,
         StartAddNote, StartUpload, StartMerchantResponse
<1>2. UNCHANGED <<row, history, caseLock, clock, txn, overtaken>>
  BY <1>1 DEF Arrive, tables, locks, records
<1>3. \A v \in Worker : pc[v] # "idle" => req'[v] = req[v] /\ pc'[v] # "idle"
  BY <1>1 DEF Arrive, TypeInv, TypeOK
<1>4. \A v \in Worker : txn[v].event # None => req'[v] = req[v] /\ pc'[v] # "idle"
  BY <1>3 DEF CaseAuditInv, CaseRowInv, CaseRowOf
<1>5. \A c \in Case : clock[c] <= clock'[c]
  BY <1>2 DEF TypeInv, TypeOK
<1> QED BY <1>2, <1>4, <1>5, CaseAuditFrame

LEMMA CaseAuditPreserved ==
  TypeInv /\ CaseAuditInv /\ [Next]_vars => CaseAuditInv'
<1> SUFFICES ASSUME TypeInv, CaseAuditInv, [Next]_vars
             PROVE  CaseAuditInv'
  OBVIOUS
<1>0. TypeInv'
  BY TypePreserved
<1>1. ASSUME NEW w \in Worker, Start(w)
      PROVE  CaseAuditInv'
  BY <1>0, <1>1, CaseAuditStart
<1>2. ASSUME NEW w \in Worker, Step(w)
      PROVE  CaseAuditInv'
  BY <1>0, <1>2, CaseAuditStep
<1>3. ASSUME NEW w \in Worker, Crash(w)
      PROVE  CaseAuditInv'
  BY <1>3, CaseAuditRollback DEF Crash
<1>4. CASE UNCHANGED vars
  BY <1>4 DEF vars, tables, locks, records, CaseAuditInv, CaseRowInv, CaseRowOf,
     RowMatchesAudit
<1> QED BY <1>1, <1>2, <1>3, <1>4 DEF Next, Drained

LEMMA CaseAuditInitially == Init => CaseAuditInv
BY DEF Init, CaseAuditInv, CaseRowInv, CaseRowOf, RowMatchesAudit, EmptyTxn

\* However requests overlap, fail and crash, the row of a case carries the
\* status and the deadline its latest status event reports, and its priority
\* too, unless that update was decided on a row that had changed since.
THEOREM RowAlwaysMatchesAudit == Spec => []RowMatchesAudit
<1>1. Spec => [](TypeInv /\ CaseAuditInv)
  BY CaseAuditInitially, TypeInitially, TypePreserved, CaseAuditPreserved, PTL DEF Spec
<1>2. CaseAuditInv => RowMatchesAudit
  BY DEF CaseAuditInv
<1> QED BY <1>1, <1>2, PTL

--------------------------------------------------------------------------------
(* The RiskScore row and the latest risk_scored event *)

RiskAuditInv == RiskRowInv /\ RiskMatchesAudit

\* The steps before score_case_and_persist leave nothing of a score behind.
LEMMA BeforeScoring ==
  ASSUME TypeInv, NEW w \in Worker, Inner(w), ~Scores(w)
  PROVE  /\ pc[w] \in {"insert", "form", "service"} /\ txn[w] = EmptyTxn
         /\ pc'[w] \in {"service", "evidence", "commit"}
         /\ txn'[w].risk = None /\ txn'[w].scored = None
         /\ UNCHANGED <<riskLock, late>>
<1>0. /\ pc \in [Worker -> PC] /\ txn \in [Worker -> Txn] /\ txn[w] \in Txn
      /\ EmptyTxn.risk = None /\ EmptyTxn.scored = None
  BY DEF TypeInv, TypeOK, EmptyTxn
<1>1. pc[w] \in {"insert", "form", "service"} /\ txn[w] = EmptyTxn
  BY DEF Inner, ReloadCase, NoteOnlyResponse, InsertCase, UpdateCase, AddNote,
     InsertDocument, TypeInv, RequestInv
<1>2. CASE ReloadCase(w) \/ NoteOnlyResponse(w)
  BY <1>0, <1>1, <1>2 DEF ReloadCase, NoteOnlyResponse, locks, records
<1>3. CASE InsertCase(w)
  BY <1>0, <1>1, <1>3 DEF InsertCase, Txn, records
<1>4. CASE UpdateCase(w)
  BY <1>0, <1>1, <1>4 DEF UpdateCase, Txn
<1>5. CASE AddNote(w)
  BY <1>0, <1>1, <1>5 DEF AddNote, Txn, locks, records
<1>6. CASE InsertDocument(w)
  <2>1. PICK d \in Doc :
          txn' = [txn EXCEPT
                    ![w].docs = {[id |-> d, role |-> req[w].role]},
                    ![w].activity = <<Happened("document_uploaded", d)>>]
    BY <1>6 DEF InsertDocument
  <2>2. txn'[w].risk = None /\ txn'[w].scored = None
    BY <1>0, <1>1, <2>1 DEF Txn
  <2> QED
    BY <1>0, <1>1, <1>6, <2>2 DEF InsertDocument, locks, records
<1> QED
  BY <1>2, <1>3, <1>4, <1>5, <1>6 DEF Inner

\* A transaction that another worker's step does not touch
LEMMA RiskKept ==
  ASSUME TypeInv, NEW v \in Worker, RiskRowOf(v),
         txn'[v] = txn[v], pc'[v] = pc[v], pc[v] # "idle" => req'[v] = req[v],
         \A c \in Case : clock[c] <= clock'[c], clock' \in [Case -> Nat],
         txn[v].risk # None => riskLock'[req[v].case] = v,
         txn[v].scored # None => scored'[req[v].case] = scored[req[v].case]
  PROVE  RiskRowOf(v)'
<1>1. SUFFICES ASSUME txn[v].risk # None
               PROVE  RiskRowOf(v)'
  BY DEF RiskRowOf
<1>2. pc[v] # "idle" /\ req'[v] = req[v] /\ req[v].case \in Case /\ txn[v] \in Txn
  BY <1>1, Serving DEF RiskRowOf, CaseOf
<1>3. ASSUME txn[v].scored # None
      PROVE  txn[v].scored.at <= clock'[req[v].case]
  <2>1. txn[v].scored.at \in Nat /\ txn[v].scored.at <= clock[req[v].case]
    BY <1>2, <1>3 DEF RiskRowOf, Txn, ScoredEvent
  <2> QED
    BY <1>2, <2>1 DEF TypeInv, TypeOK
<1> QED
  BY <1>1, <1>2, <1>3 DEF RiskRowOf

LEMMA EmptyRisk ==
  ASSUME NEW v \in Worker, txn'[v].risk = None, txn'[v].scored = None
  PROVE  RiskRowOf(v)'
BY DEF RiskRowOf

\* The events stay behind the clock.
LEMMA RiskTables ==
  ASSUME TypeInv, RiskAuditInv, UNCHANGED <<risk, scored>>,
         \A c \in Case : clock[c] <= clock'[c], clock' \in [Case -> Nat]
  PROVE  /\ RiskMatchesAudit'
         /\ \A c \in Case : \A e \in scored'[c] : e.at <= clock'[c]
<1>1. RiskMatchesAudit'
  BY DEF RiskAuditInv, RiskMatchesAudit
<1>2. \A c \in Case : \A e \in scored'[c] : e.at <= clock'[c]
  BY DEF RiskAuditInv, RiskRowInv, TypeInv, TypeOK, ScoredEvent
<1> QED
  BY <1>1, <1>2

\* The end of a request: w gives its own locks back, and no other's.
LEMMA OthersKeepRiskLock ==
  ASSUME TypeInv, NEW w \in Worker, NEW v \in Worker, v # w, RiskRowOf(v),
         riskLock' = Freed(riskLock, w), txn[v].risk # None
  PROVE  riskLock'[req[v].case] = v
<1>1. pc[v] # "idle" /\ req[v].case \in Case /\ riskLock[req[v].case] = v
  BY Serving DEF RiskRowOf, CaseOf
<1> QED
  BY <1>1 DEF Freed

LEMMA RiskAuditRollback ==
  ASSUME TypeInv, RiskAuditInv, NEW w \in Worker, pc[w] # "idle", Rollback(w)
  PROVE  RiskAuditInv'
<1>1. /\ UNCHANGED <<risk, scored, clock>> /\ riskLock' = Freed(riskLock, w)
      /\ txn'[w] = EmptyTxn /\ clock' \in [Case -> Nat]
      /\ \A v \in Worker : v # w => txn'[v] = txn[v] /\ pc'[v] = pc[v] /\ req'[v] = req[v]
  BY DEF Rollback, Release, tables, TypeInv, TypeOK
<1>2. \A c \in Case : clock[c] <= clock'[c]
  BY <1>1
<1>3. \A v \in Worker : RiskRowOf(v)'
  <2>1. RiskRowOf(w)'
    BY <1>1, EmptyRisk DEF EmptyTxn
  <2>2. \A v \in Worker : v # w => RiskRowOf(v)'
    BY <1>1, <1>2, RiskKept, OthersKeepRiskLock DEF RiskAuditInv, RiskRowInv
  <2> QED
    BY <2>1, <2>2
<1> QED
  BY <1>1, <1>2, <1>3, RiskTables DEF RiskAuditInv, RiskRowInv

\* The savepoint of an upload whose rescoring failed is rolled back.
LEMMA RiskAuditSwallow ==
  ASSUME TypeInv, RiskAuditInv, NEW w \in Worker, RescoreSwallowed(w)
  PROVE  RiskAuditInv'
<1>1. /\ UNCHANGED <<risk, scored, clock, req>> /\ riskLock' = Freed(riskLock, w)
      /\ txn'[w] = AfterSwallow(txn[w]) /\ clock' \in [Case -> Nat]
      /\ \A v \in Worker : v # w => txn'[v] = txn[v] /\ pc'[v] = pc[v]
  BY DEF RescoreSwallowed, tables, TypeInv, TypeOK
<1>2. \A c \in Case : clock[c] <= clock'[c]
  BY <1>1
<1>3. \A v \in Worker : RiskRowOf(v)'
  <2>1. txn'[w].risk = None /\ txn'[w].scored = None
    BY <1>1 DEF AfterSwallow, TypeInv, TypeOK, Txn
  <2>2. RiskRowOf(w)'
    BY <2>1, EmptyRisk
  <2>3. \A v \in Worker : v # w => RiskRowOf(v)'
    BY <1>1, <1>2, RiskKept, OthersKeepRiskLock DEF RiskAuditInv, RiskRowInv
  <2> QED
    BY <2>2, <2>3
<1> QED
  BY <1>1, <1>2, <1>3, RiskTables DEF RiskAuditInv, RiskRowInv

\* update_or_create, once the RiskScore row is free.
LEMMA RiskAuditPersist ==
  ASSUME TypeInv, RiskAuditInv, NEW w \in Worker, PersistRisk(w)
  PROVE  RiskAuditInv'
<1>1. /\ UNCHANGED <<risk, scored, clock, req>> /\ clock' \in [Case -> Nat]
      /\ pc[w] = "persist" /\ pc'[w] = "log" /\ CaseOf(w) \in Case /\ RiskRowFree(w)
      /\ riskLock' = [riskLock EXCEPT ![CaseOf(w)] = w]
      /\ \A v \in Worker : v # w => txn'[v] = txn[v] /\ pc'[v] = pc[v]
  <2>1. pc[w] = "persist" /\ CaseOf(w) \in Case
    BY Serving DEF PersistRisk
  <2> QED
    BY <2>1 DEF PersistRisk, tables, TypeInv, TypeOK
<1>2. \A c \in Case : clock[c] <= clock'[c]
  BY <1>1
<1>3. RiskRowOf(w)'
  <2>1. txn[w].scored = None
    BY <1>1 DEF RiskAuditInv, RiskRowInv, RiskRowOf
  <2>2. PICK m \in Scorer :
          txn' = [txn EXCEPT ![w].risk = [model |-> m, features |-> txn[w].read]]
    BY DEF PersistRisk
  <2>3. txn'[w].scored = None
    BY <2>1, <2>2 DEF TypeInv, TypeOK, Txn
  <2>4. riskLock'[req'[w].case] = w
    BY <1>1 DEF TypeInv, TypeOK, CaseOf
  <2> QED
    BY <1>1, <2>3, <2>4 DEF RiskRowOf
<1>4. ASSUME NEW v \in Worker, v # w
      PROVE  RiskRowOf(v)'
  <2>1. ASSUME txn[v].risk # None
        PROVE  riskLock'[req[v].case] = v
    <3>1. pc[v] # "idle" /\ req[v].case \in Case /\ riskLock[req[v].case] = v
      BY <2>1, Serving DEF RiskAuditInv, RiskRowInv, RiskRowOf, CaseOf
    <3>2. req[v].case # CaseOf(w)
      BY <1>1, <3>1, NoneAssumption DEF RiskRowFree
    <3> QED
      BY <1>1, <3>1, <3>2 DEF TypeInv, TypeOK
  <2> QED
    BY <1>1, <1>2, <1>4, <2>1, RiskKept DEF RiskAuditInv, RiskRowInv
<1> QED
  BY <1>1, <1>2, <1>3, <1>4, RiskTables DEF RiskAuditInv, RiskRowInv

\* The insert of the event of the row that was just written.
LEMMA RiskAuditLog ==
  ASSUME TypeInv, RiskAuditInv, NEW w \in Worker, LogRisk(w)
  PROVE  RiskAuditInv'
<1> DEFINE c == CaseOf(w)
           e == [at |-> Tick(c), triggeredBy |-> TriggerOf(req[w].kind),
                 result |-> txn[w].risk]
<1>1. /\ pc[w] = "log" /\ pc'[w] = "commit" /\ c \in Case /\ c = req[w].case
      /\ txn[w].risk # None /\ Ticked(c)
      /\ txn' = [txn EXCEPT ![w].scored = e]
      /\ \A v \in Worker : v # w => txn'[v] = txn[v] /\ pc'[v] = pc[v]
  <2>1. pc[w] = "log" /\ c \in Case
    BY Serving DEF LogRisk
  <2> QED
    BY <2>1 DEF LogRisk, TypeInv, TypeOK, RequestInv, CaseOf
<1>2. UNCHANGED <<risk, scored, riskLock, req>>
  BY DEF LogRisk, tables, locks
<1>3. /\ \A k \in Case : clock[k] <= clock'[k]
      /\ clock' \in [Case -> Nat]
      /\ clock[c] \in Nat /\ Tick(c) = clock[c] + 1 /\ clock'[c] = clock[c] + 1
  BY <1>1 DEF TypeInv, TypeOK, Ticked, Tick
<1>4. RiskRowOf(w)'
  <2>1. riskLock[c] = w
    BY <1>1 DEF RiskAuditInv, RiskRowInv, RiskRowOf
  <2>2. \A f \in scored[c] : f.at < e.at
    BY <1>1, <1>3 DEF RiskAuditInv, RiskRowInv, TypeInv, TypeOK, ScoredEvent
  <2>3. e.at <= clock'[c] /\ e.result = txn[w].risk
    BY <1>3
  <2>4. e # None
    <3>1. txn[w].risk \in RiskRow /\ TriggerOf(req[w].kind) \in Trigger
      BY <1>1 DEF TypeInv, TypeOK, Txn, TriggerOf, Trigger
    <3>2. e \in ScoredEvent
      BY <1>3, <3>1 DEF ScoredEvent
    <3> QED
      BY <3>2, NoneAssumption
  <2> HIDE DEF e
  <2>5. txn'[w].scored = e /\ txn'[w].risk = txn[w].risk
    BY <1>1 DEF TypeInv, TypeOK, Txn
  <2> QED
    BY <1>1, <1>2, <2>1, <2>2, <2>3, <2>4, <2>5 DEF RiskRowOf
<1>5. ASSUME NEW v \in Worker, v # w
      PROVE  RiskRowOf(v)'
  <2>1. txn[v].risk # None => riskLock'[req[v].case] = v
    BY <1>2 DEF RiskAuditInv, RiskRowInv, RiskRowOf
  <2> QED
    BY <1>1, <1>2, <1>3, <1>5, <2>1, RiskKept DEF RiskAuditInv, RiskRowInv
<1> QED
  BY <1>2, <1>3, <1>4, <1>5, RiskTables DEF RiskAuditInv, RiskRowInv

LEMMA RiskAuditCommit ==
  ASSUME TypeInv, RiskAuditInv, NEW w \in Worker, Commit(w)
  PROVE  RiskAuditInv'
<1> DEFINE c == CaseOf(w)
           t == txn[w]
<1>0. /\ pc[w] = "commit" /\ c \in Case /\ c = req[w].case /\ t \in Txn
      /\ clock' = clock /\ clock \in [Case -> Nat] /\ clock' \in [Case -> Nat]
      /\ t.scored # None => t.scored \in ScoredEvent
      /\ txn'[w] = EmptyTxn /\ riskLock' = Freed(riskLock, w)
  BY Serving DEF CaseOf, TypeInv, TypeOK, Commit, Release, Txn
<1>1. \A k \in Case : k # c => risk'[k] = risk[k] /\ scored'[k] = scored[k]
  BY <1>0 DEF Commit, TypeInv, TypeOK
<1>2. \A v \in Worker : v # w => pc'[v] = pc[v] /\ req'[v] = req[v] /\ txn'[v] = txn[v]
  BY DEF TypeInv, TypeOK, Commit, Release
<1>3. \A k \in Case : clock[k] <= clock'[k]
  BY <1>0
<1>4. RiskRowOf(w)'
  BY <1>0, EmptyRisk DEF EmptyTxn
<1>5. CASE t.risk = None
  <2>1. t.scored = None
    BY <1>5 DEF RiskAuditInv, RiskRowInv, RiskRowOf
  <2>2. risk' = risk /\ scored' = scored
    BY <1>0, <1>5, <2>1 DEF Commit, Added, TypeInv, TypeOK
  <2>3. \A v \in Worker : v # w => RiskRowOf(v)'
    BY <1>0, <1>2, <1>3, <2>2, RiskKept, OthersKeepRiskLock DEF RiskAuditInv, RiskRowInv
  <2> QED
    BY <1>0, <1>3, <1>4, <2>2, <2>3, RiskTables DEF RiskAuditInv, RiskRowInv
<1>6. CASE t.risk # None
  <2>0. /\ riskLock[c] = w /\ t.scored # None /\ t.scored.result = t.risk
        /\ t.scored.at <= clock[c] /\ \A e \in scored[c] : e.at < t.scored.at
    BY <1>0, <1>6 DEF RiskAuditInv, RiskRowInv, RiskRowOf
  <2>1. risk'[c] = t.risk /\ scored'[c] = scored[c] \cup {t.scored}
    BY <1>0, <1>6, <2>0 DEF Commit, Added, TypeInv, TypeOK
  <2>2. RiskMatchesAudit'
    <3> SUFFICES ASSUME NEW k \in Case, NEW e \in scored'[k], Latest(e, scored'[k])
                 PROVE  risk'[k] = e.result
      BY DEF RiskMatchesAudit, Latest
    <3>1. CASE k # c
      BY <1>1, <3>1 DEF RiskAuditInv, RiskMatchesAudit, Latest
    <3>2. CASE k = c
      <4>1. t.scored.at <= e.at
        BY <2>1, <3>2 DEF Latest
      <4>2. e \notin scored[c]
        <5>1. ASSUME e \in scored[c]
              PROVE  FALSE
          <6>1. e.at \in Nat /\ t.scored.at \in Nat
            BY <1>0, <2>0, <5>1 DEF TypeInv, TypeOK, ScoredEvent
          <6> QED BY <2>0, <4>1, <5>1, <6>1
        <5> QED BY <5>1
      <4> QED BY <2>0, <2>1, <3>2, <4>2
    <3> QED BY <3>1, <3>2
  <2>3. \A k \in Case : \A e \in scored'[k] : e.at <= clock'[k]
    BY <1>0, <1>1, <2>0, <2>1 DEF RiskAuditInv, RiskRowInv
  <2>4. ASSUME NEW v \in Worker, v # w
        PROVE  RiskRowOf(v)'
    <3>1. ASSUME txn[v].risk # None
          PROVE  scored'[req[v].case] = scored[req[v].case]
      <4>1. pc[v] # "idle" /\ req[v].case \in Case /\ riskLock[req[v].case] = v
        BY <3>1, Serving DEF RiskAuditInv, RiskRowInv, RiskRowOf, CaseOf
      <4> QED
        BY <1>1, <2>0, <2>4, <4>1
    <3>2. txn[v].scored # None => txn[v].risk # None
      BY DEF RiskAuditInv, RiskRowInv, RiskRowOf
    <3> QED
      BY <1>0, <1>2, <1>3, <2>4, <3>1, <3>2, RiskKept, OthersKeepRiskLock
         DEF RiskAuditInv, RiskRowInv
  <2> QED BY <1>4, <2>2, <2>3, <2>4 DEF RiskAuditInv, RiskRowInv
<1> QED BY <1>5, <1>6

\* The steps that neither write nor log a score
LEMMA RiskAuditOther ==
  ASSUME TypeInv, TypeInv', RiskAuditInv, NEW w \in Worker, Works(w),
         ReadFeature(w) \/ (Inner(w) /\ ~Scores(w))
  PROVE  RiskAuditInv'
<1>1. /\ txn'[w].risk = None /\ txn'[w].scored = None
      /\ riskLock' = riskLock
  <2>1. CASE ReadFeature(w)
    <3>1. txn[w].risk = None /\ txn[w].scored = None
      BY <2>1 DEF ReadFeature, Query, RiskAuditInv, RiskRowInv, RiskRowOf
    <3> QED
      BY <2>1, <3>1 DEF ReadFeature, locks, TypeInv, TypeOK, Txn
  <2>2. CASE Inner(w) /\ ~Scores(w)
    BY <2>2, BeforeScoring
  <2> QED
    BY <2>1, <2>2
<1>2. /\ UNCHANGED <<risk, scored, req>> /\ clock' \in [Case -> Nat]
      /\ \A c \in Case : clock[c] <= clock'[c]
      /\ \A v \in Worker : v # w => txn'[v] = txn[v] /\ pc'[v] = pc[v]
  BY DEF Works, tables, TypeInv, TypeOK
<1>3. RiskRowOf(w)'
  BY <1>1, EmptyRisk
<1>4. ASSUME NEW v \in Worker, v # w
      PROVE  RiskRowOf(v)'
  <2>1. txn[v].risk # None => riskLock'[req[v].case] = v
    BY <1>1 DEF RiskAuditInv, RiskRowInv, RiskRowOf
  <2> QED
    BY <1>2, <1>4, <2>1, RiskKept DEF RiskAuditInv, RiskRowInv
<1> QED
  BY <1>2, <1>3, <1>4, RiskTables DEF RiskAuditInv, RiskRowInv

LEMMA RiskAuditPreserved ==
  TypeInv /\ RiskAuditInv /\ [Next]_vars => RiskAuditInv'
<1> SUFFICES ASSUME TypeInv, RiskAuditInv, [Next]_vars
             PROVE  RiskAuditInv'
  OBVIOUS
<1>0. TypeInv'
  BY TypePreserved
<1>1. ASSUME NEW w \in Worker, Start(w)
      PROVE  RiskAuditInv'
  <2> PICK r, next : Starts(w, r, next)
    BY <1>1, StartForms
  <2>1. /\ UNCHANGED <<risk, scored, riskLock, clock, txn>> /\ clock' \in [Case -> Nat]
        /\ pc[w] = "idle"
        /\ \A v \in Worker : v # w => pc'[v] = pc[v] /\ req'[v] = req[v]
    BY DEF Starts, Arrive, tables, locks, TypeInv, TypeOK
  <2>2. \A c \in Case : clock[c] <= clock'[c]
    BY <2>1
  <2>3. RiskRowOf(w)'
    BY <2>1, EmptyRisk DEF TypeInv, RequestInv, EmptyTxn
  <2>4. ASSUME NEW v \in Worker, v # w
        PROVE  RiskRowOf(v)'
    <3>1. txn[v].risk # None => riskLock'[req[v].case] = v
      BY <2>1 DEF RiskAuditInv, RiskRowInv, RiskRowOf
    <3> QED
      BY <2>1, <2>2, <2>4, <3>1, RiskKept DEF RiskAuditInv, RiskRowInv
  <2> QED
    BY <2>1, <2>2, <2>3, <2>4, RiskTables DEF RiskAuditInv, RiskRowInv
<1>2. ASSUME NEW w \in Worker, Step(w)
      PROVE  RiskAuditInv'
  BY <1>0, <1>2, StepKinds, RiskAuditRollback, RiskAuditCommit, RiskAuditOther,
     RiskAuditSwallow, RiskAuditPersist, RiskAuditLog DEF Scores
<1>3. ASSUME NEW w \in Worker, Crash(w)
      PROVE  RiskAuditInv'
  BY <1>3, RiskAuditRollback DEF Crash
<1>4. CASE UNCHANGED vars
  BY <1>4 DEF vars, tables, locks, RiskAuditInv, RiskRowInv, RiskRowOf, RiskMatchesAudit
<1> QED BY <1>1, <1>2, <1>3, <1>4 DEF Next, Drained

LEMMA RiskInitially == Init => RiskAuditInv
BY DEF Init, RiskAuditInv, RiskRowInv, RiskRowOf, RiskMatchesAudit, EmptyTxn

\* However scorings race, fail (also after the row is written) and crash, the
\* RiskScore of a case is the one its latest risk_scored event reports.
THEOREM RiskAlwaysMatchesAudit == Spec => []RiskMatchesAudit
<1>1. Spec => [](TypeInv /\ RiskAuditInv)
  BY TypeInitially, RiskInitially, TypePreserved, RiskAuditPreserved, PTL DEF Spec
<1>2. RiskAuditInv => RiskMatchesAudit
  BY DEF RiskAuditInv
<1> QED BY <1>1, <1>2, PTL

--------------------------------------------------------------------------------
(* Cases are created whole *)

\* While w creates a case nobody else can: it holds the lock of the key.
CreationOf(w) ==
  /\ pc[w] \in Scoring \cup {"commit"} /\ req[w].kind = "create" =>
       /\ row[CaseOf(w)] = None /\ caseLock[CaseOf(w)] = w
       /\ txn[w].row # None /\ txn[w].event # None /\ txn[w].event.from = None
  /\ pc[w] # "idle" /\ req[w].kind # "create" =>
       /\ row[CaseOf(w)] # None
       /\ txn[w].event # None => txn[w].event.from # None
  /\ pc[w] = "service" => req[w].kind # "create"
  /\ txn[w].scored # None =>
       txn[w].risk # None /\ txn[w].scored.triggeredBy = TriggerOf(req[w].kind)
  /\ pc[w] = "commit" /\ req[w].kind = "create" => txn[w].scored # None

CreationInv == CreatedWhole /\ \A w \in Worker : CreationOf(w)

\* A request in whose case nothing was created meanwhile, and whose lock stays
LEMMA OthersCreate ==
  ASSUME TypeInv, NEW v \in Worker, CreationOf(v),
         txn'[v] = txn[v], pc'[v] = pc[v], req'[v] = req[v],
         pc[v] # "idle" =>
           /\ row[CaseOf(v)] # None => row'[CaseOf(v)] # None
           /\ caseLock[CaseOf(v)] = v =>
                /\ caseLock'[CaseOf(v)] = v
                /\ row[CaseOf(v)] = None => row'[CaseOf(v)] = None
  PROVE  CreationOf(v)'
BY DEF CreationOf, CaseOf, Scoring, Query

LEMMA IdleCreates ==
  ASSUME NEW v \in Worker, pc'[v] = "idle", txn'[v] = EmptyTxn
  PROVE  CreationOf(v)'
BY DEF CreationOf, EmptyTxn, Scoring, Query

LEMMA CreationWork ==
  ASSUME TypeInv, CreationInv, NEW w \in Worker, Works(w), Inner(w)
  PROVE  CreationInv'
<1>0. /\ pc \in [Worker -> PC] /\ txn \in [Worker -> Txn] /\ txn[w] \in Txn
      /\ caseLock \in [Case -> Worker \cup {None}]
      /\ pc[w] # "idle" /\ pc'[w] # "idle"
      /\ row' = row /\ history' = history /\ risk' = risk /\ scored' = scored /\ req' = req
      /\ CreationOf(w) /\ CaseOf(w) \in Case
  BY Serving DEF TypeInv, TypeOK, Works, tables, CreationInv
<1>1. CreatedWhole'
  BY <1>0 DEF CreationInv, CreatedWhole
<1>2. ASSUME NEW v \in Worker, v # w
      PROVE  CreationOf(v)'
  <2>1. \A c \in Case : caseLock[c] = v => caseLock'[c] = v
    BY <1>2, NoneAssumption DEF Works
  <2>2. pc[v] # "idle" => CaseOf(v) \in Case
    BY Serving
  <2> QED
    BY <1>0, <1>2, <2>1, <2>2, OthersCreate DEF Works, CreationInv
<1>3. CreationOf(w)'
  <2>1. CASE ReloadCase(w) \/ NoteOnlyResponse(w)
    <3>1. txn'[w] = txn[w] /\ txn[w] = EmptyTxn
      BY <1>0, <2>1 DEF ReloadCase, NoteOnlyResponse, TypeInv, RequestInv
    <3>2. req[w].kind # "create" /\ pc'[w] \in {"service", "commit"}
      BY <1>0, <2>1 DEF ReloadCase, NoteOnlyResponse, TypeInv, RequestInv
    <3> QED
      BY <1>0, <3>1, <3>2 DEF CreationOf, CaseOf, EmptyTxn
  <2>2. CASE InsertCase(w)
    <3>1. /\ txn[w] = EmptyTxn /\ req[w].kind = "create"
          /\ row[CaseOf(w)] = None /\ pc'[w] = "evidence"
          /\ caseLock'[CaseOf(w)] = w
      BY <1>0, <2>2 DEF InsertCase, TypeInv, RequestInv
    <3>2. /\ txn'[w].row = NewRow /\ txn'[w].event = CreatedEvent(Tick(CaseOf(w)))
          /\ txn'[w].scored = None
      BY <1>0, <2>2, <3>1 DEF InsertCase, EmptyTxn, Txn
    <3>3. NewRow # None /\ CreatedEvent(Tick(CaseOf(w))) # None
      <4>1. Tick(CaseOf(w)) \in Nat
        BY <1>0 DEF Tick, TypeInv, TypeOK
      <4> QED
        BY <4>1, RuleTypes, NoneAssumption
    <3>4. txn'[w].event.from = None
      BY <3>2 DEF CreatedEvent
    <3> QED
      BY <1>0, <3>1, <3>2, <3>3, <3>4 DEF CreationOf, CaseOf
  <2>3. CASE UpdateCase(w)
    <3>1. /\ txn[w] = EmptyTxn /\ req[w].kind # "create" /\ pc'[w] = "evidence"
          /\ row[CaseOf(w)] # None /\ held[w] \in Row
      BY <1>0, <2>3, UpdatedType
      DEF UpdateCase, TypeInv, RequestInv, CreationOf, StatusKind
    <3>2. txn'[w].event = UpdatedEvent(w) /\ txn'[w].scored = None
      BY <1>0, <2>3, <3>1 DEF UpdateCase, EmptyTxn, Txn
    <3>3. txn'[w].event.from # None
      BY <3>1, <3>2, NoneAssumption DEF UpdatedEvent, Row
    <3> QED
      BY <1>0, <3>1, <3>2, <3>3 DEF CreationOf, CaseOf
  <2>4. CASE AddNote(w) \/ InsertDocument(w)
    <3>1. /\ txn[w] = EmptyTxn /\ req[w].kind # "create"
          /\ row[CaseOf(w)] # None
      BY <1>0, <2>4
      DEF AddNote, InsertDocument, TypeInv, RequestInv, CreationOf, UploadKind
    <3>2. txn'[w].event = None /\ txn'[w].scored = None
      <4>1. CASE AddNote(w)
        BY <1>0, <3>1, <4>1 DEF AddNote, EmptyTxn, Txn
      <4>2. CASE InsertDocument(w)
        <5>1. PICK d \in Doc :
                txn' = [txn EXCEPT
                          ![w].docs = {[id |-> d, role |-> req[w].role]},
                          ![w].activity = <<Happened("document_uploaded", d)>>]
          BY <4>2 DEF InsertDocument
        <5> QED
          BY <1>0, <3>1, <5>1 DEF EmptyTxn, Txn
      <4> QED
        BY <2>4, <4>1, <4>2
    <3>3. pc'[w] \in {"evidence", "commit"}
      BY <1>0, <2>4 DEF AddNote, InsertDocument
    <3> QED
      BY <1>0, <3>1, <3>2, <3>3 DEF CreationOf, CaseOf
  <2>5. CASE Scores(w)
    <3>1. /\ pc[w] \in Scoring /\ pc'[w] \in {"first", "merchant", "persist", "log", "commit"}
          /\ pc'[w] = "commit" <=> LogRisk(w) \/ RescoreSwallowed(w)
          /\ txn'[w].row = txn[w].row /\ txn'[w].event = txn[w].event
          /\ caseLock' = caseLock
      BY <2>5, ScoreEffects
    <3>2. /\ txn'[w].scored # None =>
               /\ txn'[w].risk # None
               /\ txn'[w].scored.triggeredBy = TriggerOf(req[w].kind)
          /\ pc'[w] = "commit" /\ req[w].kind = "create" => txn'[w].scored # None
      <4>1. CASE ReadFeature(w)
        <5>1. txn'[w].risk = txn[w].risk /\ txn'[w].scored = txn[w].scored
          BY <1>0, <4>1 DEF ReadFeature, Txn
        <5>2. ~LogRisk(w) /\ ~RescoreSwallowed(w)
          <6>1. pc[w] \in Query /\ pc'[w] # "commit"
            BY <1>0, <4>1 DEF ReadFeature, AfterQuery, Query
          <6> QED
            BY <3>1, <6>1
        <5> QED
          BY <1>0, <3>1, <5>1, <5>2 DEF CreationOf
      <4>2. CASE PersistRisk(w)
        <5>1. PICK m \in Scorer :
                txn' = [txn EXCEPT ![w].risk = [model |-> m, features |-> txn[w].read]]
          BY <4>2 DEF PersistRisk
        <5>2. /\ txn'[w].scored = txn[w].scored
              /\ txn'[w].risk = [model |-> m, features |-> txn[w].read]
          BY <1>0, <5>1 DEF Txn
        <5>3. txn'[w].risk \in RiskRow
          BY <1>0, <5>2 DEF RiskRow, Txn
        <5>4. pc'[w] = "log"
          BY <1>0, <4>2 DEF PersistRisk
        <5> QED
          BY <1>0, <5>2, <5>3, <5>4, NoneAssumption DEF CreationOf
      <4>3. CASE LogRisk(w)
        <5>1. /\ txn'[w].scored = [at |-> Tick(CaseOf(w)),
                                   triggeredBy |-> TriggerOf(req[w].kind),
                                   result |-> txn[w].risk]
              /\ txn'[w].risk = txn[w].risk
          BY <1>0, <4>3 DEF LogRisk, Txn
        <5>2. txn[w].risk # None /\ txn[w].risk \in RiskRow
          BY <1>0, <4>3 DEF LogRisk, TypeInv, RequestInv, Txn
        <5>3. Tick(CaseOf(w)) \in Nat /\ TriggerOf(req[w].kind) \in Trigger
          BY <1>0 DEF Tick, TypeInv, TypeOK, TriggerOf, Trigger
        <5>4. txn'[w].scored \in ScoredEvent
          BY <5>1, <5>2, <5>3 DEF ScoredEvent
        <5>5. txn'[w].scored.triggeredBy = TriggerOf(req[w].kind)
          BY <5>1
        <5> QED
          BY <5>1, <5>2, <5>4, <5>5, NoneAssumption
      <4>4. CASE RescoreSwallowed(w)
        BY <1>0, <4>4 DEF RescoreSwallowed, AfterSwallow, Txn, Swallows, UploadKind
      <4> QED
        BY <2>5, <4>1, <4>2, <4>3, <4>4 DEF Scores
    <3>3. pc'[w] # "service"
      BY <3>1
    <3> QED
      BY <1>0, <3>1, <3>2, <3>3 DEF CreationOf, CaseOf
  <2> QED
    BY <2>1, <2>2, <2>3, <2>4, <2>5 DEF Inner
<1> QED
  BY <1>1, <1>2, <1>3 DEF CreationInv

LEMMA CreationRollback ==
  ASSUME TypeInv, CreationInv, NEW w \in Worker, pc[w] # "idle", Rollback(w)
  PROVE  CreationInv'
<1>0. /\ row' = row /\ history' = history /\ risk' = risk /\ scored' = scored
      /\ txn'[w] = EmptyTxn /\ pc'[w] = "idle"
      /\ \A v \in Worker : v # w => txn'[v] = txn[v] /\ pc'[v] = pc[v] /\ req'[v] = req[v]
  BY DEF Rollback, Release, tables, TypeInv, TypeOK
<1>1. CreatedWhole'
  BY <1>0 DEF CreationInv, CreatedWhole
<1>2. ASSUME NEW v \in Worker, v # w
      PROVE  CreationOf(v)'
  <2>1. \A c \in Case : caseLock[c] = v => caseLock'[c] = v
    BY <1>2 DEF Rollback, Release, Freed
  <2>2. pc[v] # "idle" => CaseOf(v) \in Case
    BY Serving
  <2> QED
    BY <1>0, <1>2, <2>1, <2>2, OthersCreate DEF CreationInv
<1> QED
  BY <1>0, <1>1, <1>2, IdleCreates DEF CreationInv

LEMMA CreationCommit ==
  ASSUME TypeInv, CreationInv, NEW w \in Worker, Commit(w)
  PROVE  CreationInv'
<1> DEFINE c == CaseOf(w)
           t == txn[w]
<1>0. /\ pc[w] = "commit" /\ c \in Case /\ t \in Txn /\ CreationOf(w) /\ CreatedWhole
      /\ txn'[w] = EmptyTxn /\ pc'[w] = "idle"
      /\ \A v \in Worker : v # w => txn'[v] = txn[v] /\ pc'[v] = pc[v] /\ req'[v] = req[v]
  BY Serving DEF Commit, Release, TypeInv, TypeOK, CreationInv
<1>1. /\ row'[c] = (IF t.row = None THEN row[c] ELSE t.row)
      /\ history'[c] = Added(history[c], t.event)
      /\ risk'[c] = (IF t.risk = None THEN risk[c] ELSE t.risk)
      /\ scored'[c] = Added(scored[c], t.scored)
  BY <1>0 DEF Commit, TypeInv, TypeOK
<1>2. \A k \in Case \ {c} : /\ row'[k] = row[k] /\ history'[k] = history[k]
                           /\ risk'[k] = risk[k] /\ scored'[k] = scored[k]
  BY <1>0 DEF Commit, TypeInv, TypeOK
<1> HIDE DEF c, t
<1>3. ASSUME NEW k \in Case, k # c
      PROVE  CreatedWhole!(k)'
  BY <1>0, <1>2, <1>3 DEF CreatedWhole
<1>4. ASSUME NEW k \in Case, k = c
      PROVE  CreatedWhole!(k)'
  <2>1. CASE req[w].kind = "create"
    <3>1. /\ row[c] = None /\ t.row # None /\ t.event # None /\ t.event.from = None
          /\ t.scored # None /\ t.risk # None /\ t.scored.triggeredBy = "case_created"
      BY <1>0, <2>1 DEF CreationOf, TriggerOf, StatusKind, c, t
    <3>2. history[c] = {} /\ scored[c] = {}
      BY <1>0, <3>1 DEF CreatedWhole
    <3>3. /\ row'[c] # None /\ history'[c] = {t.event}
          /\ risk'[c] # None /\ scored'[c] = {t.scored}
      BY <1>1, <3>1, <3>2 DEF Added
    <3>4. {e \in history'[c] : e.from = None} = {t.event}
      BY <3>1, <3>3
    <3> QED
      BY <1>4, <3>1, <3>3, <3>4
  <2>2. CASE req[w].kind # "create"
    <3>1. /\ row[c] # None
          /\ t.event # None => t.event.from # None
          /\ t.scored # None => t.risk # None
      BY <1>0, <2>2 DEF CreationOf, c, t
    <3>2. {e \in history'[c] : e.from = None} = {e \in history[c] : e.from = None}
      BY <1>1, <3>1 DEF Added
    <3>3. /\ row'[c] # None /\ scored[c] \subseteq scored'[c]
          /\ risk[c] # None => risk'[c] # None
      BY <1>1, <3>1 DEF Added
    <3>4. /\ \E e \in {e \in history[c] : e.from = None} :
               {e2 \in history[c] : e2.from = None} = {e}
          /\ \E e \in scored[c] : e.triggeredBy = "case_created"
          /\ risk[c] # None
      BY <1>0, <3>1 DEF CreatedWhole
    <3> QED
      BY <1>4, <3>2, <3>3, <3>4
  <2> QED
    BY <2>1, <2>2
<1>5. CreatedWhole'
  BY <1>3, <1>4 DEF CreatedWhole
<1>6. ASSUME NEW v \in Worker, v # w
      PROVE  CreationOf(v)'
  <2>1. \A k \in Case : caseLock[k] = v => caseLock'[k] = v
    BY <1>6 DEF Commit, Release, Freed
  <2>2. pc[v] # "idle" => CaseOf(v) \in Case
    BY Serving
  <2>3. ASSUME pc[v] # "idle", row[CaseOf(v)] # None
        PROVE  row'[CaseOf(v)] # None
    BY <1>1, <1>2, <2>2, <2>3
  <2>4. ASSUME pc[v] # "idle", caseLock[CaseOf(v)] = v, row[CaseOf(v)] = None
        PROVE  row'[CaseOf(v)] = None
    <3>1. CASE CaseOf(v) # c
      BY <1>2, <2>2, <2>4, <3>1
    <3>2. CASE CaseOf(v) = c
      <4>1. caseLock[c] # w /\ row[c] = None
        BY <1>6, <2>4, <3>2
      <4>2. req[w].kind # "create"
        BY <1>0, <4>1 DEF CreationOf, c
      <4> QED
        BY <1>0, <4>1, <4>2 DEF CreationOf, c
    <3> QED
      BY <3>1, <3>2
  <2> QED
    BY <1>0, <1>6, <2>1, <2>2, <2>3, <2>4, OthersCreate DEF CreationInv
<1> QED
  BY <1>0, <1>5, <1>6, IdleCreates DEF CreationInv

LEMMA CreationPreserved == TypeInv /\ CreationInv /\ [Next]_vars => CreationInv'
<1> SUFFICES ASSUME TypeInv, CreationInv, [Next]_vars
             PROVE  CreationInv'
  OBVIOUS
<1>1. ASSUME NEW w \in Worker, Start(w)
      PROVE  CreationInv'
  <2> PICK r, next : Starts(w, r, next)
    BY <1>1, StartForms
  <2>2. /\ UNCHANGED <<row, history, risk, scored, txn, caseLock>>
        /\ pc[w] = "idle" /\ pc'[w] = next /\ req'[w] = r
        /\ \A v \in Worker : v # w => pc'[v] = pc[v] /\ req'[v] = req[v]
    BY DEF Starts, Arrive, tables, locks, TypeInv, TypeOK
  <2>3. ASSUME NEW v \in Worker, v # w
        PROVE  CreationOf(v)'
    BY <2>2, <2>3, OthersCreate DEF CreationInv
  <2>4. CreationOf(w)'
    <3>1. txn'[w] = EmptyTxn
      BY <2>2 DEF TypeInv, RequestInv
    <3> QED
      BY <2>2, <3>1 DEF Starts, CreationOf, CaseOf, EmptyTxn, Scoring, Query
  <2>5. CreatedWhole'
    BY <2>2 DEF CreationInv, CreatedWhole
  <2> QED
    BY <2>3, <2>4, <2>5 DEF CreationInv
<1>2. ASSUME NEW w \in Worker, Step(w)
      PROVE  CreationInv'
  BY <1>2, StepKinds, CreationWork, CreationRollback, CreationCommit
<1>3. ASSUME NEW w \in Worker, Crash(w)
      PROVE  CreationInv'
  BY <1>3, CreationRollback DEF Crash
<1>4. CASE UNCHANGED vars
  <2>1. UNCHANGED <<row, history, risk, scored, caseLock, txn, pc, req>>
    BY <1>4 DEF vars, tables, locks
  <2> QED
    BY <2>1, OthersCreate DEF CreationInv, CreatedWhole
<1> QED
  BY <1>1, <1>2, <1>3, <1>4 DEF Next, Drained

LEMMA CreationInitially == Init => CreationInv
BY DEF Init, CreationInv, CreatedWhole, CreationOf, EmptyTxn, Scoring, Query

\* A case is created whole or not at all, however many creations of one order
\* reference race and whatever fails on the way (create_return_case).
THEOREM CasesAlwaysCreatedWhole == Spec => []CreatedWhole
<1>1. Spec => [](TypeInv /\ CreationInv)
  BY CreationInitially, TypeInitially, TypePreserved, CreationPreserved, PTL DEF Spec
<1>2. CreationInv => CreatedWhole
  BY DEF CreationInv
<1> QED
  BY <1>1, <1>2, PTL

--------------------------------------------------------------------------------
(* The audit trail of documents *)

Indices(a, type) == {i \in DOMAIN a : a[i].type = type}

\* DocumentsAudited for the activity a and the documents D of a case
Audited(a, D) ==
  /\ {d.id : d \in D} = {a[i].doc : i \in Indices(a, "document_uploaded")}
  /\ Cardinality(D) = Cardinality(Indices(a, "document_uploaded"))
  /\ \A i \in Indices(a, "merchant_response_submitted") :
       a[i].doc \in {None} \cup {d.id : d \in D}

\* What one more event adds
LEMMA OneMore ==
  ASSUME NEW a \in Seq(Activity), NEW x \in Activity
  PROVE  /\ a \o <<x>> \in Seq(Activity)
         /\ Len(a) + 1 \notin DOMAIN a /\ IsFiniteSet(DOMAIN a)
         /\ (a \o <<x>>)[Len(a) + 1] = x
         /\ \A i \in DOMAIN a : (a \o <<x>>)[i] = a[i]
         /\ \A type : Indices(a \o <<x>>, type) =
              Indices(a, type) \cup (IF x.type = type THEN {Len(a) + 1} ELSE {})
<1> DEFINE b == a \o <<x>>
<1>1. /\ Len(a) \in Nat /\ DOMAIN a = 1..Len(a)
      /\ <<x>> \in Seq(Activity) /\ Len(<<x>>) = 1 /\ <<x>>[1] = x
  BY LenProperties
<1>2. /\ b \in Seq(Activity) /\ Len(b) = Len(a) + 1
      /\ \A i \in 1..(Len(a) + 1) : b[i] = IF i <= Len(a) THEN a[i] ELSE <<x>>[i - Len(a)]
  BY <1>1, ConcatProperties
<1>3. DOMAIN b = 1..(Len(a) + 1)
  BY <1>2, LenProperties
<1>4. IsFiniteSet(DOMAIN a)
  BY <1>1, FS_Interval
<1> HIDE DEF b
<1>5. b[Len(a) + 1] = x /\ \A i \in DOMAIN a : b[i] = a[i]
  BY <1>1, <1>2
<1>6. DOMAIN b = DOMAIN a \cup {Len(a) + 1} /\ Len(a) + 1 \notin DOMAIN a
  BY <1>1, <1>3
<1>7. \A type : Indices(b, type) =
              Indices(a, type) \cup (IF x.type = type THEN {Len(a) + 1} ELSE {})
  BY <1>5, <1>6 DEF Indices
<1> QED
  BY <1>2, <1>4, <1>5, <1>6, <1>7 DEF b

\* An event that is not an upload, and says nothing of a document that is not there
LEMMA AuditedEvent ==
  ASSUME NEW a \in Seq(Activity), NEW x \in Activity, NEW D, Audited(a, D),
         x.type # "document_uploaded",
         \/ x.type # "merchant_response_submitted"
         \/ x.doc \in {None} \cup {d.id : d \in D}
  PROVE  Audited(a \o <<x>>, D)
<1> DEFINE b == a \o <<x>>
<1>a. /\ Len(a) + 1 \notin DOMAIN a /\ b[Len(a) + 1] = x /\ IsFiniteSet(DOMAIN a)
      /\ \A i \in DOMAIN a : b[i] = a[i]
      /\ \A type : Indices(b, type) =
           Indices(a, type) \cup (IF x.type = type THEN {Len(a) + 1} ELSE {})
  BY OneMore
<1> HIDE DEF b
<1>1. /\ Len(a) + 1 \notin DOMAIN a /\ b[Len(a) + 1] = x
      /\ \A i \in DOMAIN a : b[i] = a[i]
      /\ Indices(b, "document_uploaded") = Indices(a, "document_uploaded")
      /\ Indices(b, "merchant_response_submitted") \subseteq
           Indices(a, "merchant_response_submitted")
             \cup (IF x.type = "merchant_response_submitted" THEN {Len(a) + 1} ELSE {})
  BY <1>a
<1>2. {b[i].doc : i \in Indices(b, "document_uploaded")}
        = {a[i].doc : i \in Indices(a, "document_uploaded")}
  BY <1>1 DEF Indices
<1>3. \A i \in Indices(b, "merchant_response_submitted") :
        b[i].doc \in {None} \cup {d.id : d \in D}
  BY <1>1 DEF Audited, Indices
<1>4. Audited(b, D)
  BY <1>1, <1>2, <1>3 DEF Audited
<1> QED
  BY <1>4 DEF b

\* A new document with its event
LEMMA AuditedUpload ==
  ASSUME NEW a \in Seq(Activity), NEW D \in SUBSET Document, IsFiniteSet(D), Audited(a, D),
         NEW d \in Doc, NEW role \in UploadRole, \A e \in D : e.id # d,
         Happened("document_uploaded", d) \in Activity
  PROVE  Audited(a \o <<Happened("document_uploaded", d)>>,
                 D \cup {[id |-> d, role |-> role]})
<1> DEFINE x == Happened("document_uploaded", d)
           new == [id |-> d, role |-> role]
           b == a \o <<x>>
           I == Indices(a, "document_uploaded")
<1>0. x.type = "document_uploaded" /\ x.doc = d /\ new.id = d
  BY DEF Happened
<1>a. /\ Len(a) + 1 \notin DOMAIN a /\ b[Len(a) + 1] = x /\ IsFiniteSet(DOMAIN a)
      /\ \A i \in DOMAIN a : b[i] = a[i]
      /\ \A type : Indices(b, type) =
           Indices(a, type) \cup (IF x.type = type THEN {Len(a) + 1} ELSE {})
  BY OneMore
<1> HIDE DEF b, x
<1>1. /\ Len(a) + 1 \notin DOMAIN a /\ b[Len(a) + 1] = x /\ IsFiniteSet(DOMAIN a)
      /\ \A i \in DOMAIN a : b[i] = a[i]
      /\ Indices(b, "document_uploaded") = I \cup {Len(a) + 1}
      /\ Indices(b, "merchant_response_submitted") = Indices(a, "merchant_response_submitted")
  BY <1>0, <1>a
<1>2. Cardinality(D \cup {new}) = Cardinality(I \cup {Len(a) + 1})
  <2>1. new \notin D
    BY <1>0
  <2>2. Cardinality(D \cup {new}) = Cardinality(D) + 1
    BY <2>1, FS_AddElement
  <2>3. IsFiniteSet(I) /\ Len(a) + 1 \notin I
    BY <1>1, FS_Subset DEF Indices
  <2>4. Cardinality(I \cup {Len(a) + 1}) = Cardinality(I) + 1
    BY <2>3, FS_AddElement
  <2> QED
    BY <2>2, <2>4 DEF Audited
<1> HIDE DEF new
<1>3. \A i \in I : b[i] = a[i]
  BY <1>1 DEF Indices
<1>4. {b[i].doc : i \in Indices(b, "document_uploaded")} = {a[i].doc : i \in I} \cup {d}
  BY <1>0, <1>1, <1>3
<1>5. {e.id : e \in D \cup {new}} = {e.id : e \in D} \cup {d}
  BY <1>0
<1>6. {e.id : e \in D \cup {new}} = {b[i].doc : i \in Indices(b, "document_uploaded")}
  BY <1>4, <1>5 DEF Audited
<1>7. \A i \in Indices(b, "merchant_response_submitted") :
        b[i].doc \in {None} \cup {e.id : e \in D \cup {new}}
  BY <1>1, <1>5 DEF Audited, Indices
<1>8. Audited(b, D \cup {new})
  BY <1>1, <1>2, <1>6, <1>7 DEF Audited
<1> QED
  BY <1>8 DEF b, new, x

\* A transaction has written a document with its event, of a key that no other
\* row has, or no document.
WritesDocument(w, d) ==
  /\ pc[w] # "idle"
  /\ txn[w].docs = {[id |-> d, role |-> req[w].role]}
  /\ txn[w].activity = <<Happened("document_uploaded", d)>>
  /\ \A c \in Case : \A e \in docs[c] : e.id # d
  /\ \A v \in Worker \ {w} : \A e \in txn[v].docs : e.id # d

WritesNone(w) ==
  /\ txn[w].docs = {}
  /\ txn[w].activity \in {<<>>, <<Happened("note_added", None)>>}

DocsOf(w) == WritesNone(w) \/ \E d \in Doc : WritesDocument(w, d)

DocsInv ==
  /\ \A c \in Case : IsFiniteSet(docs[c]) /\ Audited(activity[c], docs[c])
  /\ \A w \in Worker : DocsOf(w)

\* A step of w inserts no key that another transaction has used.
LEMMA OthersDocuments ==
  ASSUME NEW w \in Worker, NEW v \in Worker, v # w, DocsOf(v),
         txn'[v] = txn[v], pc'[v] = pc[v], req'[v] = req[v],
         \A u \in Worker \ {w} : txn'[u] = txn[u],
         \A c \in Case : docs'[c] \subseteq docs[c] \cup txn[w].docs,
         \A e \in txn'[w].docs : e \in txn[w].docs \/ \A f \in txn[v].docs : e.id # f.id
  PROVE  DocsOf(v)'
<1>1. WritesNone(v) => WritesNone(v)'
  BY DEF WritesNone
<1>2. ASSUME NEW d \in Doc, WritesDocument(v, d)
      PROVE  WritesDocument(v, d)'
  <2>1. \A c \in Case : \A e \in docs'[c] : e.id # d
    BY <1>2 DEF WritesDocument
  <2>2. \A f \in txn[v].docs : f.id = d
    BY <1>2 DEF WritesDocument
  <2>3. \A e \in txn'[w].docs : e.id # d
    <3>1. [id |-> d, role |-> req[v].role] \in txn[v].docs
      BY <1>2 DEF WritesDocument
    <3>2. [id |-> d, role |-> req[v].role].id = d
      OBVIOUS
    <3> QED
      BY <1>2, <3>1, <3>2 DEF WritesDocument
  <2>4. \A u \in Worker \ {v} : \A e \in txn'[u].docs : e.id # d
    BY <1>2, <2>3 DEF WritesDocument
  <2> QED
    BY <1>2, <2>1, <2>4 DEF WritesDocument
<1> QED
  BY <1>1, <1>2 DEF DocsOf

LEMMA IdleDocuments ==
  ASSUME NEW v \in Worker, pc'[v] = "idle", txn'[v] = EmptyTxn
  PROVE  DocsOf(v)'
BY DEF DocsOf, WritesNone, EmptyTxn

LEMMA DocsWork ==
  ASSUME TypeInv, DocsInv, NEW w \in Worker, Works(w), Inner(w)
  PROVE  DocsInv'
<1>0. /\ pc \in [Worker -> PC] /\ txn \in [Worker -> Txn] /\ txn[w] \in Txn
      /\ pc[w] # "idle" /\ pc'[w] # "idle"
      /\ docs' = docs /\ activity' = activity /\ req' = req
      /\ \A v \in Worker : v # w => txn'[v] = txn[v] /\ pc'[v] = pc[v]
      /\ DocsOf(w)
  BY DEF TypeInv, TypeOK, Works, tables, DocsInv
<1>1. \A c \in Case : IsFiniteSet(docs'[c]) /\ Audited(activity'[c], docs'[c])
  BY <1>0 DEF DocsInv
<1>2. CASE InsertDocument(w)
  <2>1. PICK d \in Doc :
          /\ FreshDoc(d)
          /\ txn' = [txn EXCEPT
                       ![w].docs = {[id |-> d, role |-> req[w].role]},
                       ![w].activity = <<Happened("document_uploaded", d)>>]
    BY <1>2 DEF InsertDocument
  <2>2. /\ txn'[w].docs = {[id |-> d, role |-> req[w].role]}
        /\ txn'[w].activity = <<Happened("document_uploaded", d)>>
    BY <1>0, <2>1 DEF Txn
  <2>3. \A v \in Worker : \A f \in txn[v].docs : f.id # d
    BY <2>1 DEF FreshDoc
  <2>4. \A v \in Worker : v # w => DocsOf(v)'
    <3> SUFFICES ASSUME NEW v \in Worker, v # w
                 PROVE  DocsOf(v)'
      OBVIOUS
    <3>1. \A e \in txn'[w].docs : \A f \in txn[v].docs : e.id # f.id
      BY <2>2, <2>3
    <3> QED
      BY <1>0, <3>1, OthersDocuments DEF DocsInv
  <2>5. WritesDocument(w, d)'
    BY <1>0, <2>1, <2>2 DEF WritesDocument, FreshDoc
  <2> QED
    BY <1>0, <1>1, <2>4, <2>5 DEF DocsInv, DocsOf
<1>3. CASE ~InsertDocument(w)
  <2>1. /\ txn'[w].docs = txn[w].docs
        /\ txn'[w].activity \in {txn[w].activity, <<Happened("note_added", None)>>}
        /\ AddNote(w) \/ txn'[w].activity = txn[w].activity
    <3>1. CASE ReloadCase(w) \/ NoteOnlyResponse(w)
      BY <1>0, <3>1 DEF ReloadCase, NoteOnlyResponse
    <3>2. CASE InsertCase(w)
      BY <1>0, <3>2 DEF InsertCase, Txn
    <3>3. CASE UpdateCase(w)
      BY <1>0, <3>3 DEF UpdateCase, Txn
    <3>4. CASE AddNote(w)
      BY <1>0, <3>4 DEF AddNote, Txn
    <3>5. CASE Scores(w)
      BY <3>5, ScoreEffects
    <3> QED
      BY <1>3, <3>1, <3>2, <3>3, <3>4, <3>5 DEF Inner
  <2>2. \A v \in Worker : v # w => DocsOf(v)'
    BY <1>0, <2>1, OthersDocuments DEF DocsInv
  <2>3. WritesNone(w) => WritesNone(w)'
    BY <2>1 DEF WritesNone
  <2>4. ASSUME NEW d \in Doc, WritesDocument(w, d)
        PROVE  WritesDocument(w, d)'
    <3>1. ~AddNote(w)
      <4>1. AddNote(w) => txn[w] = EmptyTxn
        BY DEF AddNote, TypeInv, RequestInv
      <4> QED
        BY <2>4, <4>1 DEF WritesDocument, EmptyTxn
    <3> QED
      BY <1>0, <2>1, <2>4, <3>1 DEF WritesDocument
  <2>5. DocsOf(w)'
    BY <1>0, <2>3, <2>4 DEF DocsOf
  <2> QED
    BY <1>1, <2>2, <2>5 DEF DocsInv
<1> QED
  BY <1>2, <1>3

\* The case of a commit
LEMMA DocsCommitCase ==
  ASSUME TypeInv, DocsInv, NEW w \in Worker, Commit(w), NEW c \in Case, c = CaseOf(w)
  PROVE  IsFiniteSet(docs'[c]) /\ Audited(activity'[c], docs'[c])
<1> DEFINE t == txn[w]
           a == activity[c]
<1>0. /\ a \in Seq(Activity) /\ docs[c] \in SUBSET Document /\ t \in Txn
      /\ IsFiniteSet(docs[c]) /\ Audited(a, docs[c])
      /\ DocsOf(w) /\ pc[w] = "commit" /\ req[w] \in Request
  BY Serving DEF TypeInv, TypeOK, DocsInv, Commit
<1>1. /\ docs'[c] = docs[c] \cup t.docs
      /\ activity'[c] = a \o t.activity \o Response(w)
  BY DEF Commit, TypeInv, TypeOK
<1>2. CASE WritesNone(w)
  <2> DEFINE b == a \o t.activity
  <2>1. docs'[c] = docs[c] /\ t.docs = {}
    BY <1>1, <1>2 DEF WritesNone
  <2>2. b \in Seq(Activity) /\ Audited(b, docs[c])
    <3>1. CASE t.activity = <<>>
      BY <1>0, <3>1, ConcatEmptySeq
    <3>2. CASE t.activity = <<Happened("note_added", None)>>
      <4>1. /\ Happened("note_added", None) \in Activity
            /\ Happened("note_added", None).type = "note_added"
        BY DEF Happened, Activity, ActivityType
      <4> QED
        BY <1>0, <3>2, <4>1, OneMore, AuditedEvent
    <3> QED
      BY <1>2, <3>1, <3>2 DEF WritesNone
  <2> HIDE DEF b
  <2>3. Audited(b \o Response(w), docs[c])
    <3>1. CASE req[w].kind = "merchant_response"
      <4> DEFINE x == [type |-> "merchant_response_submitted", doc |-> None]
      <4>1. Response(w) = <<x>>
        BY <2>1, <3>1 DEF Response
      <4>2. x \in Activity
        BY DEF Activity, ActivityType
      <4>3. x.type = "merchant_response_submitted" /\ x.doc = None
        OBVIOUS
      <4> HIDE DEF x
      <4> QED
        BY <2>2, <4>1, <4>2, <4>3, AuditedEvent
    <3>2. CASE req[w].kind # "merchant_response"
      BY <2>2, <3>2, ConcatEmptySeq DEF Response
    <3> QED
      BY <3>1, <3>2
  <2> QED
    BY <1>0, <1>1, <2>1, <2>3 DEF b
<1>3. ASSUME NEW d \in Doc, WritesDocument(w, d)
      PROVE  IsFiniteSet(docs'[c]) /\ Audited(activity'[c], docs'[c])
  <2> DEFINE new == [id |-> d, role |-> req[w].role]
             x == Happened("document_uploaded", d)
             b == a \o <<x>>
  <2>1. docs'[c] = docs[c] \cup {new} /\ activity'[c] = b \o Response(w)
    BY <1>1, <1>3 DEF WritesDocument
  <2>2. new \in Document /\ req[w].role \in UploadRole
    <3>1. new \in Document
      BY <1>0, <1>3 DEF WritesDocument, Txn
    <3>2. new.role = req[w].role
      OBVIOUS
    <3> QED
      BY <3>1, <3>2 DEF Document
  <2>3. x \in Activity
    BY DEF Happened, Activity, ActivityType
  <2>4. b \in Seq(Activity)
    BY <1>0, <2>3, OneMore
  <2>5. Audited(b, docs'[c])
    <3>1. \A e \in docs[c] : e.id # d
      BY <1>3 DEF WritesDocument
    <3>2. Audited(b, docs[c] \cup {new})
      BY <1>0, <2>2, <2>3, <3>1, AuditedUpload
    <3> QED
      BY <2>1, <3>2
  <2>6. IsFiniteSet(docs'[c])
    <3>1. IsFiniteSet(docs[c])
      BY <1>0
    <3>2. \A x1 : IsFiniteSet(docs[c] \cup {x1})
      BY <3>1, FS_AddElement
    <3>3. IsFiniteSet(docs[c] \cup {new})
      BY <3>2
    <3> QED
      BY <2>1, <3>3
  <2> HIDE DEF b
  <2>7. Audited(b \o Response(w), docs'[c])
    <3>1. CASE req[w].kind = "merchant_response"
      <4> DEFINE y == [type |-> "merchant_response_submitted", doc |-> d]
      <4>1. t.docs = {new}
        BY <1>3 DEF WritesDocument
      <4>2. (CHOOSE e \in t.docs : TRUE).id = d /\ t.docs # {}
        <5>1. (CHOOSE e \in t.docs : TRUE) \in t.docs
          BY <4>1
        <5>2. new.id = d
          OBVIOUS
        <5> QED
          BY <4>1, <5>1, <5>2
      <4>3. Response(w) = <<y>>
        BY <3>1, <4>2 DEF Response
      <4>4. y \in Activity
        BY DEF Activity, ActivityType
      <4>5. y.type = "merchant_response_submitted" /\ y.doc = d
        OBVIOUS
      <4>6. d \in {e.id : e \in docs'[c]}
        <5>1. new.id = d /\ new \in docs'[c]
          BY <2>1
        <5> QED
          BY <5>1
      <4> HIDE DEF y
      <4> QED
        BY <2>4, <2>5, <4>3, <4>4, <4>5, <4>6, AuditedEvent
    <3>2. CASE req[w].kind # "merchant_response"
      BY <2>4, <2>5, <3>2, ConcatEmptySeq DEF Response
    <3> QED
      BY <3>1, <3>2
  <2> QED
    BY <2>1, <2>6, <2>7
<1> QED
  BY <1>0, <1>2, <1>3 DEF DocsOf

LEMMA DocsEnd ==
  ASSUME TypeInv, DocsInv, NEW w \in Worker, pc[w] # "idle", Rollback(w) \/ Commit(w)
  PROVE  DocsInv'
<1>0. /\ txn'[w] = EmptyTxn /\ pc'[w] = "idle" /\ CaseOf(w) \in Case
      /\ \A v \in Worker : v # w => txn'[v] = txn[v] /\ pc'[v] = pc[v] /\ req'[v] = req[v]
  BY Serving DEF Rollback, Commit, Release, TypeInv, TypeOK
<1>1. \A c \in Case : c = CaseOf(w) \/ (docs'[c] = docs[c] /\ activity'[c] = activity[c])
  BY DEF Rollback, Commit, tables, TypeInv, TypeOK
<1>2. ASSUME NEW c \in Case
      PROVE  IsFiniteSet(docs'[c]) /\ Audited(activity'[c], docs'[c])
  <2>1. CASE Rollback(w)
    BY <2>1 DEF Rollback, tables, DocsInv
  <2>2. CASE Commit(w)
    BY <1>1, <2>2, DocsCommitCase DEF DocsInv
  <2> QED
    BY <2>1, <2>2
<1>3. \A c \in Case : docs'[c] \subseteq docs[c] \cup txn[w].docs
  <2>1. CASE Rollback(w)
    BY <2>1 DEF Rollback, tables
  <2>2. CASE Commit(w)
    <3>1. docs' = [docs EXCEPT ![CaseOf(w)] = docs[CaseOf(w)] \cup txn[w].docs]
      BY <2>2 DEF Commit
    <3> QED
      BY <1>0, <3>1 DEF TypeInv, TypeOK
  <2> QED
    BY <2>1, <2>2
<1>4. txn'[w].docs = {}
  BY <1>0 DEF EmptyTxn
<1>5. \A v \in Worker : v # w => DocsOf(v)'
  BY <1>0, <1>3, <1>4, OthersDocuments DEF DocsInv
<1> QED
  BY <1>0, <1>2, <1>5, IdleDocuments DEF DocsInv

LEMMA DocsPreserved == TypeInv /\ DocsInv /\ [Next]_vars => DocsInv'
<1> SUFFICES ASSUME TypeInv, DocsInv, [Next]_vars
             PROVE  DocsInv'
  OBVIOUS
<1>1. ASSUME NEW w \in Worker, Start(w)
      PROVE  DocsInv'
  <2> PICK r, next : Starts(w, r, next)
    BY <1>1, StartForms
  <2>2. /\ docs' = docs /\ activity' = activity /\ txn' = txn
        /\ pc[w] = "idle" /\ req'[w] = r
        /\ \A v \in Worker : v # w => pc'[v] = pc[v] /\ req'[v] = req[v]
    BY DEF Starts, Arrive, tables, TypeInv, TypeOK
  <2>3. ASSUME NEW v \in Worker, v # w
        PROVE  DocsOf(v)'
    BY <2>2, <2>3, OthersDocuments DEF DocsInv
  <2>4. DocsOf(w)'
    <3>1. txn'[w] = EmptyTxn
      BY <2>2 DEF TypeInv, RequestInv
    <3> QED
      BY <2>2, <3>1 DEF Starts, DocsOf, WritesNone, EmptyTxn
  <2> QED
    BY <2>2, <2>3, <2>4 DEF DocsInv
<1>2. ASSUME NEW w \in Worker, Step(w)
      PROVE  DocsInv'
  BY <1>2, StepKinds, DocsWork, DocsEnd
<1>3. ASSUME NEW w \in Worker, Crash(w)
      PROVE  DocsInv'
  BY <1>3, DocsEnd DEF Crash
<1>4. CASE UNCHANGED vars
  BY <1>4 DEF vars, tables, DocsInv, DocsOf, WritesNone, WritesDocument
<1> QED
  BY <1>1, <1>2, <1>3, <1>4 DEF Next, Drained

LEMMA DocsInitially == Init => DocsInv
<1> SUFFICES ASSUME Init
             PROVE  DocsInv
  OBVIOUS
<1>1. ASSUME NEW c \in Case
      PROVE  IsFiniteSet(docs[c]) /\ Audited(activity[c], docs[c])
  <2>1. docs[c] = {} /\ activity[c] = <<>>
    BY DEF Init
  <2>2. \A type : Indices(<<>>, type) = {}
    BY EmptySeq, LenProperties DEF Indices
  <2> QED
    BY <2>1, <2>2, FS_EmptySet DEF Audited
<1> QED
  BY <1>1 DEF Init, DocsInv, DocsOf, WritesNone, EmptyTxn

\* Every stored document has one document_uploaded event and there are no others; a
\* merchant response names a stored document or none, also when the rescoring
\* failed or the worker died (upload_document_for_case, submit_merchant_response).
THEOREM DocumentsAlwaysAudited == Spec => []DocumentsAudited
<1>1. Spec => [](TypeInv /\ DocsInv)
  BY DocsInitially, TypeInitially, TypePreserved, DocsPreserved, PTL DEF Spec
<1>2. DocsInv => DocumentsAudited
  BY DEF DocsInv, Audited, Indices, DocumentsAudited
<1> QED
  BY <1>1, <1>2, PTL

--------------------------------------------------------------------------------
(* Priorities change on request only *)

\* What w will commit keeps the priority of the row, or has the one requested.
PriorityOf(w) ==
  txn[w].row # None /\ row[CaseOf(w)] # None =>
    txn[w].row.priority \in {row[CaseOf(w)].priority, req[w].priority}

PriorityInv == \A w \in Worker : PriorityOf(w)

\* A transaction that writes the row alone may do so
LEMMA RowWriterAlone ==
  ASSUME TypeInv, CaseAuditInv, NEW v \in Worker, NEW w \in Worker, v # w,
         txn[v].row # None, txn[w].row # None
  PROVE  CaseOf(v) # CaseOf(w)
BY DEF CaseAuditInv, CaseRowInv, CaseRowOf, CaseOf

\* A commit changes the row of its own case, to what it has written
LEMMA CommitRow ==
  ASSUME TypeInv, CaseAuditInv, NEW w \in Worker, Commit(w)
  PROVE  /\ pc[w] = "commit" /\ pc'[w] = "idle" /\ CaseOf(w) \in Case
         /\ \A c \in Case : row'[c] # row[c] => /\ c = CaseOf(w)
                                               /\ txn[w].row # None
                                               /\ row'[c] = txn[w].row
<1>1. pc[w] = "commit" /\ CaseOf(w) \in Case
  BY Serving DEF Commit
<1>2. pc'[w] = "idle"
  BY DEF Commit, Release, TypeInv, TypeOK
<1>3. row' = [row EXCEPT ![CaseOf(w)] = IF txn[w].row = None THEN row[CaseOf(w)]
                                        ELSE txn[w].row]
  BY DEF Commit
<1> QED
  BY <1>1, <1>2, <1>3 DEF TypeInv, TypeOK

\* A step inside a transaction: only an update and a creation write the row
LEMMA PriorityWork ==
  ASSUME TypeInv, PriorityInv, NEW w \in Worker, Works(w), Inner(w)
  PROVE  PriorityInv'
<1>0. /\ txn \in [Worker -> Txn] /\ txn[w] \in Txn /\ PriorityOf(w)
      /\ row' = row /\ req' = req
      /\ \A v \in Worker : v # w => txn'[v] = txn[v]
  BY DEF TypeInv, TypeOK, Works, tables, PriorityInv
<1>1. ASSUME NEW v \in Worker, v # w
      PROVE  PriorityOf(v)'
  BY <1>0, <1>1 DEF PriorityInv, PriorityOf, CaseOf
<1>2. txn'[w].row = txn[w].row => PriorityOf(w)'
  BY <1>0 DEF PriorityOf, CaseOf
<1>3. PriorityOf(w)'
  <2>1. CASE InsertCase(w)
    BY <1>0, <2>1 DEF InsertCase, PriorityOf, CaseOf
  <2>2. CASE UpdateCase(w)
    <3>1. txn'[w].row = SavedRow(w)
      BY <1>0, <2>2 DEF UpdateCase, Txn
    <3>2. /\ req[w] \in Request /\ held[w] \in Row /\ row[CaseOf(w)] \in Row
          /\ SavedRow(w) \in Row
      BY <2>2, Serving, UpdatedType DEF UpdateCase
    <3>3. SavedRow(w).priority = IF req[w].priority = None THEN row[CaseOf(w)].priority
                                 ELSE req[w].priority
      BY <3>2 DEF SavedRow, Updated, Row
    <3> QED
      BY <1>0, <3>1, <3>3 DEF PriorityOf, CaseOf
  <2>3. CASE ReloadCase(w) \/ NoteOnlyResponse(w)
    BY <1>0, <1>2, <2>3 DEF ReloadCase, NoteOnlyResponse
  <2>4. CASE AddNote(w)
    BY <1>0, <1>2, <2>4 DEF AddNote, Txn
  <2>5. CASE InsertDocument(w)
    <3>1. PICK d \in Doc :
            txn' = [txn EXCEPT ![w].docs = {[id |-> d, role |-> req[w].role]},
                               ![w].activity = <<Happened("document_uploaded", d)>>]
      BY <2>5 DEF InsertDocument
    <3> QED
      BY <1>0, <1>2, <3>1 DEF Txn
  <2>6. CASE Scores(w)
    BY <1>2, <2>6, ScoreEffects
  <2> QED
    BY <2>1, <2>2, <2>3, <2>4, <2>5, <2>6 DEF Inner
<1> QED
  BY <1>1, <1>3 DEF PriorityInv

\* The end of a request: who else writes a row of the same case does so after
LEMMA PriorityEnd ==
  ASSUME TypeInv, CaseAuditInv, PriorityInv,
         NEW w \in Worker, pc[w] # "idle", Rollback(w) \/ Commit(w)
  PROVE  PriorityInv'
<1>0. /\ txn'[w] = EmptyTxn
      /\ \A v \in Worker : v # w => txn'[v] = txn[v] /\ req'[v] = req[v]
  BY DEF Rollback, Commit, Release, TypeInv, TypeOK
<1>1. PriorityOf(w)'
  BY <1>0 DEF PriorityOf, EmptyTxn
<1>2. ASSUME NEW v \in Worker, v # w, txn[v].row # None
      PROVE  row'[CaseOf(v)] = row[CaseOf(v)]
  <2>1. CASE Rollback(w)
    BY <2>1 DEF Rollback, tables
  <2>2. CASE Commit(w)
    <3>1. CaseOf(v) \in Case
      BY <1>2, Serving DEF CaseAuditInv, CaseRowInv, CaseRowOf
    <3>2. txn[w].row # None => CaseOf(v) # CaseOf(w)
      BY <1>2, RowWriterAlone
    <3> QED
      BY <2>2, <3>1, <3>2, CommitRow
  <2> QED
    BY <2>1, <2>2
<1>3. ASSUME NEW v \in Worker, v # w
      PROVE  PriorityOf(v)'
  BY <1>0, <1>2, <1>3 DEF PriorityInv, PriorityOf, CaseOf
<1> QED
  BY <1>1, <1>3 DEF PriorityInv

\* Every step preserves it.
LEMMA PriorityPreserved ==
  TypeInv /\ CaseAuditInv /\ PriorityInv /\ [Next]_vars => PriorityInv'
<1> SUFFICES ASSUME TypeInv, CaseAuditInv, PriorityInv, [Next]_vars
             PROVE  PriorityInv'
  OBVIOUS
<1>1. ASSUME NEW w \in Worker, Start(w)
      PROVE  PriorityInv'
  <2> PICK r, next : Starts(w, r, next)
    BY <1>1, StartForms
  <2>1. /\ row' = row /\ txn' = txn /\ pc[w] = "idle"
        /\ \A v \in Worker : v # w => req'[v] = req[v]
    BY DEF Starts, Arrive, tables, TypeInv, TypeOK
  <2>2. txn[w].row = None
    BY <2>1 DEF TypeInv, RequestInv, EmptyTxn
  <2> QED
    BY <2>1, <2>2 DEF PriorityInv, PriorityOf, CaseOf
<1>2. ASSUME NEW w \in Worker, Step(w)
      PROVE  PriorityInv'
  BY <1>2, StepKinds, PriorityWork, PriorityEnd
<1>3. ASSUME NEW w \in Worker, Crash(w)
      PROVE  PriorityInv'
  BY <1>3, PriorityEnd DEF Crash
<1>4. CASE UNCHANGED vars
  BY <1>4 DEF vars, tables, PriorityInv, PriorityOf, CaseOf
<1> QED
  BY <1>1, <1>2, <1>3, <1>4 DEF Next, Drained

\* What PriorityOnlyOnRequest says of a step
PriorityMoves ==
  \A c \in Case :
    row[c] # None /\ row'[c].priority # row[c].priority =>
      \E w \in Worker : /\ pc[w] = "commit" /\ pc'[w] = "idle"
                        /\ CaseOf(w) = c
                        /\ req[w].priority = row'[c].priority

\* Only a commit changes a row, and what it installs PriorityInv knows
LEMMA EveryPriorityMove ==
  TypeInv /\ CaseAuditInv /\ PriorityInv /\ [Next]_vars => PriorityMoves
<1> SUFFICES ASSUME TypeInv, CaseAuditInv, PriorityInv, [Next]_vars,
                    NEW c \in Case, row[c] # None, row'[c].priority # row[c].priority
             PROVE  \E w \in Worker : /\ pc[w] = "commit" /\ pc'[w] = "idle"
                                      /\ CaseOf(w) = c
                                      /\ req[w].priority = row'[c].priority
  BY DEF PriorityMoves
<1>1. row'[c] # row[c]
  OBVIOUS
<1>2. \A w \in Worker : ~Start(w) /\ ~Crash(w)
  <2>1. ASSUME NEW w \in Worker, Start(w)
        PROVE  row' = row
    BY <2>1, StartForms DEF Starts, Arrive, tables
  <2> QED
    BY <1>1, <2>1 DEF Crash, Rollback, tables
<1>3. PICK w \in Worker : Step(w)
  BY <1>1, <1>2 DEF Next, Drained, vars, tables
<1>4. Commit(w)
  BY <1>1, <1>3, StepKinds DEF Works, Rollback, tables
<1>5. /\ pc[w] = "commit" /\ pc'[w] = "idle" /\ c = CaseOf(w)
      /\ txn[w].row # None /\ row'[c] = txn[w].row
  BY <1>1, <1>4, CommitRow
<1>6. row'[c].priority \in {row[c].priority, req[w].priority}
  BY <1>5 DEF PriorityInv, PriorityOf
<1> QED
  BY <1>5, <1>6

\* However requests overlap, the priority of a case changes only by the commit of
\* a request that asked for exactly that priority: one that gave none never
\* writes back the priority it had read (update_return_case_status).
THEOREM PriorityAlwaysOnRequest == Spec => PriorityOnlyOnRequest
<1>1. Init => PriorityInv
  BY DEF Init, PriorityInv, PriorityOf, EmptyTxn
<1>2. Spec => [](TypeInv /\ CaseAuditInv /\ PriorityInv)
  BY <1>1, CaseAuditInitially, TypeInitially, TypePreserved, CaseAuditPreserved, PriorityPreserved,
     PTL DEF Spec
<1> QED
  BY <1>2, EveryPriorityMove, PTL DEF Spec, PriorityOnlyOnRequest, PriorityMoves

--------------------------------------------------------------------------------
(* No deadlock on row locks *)

\* The next write of w, if it comes to it, is to a row another transaction holds
AwaitsCase(w) ==
  /\ \/ pc[w] = "insert"
     \/ pc[w] = "service" /\ req[w].kind \in StatusKind
  /\ ~CaseRowFree(w)
AwaitsRisk(w) == pc[w] = "persist" /\ ~RiskRowFree(w)

Awaits(w) == AwaitsCase(w) \/ AwaitsRisk(w)
AwaitsWorker(w, v) ==
  \/ AwaitsCase(w) /\ caseLock[CaseOf(w)] = v
  \/ AwaitsRisk(w) /\ riskLock[CaseOf(w)] = v

\* Who waits for a row waits in the end for a worker that serves a request and
\* waits for none, with at most one other worker in between.
WaitsEnd ==
  \A w \in Worker : Awaits(w) =>
    \E v \in Worker :
      /\ pc[v] # "idle" /\ ~Awaits(v)
      /\ \/ AwaitsWorker(w, v)
         \/ \E u \in Worker : AwaitsWorker(w, u) /\ AwaitsWorker(u, v)

\* A lock is held on the case of a request that is being served: that of the case
\* row after the statement that takes it, that of the RiskScore row once it is written
LocksInv ==
  \A c \in Case, w \in Worker :
    /\ caseLock[c] = w => CaseOf(w) = c /\ pc[w] \in Scoring \cup {"commit"}
    /\ riskLock[c] = w => CaseOf(w) = c /\ pc[w] \in {"log", "commit"}

\* The case row is locked before the RiskScore row, and nothing after that.
LEMMA LocksInOrder == TypeInv /\ LocksInv => WaitsEnd
<1> SUFFICES ASSUME TypeInv, LocksInv, NEW w \in Worker, Awaits(w)
             PROVE  \E v \in Worker :
                      /\ pc[v] # "idle" /\ ~Awaits(v)
                      /\ \/ AwaitsWorker(w, v)
                         \/ \E u \in Worker : AwaitsWorker(w, u) /\ AwaitsWorker(u, v)
  BY DEF WaitsEnd
<1>1. ASSUME NEW u \in Worker, AwaitsRisk(u)
      PROVE  \E v \in Worker : pc[v] # "idle" /\ ~Awaits(v) /\ AwaitsWorker(u, v)
  <2>1. CaseOf(u) \in Case
    BY <1>1, Serving DEF AwaitsRisk
  <2>2. PICK v \in Worker : riskLock[CaseOf(u)] = v
    BY <1>1, <2>1 DEF AwaitsRisk, RiskRowFree, TypeInv, TypeOK
  <2>3. pc[v] \in {"log", "commit"}
    BY <2>1, <2>2 DEF LocksInv
  <2>4. AwaitsWorker(u, v)
    BY <1>1, <2>2 DEF AwaitsWorker
  <2>5. ~Awaits(v)
    BY <2>3 DEF Awaits, AwaitsCase, AwaitsRisk
  <2> QED
    BY <2>3, <2>4, <2>5
<1>2. CASE AwaitsRisk(w)
  BY <1>1, <1>2
<1>3. CASE AwaitsCase(w)
  <2>1. CaseOf(w) \in Case
    BY <1>3, Serving DEF AwaitsCase
  <2>2. PICK u \in Worker : caseLock[CaseOf(w)] = u
    BY <1>3, <2>1 DEF AwaitsCase, CaseRowFree, TypeInv, TypeOK
  <2>3. pc[u] \in Scoring \cup {"commit"}
    BY <2>1, <2>2 DEF LocksInv
  <2>4. AwaitsWorker(w, u)
    BY <1>3, <2>2 DEF AwaitsWorker
  <2>5. CASE AwaitsRisk(u)
    BY <1>1, <2>4, <2>5
  <2>6. CASE ~AwaitsRisk(u)
    <3>1. ~Awaits(u)
      BY <2>3, <2>6 DEF Awaits, AwaitsCase, Scoring, Query
    <3> QED
      BY <2>3, <2>4, <3>1 DEF Scoring, Query
  <2> QED
    BY <2>5, <2>6
<1> QED
  BY <1>2, <1>3 DEF Awaits

\* A step that gives no lock to another worker leaves its locks in order.
LEMMA OthersLocks ==
  ASSUME LocksInv, NEW v \in Worker, pc'[v] = pc[v], req'[v] = req[v], NEW c \in Case,
         caseLock'[c] = v => caseLock[c] = v, riskLock'[c] = v => riskLock[c] = v
  PROVE  /\ caseLock'[c] = v =>
              CaseOf(v)' = c /\ pc'[v] \in Scoring \cup {"commit"}
         /\ riskLock'[c] = v => CaseOf(v)' = c /\ pc'[v] \in {"log", "commit"}
BY DEF LocksInv, CaseOf

\* Inside a transaction only w takes locks, and each at its place.
LEMMA LocksStep ==
  ASSUME TypeInv, LocksInv, NEW w \in Worker, Works(w), Inner(w)
  PROVE  LocksInv'
<1>0. /\ pc \in [Worker -> PC] /\ req' = req /\ CaseOf(w) \in Case
      /\ caseLock \in [Case -> Worker \cup {None}]
      /\ riskLock \in [Case -> Worker \cup {None}]
      /\ \A v \in Worker : v # w => pc'[v] = pc[v]
  BY Serving DEF TypeInv, TypeOK, Works
<1> SUFFICES ASSUME NEW c \in Case, NEW v \in Worker
             PROVE  /\ caseLock'[c] = v =>
                         CaseOf(v)' = c /\ pc'[v] \in Scoring \cup {"commit"}
                    /\ riskLock'[c] = v => CaseOf(v)' = c /\ pc'[v] \in {"log", "commit"}
  BY DEF LocksInv
<1>1. /\ caseLock[c] = w => CaseOf(w) = c /\ pc[w] \in Scoring \cup {"commit"}
      /\ riskLock[c] = w => CaseOf(w) = c /\ pc[w] \in {"log", "commit"}
      /\ CaseOf(w)' = CaseOf(w)
  BY <1>0 DEF LocksInv, CaseOf
<1>2. /\ caseLock'[c] \in {caseLock[c], w} /\ riskLock'[c] \in {riskLock[c], w, None}
      /\ caseLock'[c] = w => CaseOf(w) = c /\ pc'[w] \in Scoring \cup {"commit"}
      /\ riskLock'[c] = w => CaseOf(w) = c /\ pc'[w] \in {"log", "commit"}
  <2>1. CASE ~Scores(w)
    <3>1. pc[w] \notin Scoring \cup {"commit"} /\ riskLock' = riskLock
      BY <2>1, BeforeScoring DEF Scoring, Query
    <3>2. caseLock'[c] # caseLock[c] => /\ caseLock'[c] = w /\ c = CaseOf(w)
                                       /\ pc'[w] = "evidence"
      BY <1>0, <2>1 DEF Inner, ReloadCase, NoteOnlyResponse, AddNote, InsertDocument,
         InsertCase, UpdateCase, locks
    <3> QED
      BY <1>1, <3>1, <3>2 DEF Scoring, Query
  <2>2. CASE Scores(w)
    <3>1. /\ pc[w] \in Scoring /\ caseLock' = caseLock
          /\ pc'[w] \in Scoring \cup {"commit"}
      BY <2>2, ScoreEffects DEF Scoring, Query
    <3>2. CASE PersistRisk(w)
      <4>1. /\ pc'[w] = "log" /\ riskLock' = [riskLock EXCEPT ![CaseOf(w)] = w]
            /\ pc[w] = "persist"
        BY <1>0, <3>2 DEF PersistRisk
      <4> QED
        BY <1>0, <1>1, <3>1, <4>1
    <3>3. CASE LogRisk(w)
      BY <1>0, <1>1, <3>1, <3>3 DEF LogRisk, locks
    <3>4. CASE ReadFeature(w)
      BY <1>0, <1>1, <3>1, <3>4 DEF ReadFeature, Query, locks
    <3>5. CASE RescoreSwallowed(w)
      BY <1>0, <1>1, <3>1, <3>5, NoneAssumption DEF RescoreSwallowed, Freed
    <3> QED
      BY <2>2, <3>2, <3>3, <3>4, <3>5 DEF Scores
  <2> QED
    BY <2>1, <2>2
<1>3. CASE v = w
  BY <1>1, <1>2, <1>3
<1>4. CASE v # w
  BY <1>0, <1>2, <1>4, OthersLocks, NoneAssumption
<1> QED
  BY <1>3, <1>4

\* A lock is freed at the end of the transaction that holds it.
LEMMA LocksPreserved == TypeInv /\ LocksInv /\ [Next]_vars => LocksInv'
<1> SUFFICES ASSUME TypeInv, LocksInv, [Next]_vars
             PROVE  LocksInv'
  OBVIOUS
<1>1. ASSUME NEW w \in Worker, Start(w)
      PROVE  LocksInv'
  <2> PICK r, next : Starts(w, r, next)
    BY <1>1, StartForms
  <2>1. /\ caseLock' = caseLock /\ riskLock' = riskLock /\ pc[w] = "idle"
        /\ \A v \in Worker : v # w => pc'[v] = pc[v] /\ req'[v] = req[v]
    BY DEF Starts, Arrive, locks, TypeInv, TypeOK
  <2>2. \A c \in Case : caseLock[c] # w /\ riskLock[c] # w
    BY <2>1 DEF LocksInv, Scoring, Query
  <2> QED
    BY <2>1, <2>2 DEF LocksInv, CaseOf
<1>2. ASSUME NEW w \in Worker, Rollback(w) \/ Commit(w)
      PROVE  LocksInv'
  <2>1. /\ caseLock' = Freed(caseLock, w) /\ riskLock' = Freed(riskLock, w)
        /\ \A v \in Worker : v # w => pc'[v] = pc[v] /\ req'[v] = req[v]
    BY <1>2 DEF Rollback, Commit, Release, TypeInv, TypeOK
  <2>2. \A c \in Case : /\ caseLock'[c] # w /\ riskLock'[c] # w
                       /\ \A v \in Worker : /\ caseLock'[c] = v => caseLock[c] = v
                                            /\ riskLock'[c] = v => riskLock[c] = v
    BY <2>1, NoneAssumption DEF Freed
  <2> QED
    BY <2>1, <2>2 DEF LocksInv, CaseOf
<1>3. ASSUME NEW w \in Worker, Step(w)
      PROVE  LocksInv'
  BY <1>2, <1>3, StepKinds, LocksStep
<1>4. ASSUME NEW w \in Worker, Crash(w)
      PROVE  LocksInv'
  BY <1>2, <1>4 DEF Crash
<1>5. CASE UNCHANGED vars
  BY <1>5 DEF vars, locks, LocksInv, CaseOf
<1> QED
  BY <1>1, <1>3, <1>4, <1>5 DEF Next, Drained

\* No workers ever wait for each other in a circle, nor for a lock that nobody is
\* about to free: who waits for the row of a case or of its score waits, directly
\* or through one other, for a worker that does not wait (the order in which
\* update_return_case_status and score_case_and_persist take their locks).
THEOREM WaitsAlwaysEnd == Spec => []WaitsEnd
<1>1. Init => LocksInv
  BY NoneAssumption DEF Init, LocksInv
<1>2. Spec => [](TypeInv /\ LocksInv)
  BY <1>1, TypeInitially, TypePreserved, LocksPreserved, PTL DEF Spec
<1> QED
  BY <1>2, LocksInOrder, PTL
================================================================================

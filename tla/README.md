# ReturnHub: formal model

TLA+ modules for the parts of ReturnHub whose correctness depends on the order
in which things happen, TLC configurations that check them on small instances,
and TLAPS proofs of what holds for every instance.  Paths below are relative to
the repository.

## The system

ReturnHub is a Django 5 application over one PostgreSQL database, served by
gunicorn (`gunicorn.conf.py`: several processes with several threads each).
There is no queue and no background worker: everything happens inside a request,
or inside a management command.  Isolation is PostgreSQL's default, READ
COMMITTED; `ATOMIC_REQUESTS` is off, `select_for_update` is never called, and
the services open their own `transaction.atomic` blocks.

| Part | Where | State | Operations |
|---|---|---|---|
| Case rules | `returns/services/cases.py`, `returns/services/sla.py` | none | the transition table, SLA windows |
| Case workflow | `returns/services/` (cases, documents, risk, merchant_portal), called from `returns/api/views.py`, `console/views.py`, `ui/views.py` and the portals | tables ReturnCase, CaseEvent, CaseNote, EvidenceDocument, RiskScore | create, update status and priority, request information, add note, upload, merchant response; each of them but notes rescores |
| Risk scoring | `ml/features.py`, `ml/services/scoring.py`, `ml/scoring.py`, `ml/reason_codes.py` | none | features to score, label and reason codes |
| Model registry and training | `ml/services/model_registry.py`, `ml/registry.py`, `ml/training/` and the two training commands | files: registry, model, metadata | train, retrain, register; read by every scoring |
| Operations queue | `returns/services/queue.py`, `core/api/pagination.py`, `common/pagination.py` | none | filter, order, paginate, summarise |
| Surfaces and login | `accounts/` | groups and flags of a user, session | surface access, login, landing page, logout |
| Case access | `returns/api/permissions.py`, `returns/api/views.py`, portals | none | who may see a case and its documents |
| Evidence uploads | `returns/models.py`, `returns/services/documents.py`, `returns/validators.py`, with the forms and views of `ui/`, the two portals and `api/views/return_documents.py` | files beside EvidenceDocument rows | offer a form, receive, judge, validate, store, log, answer |
| Analytics | `analytics/` | none | counts over a range of dates |
| Demo seeding | two commands | users, profiles, cases | create or reset |
| Pages, forms, settings | `ui/`, `templates/`, `config/`, `core/` | none | rendering, configuration, health checks |

How they interact: a view loads a case and passes the *instance* to a service;
the service checks the instance, writes rows and an event, and calls
`score_case_and_persist`, which reads documents and other cases, loads the model
from files named by the registry, and writes RiskScore and a `risk_scored`
event, in the same transaction.  An upload stores a file
beside the row, in a storage that knows no transaction.  The queue, the
analytics and the pages only read.

What is hard here is exactly what the tests, all of them sequential, do not
reach: two requests for one case in flight at once, a check made on data that
has changed by the time of the write, a failure in the last of several steps, a
reader that meets a half-written file, a file whose row is rolled back, groups
that change between the form and the service, and answers put together from
several queries.

## Modules

| Module | What it is |
|---|---|
| `CaseRules` | statuses, transition table, SLA windows, shape of rows and status events |
| `CaseLifecycle` | abstract specification: what a case's log and row may do, one atomic step per update, and what overlapping updates keep of it |
| `ReturnCaseWorkflow` | the services, as run by concurrent server threads over the database |
| `MCReturnCase` | instances of it for TLC |
| `ReturnCaseWorkflowProofs` | theorems about it |
| `CaseLifecycleProofs` | theorems about what the services keep of the lifecycle, the refinement of `CaseLifecycle` among them |
| `EvidenceUpload`, `MCEvidenceUpload` | uploads over every route, with the storage, the transaction and the answer, and its instances |
| `EvidenceUploadProofs` | theorems about it |
| `ModelRegistry` | registry, model and metadata files: training commands that may die, threads that score |
| `ModelRegistryProofs` | theorems about it |
| `OpsQueue` | the operations queue: pages and summaries while cases change |
| `CaseReports`, `MCOpsQueue` | the analytics report beside the queue, on the same cases, and instances of both |
| `OpsQueueProofs` | theorems about the pages of the queue and the report |
| `EscalationScoring`, `MCEscalationScoring` | what is stored as the score of a case over the life of a customer's cases, and its instances |
| `EscalationScoringProofs` | theorems about it |
| `SurfaceLogin`, `MCSurfaceLogin` | access to the four surfaces and the way through login to a page, and its instance |
| `SurfaceLoginProofs` | theorems about it |
| `DemoSeed` | the two seeding commands over any database, killed and run again |
| `DemoSeedProofs` | theorems about it |

An operator named `X_Something` beside an operator `X`, marked *faulty*, is `X`
with a mistake the code could have made.  No action uses it: exchanged for `X`,
it makes a property fail, which shows that the property depends on that code.

### ReturnCaseWorkflow

A request is served by one worker through the points of `pc`:

| `pc` | Where the code is |
|---|---|
| `idle` | between requests |
| `insert` | `create_return_case`, before the INSERT |
| `form` | `OpsCaseDetailView.post`, case-update: the case is loaded, the form not validated yet |
| `service` | a service has been called with the instance in `held` |
| `evidence`, `first`, `merchant` | rows and event are written; one of the three queries for documents of `extract_case_features` comes next |
| `persist` | the features are read; the scorer and `update_or_create` come next |
| `log` | the RiskScore row is written; the `risk_scored` event comes next |
| `commit` | the transaction has only to commit |

The tables are `row`, `history` (case_created and status_updated events),
`activity` (the other events of an actor), `scored` (risk_scored events), `docs`,
`notes` and `risk`.  `txn` is what a transaction has written and others do not
see; `Commit` moves it into the tables, `Rollback` drops it.  `caseLock` and
`riskLock` are the row locks an UPDATE, an INSERT on a unique key and the
`SELECT ... FOR UPDATE` of `update_or_create` take until the transaction ends.
`held` is the Python instance: it is what the transition check, the SLA refresh
and the audit payload use, and it may be older than the row.

| Action | Code |
|---|---|
| `StartCreate`, `InsertCase`, `DuplicateReference` | `create_return_case`, unique `order_reference` |
| `StartApiStatus`, `StartCaseUpdate`, `ReloadCase`, `InvalidForm`, `StartRequestInfo`, `UpdateCase`, `RejectTransition` | the four ways to `update_return_case_status` |
| `StartAddNote`, `AddNote` | `add_case_note` |
| `StartUpload`, `StartMerchantResponse`, `InsertDocument`, `NoteOnlyResponse` | `upload_document_for_case`, `submit_merchant_response` |
| `ReadFeature`, `PersistRisk`, `LogRisk` | `score_case_and_persist`: each query for documents, the RiskScore row, the event |
| `ScoringFails`, `RescoreSwallowed` | an error at any of its steps: the request is rolled back, or, in an upload, to the savepoint (`AfterSwallow`) |
| `Commit`, `Crash` | the end of `transaction.atomic`; a worker killed or cut off |

A statement is a step of its own where another request, or an error that does
not undo the whole transaction, can come before the next.  It reads what is
committed when it runs: the three queries for documents may see three different
sets of them.
`score_case_and_persist` opens a savepoint; an error after the RiskScore row is
written takes the row back with it, and the row lock.

Three variables are history, read by no guard.  `overtaken` has the times of the
status events whose update was decided on an instance that was not the row any
more.  `late` has the workers whose case got a document of another request after
they had begun to read its features.  `outdated` has the cases whose score a
late worker stored, or whose last rescoring failed.  The properties say what
holds without exception, and name these where there is one: it is the overlap
that breaks the chain of the audit trail, the finality of a decision, the
priority an event tells of and the freshness of a score, and nothing else.

Data are abstracted to what the properties tell apart.  A document is its key
and its uploader's role; a merchant's response is stored under the role of its
account, which is ops or admin where the account is in those groups too, and
then does not count as the merchant's.  A score is the answers of the queries
its features were computed from, and the scorer that ran.  Of the features only
those about documents are followed here: `prior_returns_count` changes with
other cases of the customer, and `EscalationScoring` has it.  `sla` is the window in hours between
`last_status_changed_at` and `sla_due_at`, which are set from "now" together.
Who may call what is left to the access rules, and order value, messages and
categories, which never change, are left out.

### EvidenceUpload

Uploads to one case, each going through the points of `pc`:

| `pc` | Where the code is | Actions |
|---|---|---|
| `idle` | before | `ShowForm`: a page shows its form to an account, or a client sends without one |
| `send` | the browser has what will be posted | `Receive`, `RefuseRequest`: the view's check of the account and the form |
| `judge` | `upload_document_for_case` begins | `Judge`, `RefuseRole`: `_assert_upload_allowed` |
| `clean` | `EvidenceDocument.save`, before `full_clean` | `FullClean`, `RejectDocument` |
| `create`, `write` | `FileSystemStorage` opens a new name, then writes | `CreateFile`, `WriteFile` |
| `insert`, `rename` | the two saves of the row: client's name, then the storage's | `InsertRow`, `RenameRow` |
| `log`, `respond` | the `document_uploaded` event; the merchant portal's own event | `LogUpload`, `LogResponse` |
| `commit` | the transaction has only to commit | `Commit` |
| `reply` | the page or the JSON is put together | `Reply` |

`Fail` and `Crash` may come at any point inside the transaction, `FailReply` and
`Crash` after its commit, where a failing query or template is answered with an
error although the upload is stored, and `ChangeGroups` between any two steps.  The groups of an account
are read when the form is shown (`OfferOn`), when the view receives the upload
(`Valid`, `Refusal`) and when the service judges it (`UploadAllowed`), and once
more for the documents the answer lists (`Shown`).  `txn` holds the row and the
events until `Commit`; `storage` changes at once and is never rolled back.
`promised` is history: it says that a form offered what was sent, and that the
account has been in the same groups ever since, not in both portal groups; only
`OfferIsKept` reads it.  A
file's content is the upload it comes from, so that a checksum is the content
it was taken from.  The scoring after an upload belongs to `ReturnCaseWorkflow`.

### ModelRegistry

One action per step of `train_and_save_baseline_model`, `_rename_training_outputs`
and `register_active_model` that another process can see: opening a file for
writing cuts it to nothing (`Torn`), the write makes it whole, `replace` and
`unlink` are single steps.  `step` is where the command is; `CrashTraining` ends
it anywhere.  A scoring thread reads registry, metadata and model one after the
other (`ReadRegistry`, `ReadMetadata`, `LoadModel`, `LoadFails`) and, if the
artefact is unavailable, `Fallback` reads the registry again, as
`ml/scoring.py` does.  The content of a model is the training it comes from.
`train_escalation_model --output-dir` writes model and metadata to a directory
scoring does not look into (`elsewhere`), and registers the version all the same.
What `pickle.load` does with a file cut short depends on where it is cut, so
both outcomes are allowed.

### OpsQueue

A listing is the sequence of queries the API view sends, none of them in a
transaction: `CountCases`, `FetchPage`, `CountTotal`, `CountByStatus`; between
any two, `CreateCase` and `ChangeCase` add or change a case (the code removes
none) and `PassTime` moves the clock.  `asOf` is the clock as the queryset was built.  A page is taken from any
order the `ORDER BY` permits (`CHOOSE` would hide a missing tie-breaker).
`shown` collects the pages shown since anything changed.

### CaseReports

The report of the analytics endpoint is three queries: `CountStatuses`,
`CountPriorities`, `CountReported`, with cases created and changed in between.
`QueueAndReports` composes it with the listings of `OpsQueue`, on one table; as
readers do not disturb each other, a report runs between two listings.  `known`
is history: the cases there were when the report began.

### EscalationScoring

`CreateCase`, `UpdateStatus` and `Upload` are the services of the workflow
again, this time one after the other and with the content of the score:
features, reason codes, the placeholder's weighted sum and the labels are
translated term by term, a trained model may return any probability.  A
response without a file changes no document, hence no feature, and is left out.
Scores are integers (hundredths), probabilities thousandths.  Time is in seconds,
and the time to the first evidence in hundredths of an hour, rounded as the code
rounds it: a day begins 18 seconds early.  `current` tells
whether the last rescoring went through.

### SurfaceLogin

One browser window.  `ServeSurface`, `ServeLogin` and the others are one
request each; a redirect leaves `answer` at "pending" with another `page`.
`wanted` is the page that sent an anonymous visitor to log in, `landed` tells
that login chose the page and the account has not changed since; both are
history, no action reads them.  Paths are records of surface and kind, which is
all `SURFACE_ALLOWED_PREFIXES` distinguishes; `url_has_allowed_host_and_scheme`
admits relative paths, and only those are modelled.

### DemoSeed

`seed_returnhub_demo` is a list of statements, each committed by itself; `job`
is the next one, `Crash` may come before any.  `held` is what the command keeps
in memory (the profiles it saved).  `seed_demo_data` is atomic: `SeedLegacy`.
`SaveProfile` checks the unique constraints the database checks.  The initial
states are all tables of profiles that respect them, empty ones and ones with
references like those the command gives (`legacy-cus-<key>`) included.  A
statement that breaks a constraint ends the command (`collided`).

## Runs

| Run | Instance | What it checks |
|---|---|---|
| `workflow_overlap` | 1 case, 2 workers, 2 documents, 3 requests, under fairness | `TypeOK`; committed row, risk score and documents agree with the audit trail (`RowMatchesAudit`, `RiskMatchesAudit`, `DocumentsAudited`), a creation is whole (`CreatedWhole`), priorities change on request only (`PriorityOnlyOnRequest`); but for what was overtaken, events form a chain (`AuditChain`), decisions hold (`DecisionsHold`) and the score takes in every document (`RiskIsFresh`); the services implement `CaseLifecycle` (`FollowsLifecycle`); no deadlock on row locks, no lock left behind (`EveryRequestEnds`) |
| `workflow_overlap_terminal` | the same, without fairness | violated: `TerminalIsFinal` |
| `workflow_overlap_sla` | the same, without fairness | violated: `SlaFollowsPriority` |
| `evidence_upload` | 2 uploads over every route, 2 accounts, 2 names for files, 1 change of groups | `TypeOK`; a row has its file (`RowHasItsFile`), a refusal leaves nothing (`RefusedLeavesNothing`), row and events are there together or not at all, and success is true (`UploadIsWhole`), a form keeps its word (`OfferIsKept`) |
| `upload_answers` | the same, 1 upload | violated: `RefusalsAre400` |
| `registry_crash` | 2 trainings (4 versions), 1 thread, crashes | `ScoreNamesItsModel`, `CompletionHeals`, `RetrainedModelWhole`, `FailsOnlyAroundWrites` |
| `registry_degradation` | the same without crashes | violated: `ScoreAlwaysProduced` |
| `queue_pages` | 3 cases, pages of 2, 2 times, 5 contents of a case, 3 windows of a report | `PagesShowEachCaseOnce`, `PagesFollowDocumentedOrder`, `AnswersExistingPage`, `ReportAddsUp` |
| `queue_summary` | the same | violated: `SummaryCounts` |
| `scoring_facts` | 3 cases of one customer, 2 documents in all, at 3 seconds around the end of a day | `CodesExplainDocuments`, `CodesOnlyProgress`, `HistoryNeverShrinks` |
| `surface_login` | 6 memberships (none, each alone, two with a precedence), every page and next path, under fairness | `LandingOpens`, `BackWhereItBegan`, `RedirectsEnd` |
| `demo_seed` | any 3 profiles divided among the two tables, 6 keys, references made of 2 keys taken, 1 case per customer | `CollidesOnlyOverTakenName`, `CompleteRunIsWhole`, `RerunKeepsProfiles` |

The runs that pass also check that nothing is stuck, with the exception of
`evidence_upload`, in which every upload ends and the groups have changed as
often as they may: there the system really stops.

Bounds of the workflow runs.  Two workers suffice for every pair of overlapping
requests, and every property is about one case; three requests allow a creation
followed by the two that race.  Two documents let an upload race with another.
The statuses requested are one of each kind: one to go on from, one a
form can request, one that is final.
`workflow_overlap` checks liveness and so uses no symmetry.
The priorities are the initial one and another with a different window.
The only state without a next action of the system is the
one in which the bound on requests is reached and every worker idle, where
`Drained` stutters.

Fairness of the workflow.  `EveryRequestEnds` assumes `SF_vars(Advance(w))` for every worker: a
thread with work to do is scheduled, and PostgreSQL queues the transactions that
wait for a row, so a lock that is freed again and again is obtained in the end.
Nothing is assumed about arrivals, crashes, or errors of the scoring.

Bounds of the uploads.  Two uploads can race for one name and one of them can
leave its file behind for the other to avoid, which takes two names; each also
fails, or dies, at every step.  Two accounts are those of the case's two
profiles; each can be in no group, in its own, in the other's, in both, or in
one with the staff.  One change of groups separates any two of the readings.
`MCPost` sends, over every route, what its form asks for, the other kind, the
other account's, a refused file, an empty one, no file and a note that is too
long.

Bounds of the other runs.  Two trainings give an active version and another one
to replace it, each with and without the retraining's prefix; a single thread
suffices since threads share no state, and what one does between its reads is up
to the trainer.  Each training may write elsewhere.  Three cases are the least that fill a page of two and one more;
their contents differ from the first in one key of the order each, so each key
decides somewhere; two days give a report a window that leaves cases out, and
one that ends before it begins.  Three cases are also the least for the reason code of two
prior returns, and documents at the creation, in the last second that rounds to
less than a day and in the first that rounds to a day separate all the codes
about documents; the chosen return is scored between the placeholder's
bounds, so that a change of history shows.  Of the sets of groups the login
depends on membership and on `PRIMARY_ROLE_ORDER` only: a pair shows which of two
counts.  The seeding's six keys are those of three profiles found and three
added; three profiles suffice to have the user and the reference of a demo
profile held by two others, and one more in the way; two keys whose made
references are taken let a profile in the way find its new name held by another,
or by itself.

Fairness of the login.  `RedirectsEnd` assumes `WF_vars(Serve)`: the server
answers what the browser asks for, and the browser follows redirects without
being told.  Nothing is assumed about the visitor or the administrator.

## What the runs disagree with

Five runs state what a document or a test says and find it violated.

- **`workflow_overlap_terminal`** (`returns/services/cases.py:189`).  Two status
  requests load a case in review; the first approves it and commits; the second
  still passes the transition check on its own instance and moves the approved
  case, although `docs/api/returns-workflow.md:96` knows no transition from
  approved.
- **`workflow_overlap_sla`** (`returns/services/cases.py:203`).  The deadline
  follows the priority of the instance in memory, while the priority column is
  written only when a new one was given: a request without a priority that
  overlaps with one that sets it leaves a row whose deadline is that of a
  priority it does not have, although `returns/services/sla.py:74-75` derives
  due dates "from the current case priority".
- **`queue_summary`** (`returns/services/queue.py:178`).  `get_queue_summary`
  groups by status a queryset that is already ordered; Django adds the ordering
  columns to `GROUP BY`, so the groups are nearly single cases and the
  dictionary keeps one of them: two submitted cases count as one.
- **`registry_degradation`** (`ml/scoring.py:30`).  The placeholder that is to
  replace an unavailable model reads the same registry again, with no handler:
  scoring at the moment of `register_active_model` raises, although
  `docs/ml/operations.md:128-129` promises a score.
- **`upload_answers`** (`ui/views.py:215`).  The upload form of the case page
  checks neither the type nor the size of the file; `EvidenceDocument.clean`
  does, and its `ValidationError` is caught by nobody: the server answers 500
  where `docs/ui/evidence-states.md:52-56` promises 400.

Noticed while translating, and stated without a run:

- `train_escalation_model --output-dir` registers a version whose files scoring
  does not find (`ml/services/scoring.py:46,52-58`): every score falls back to the
  placeholder, under that version's name.  `CompletionHeals` leaves such a
  training out.
- A profile that holds the reference made of another profile's key
  (`legacy-cus-7`, `legacy-mer-7`) makes `seed_returnhub_demo.py:161-163` and
  `195-197` raise `IntegrityError`, on every run, although the docstring (line
  145) says "without colliding on unique references".
- A failure of the case page's answer (`ui/views.py:147-183`, `227`) comes after
  the commit: the client is told of an error and the upload is stored.  Sent
  again, it is stored twice.
- The label of a trained score is taken from the raw probability
  (`ml/services/scoring.py:127`), the score is rounded afterwards: 0.7480 is
  stored as 0.75 with the label medium, whereas
  `docs/ml/baseline-escalation-risk.md:117-119` gives 0.75 to high.
- Prior returns are all the other returns of the customer, later ones included
  (`ml/features.py:76-77`).
- `accounts/mixins.py:86,92,98` and
  `docs/sprint-runbook/sprint-6/sprint-6-multi-surface-verification.md:114-122`
  speak of an admin override on the surfaces; `mixins.py:55` grants none, and
  `tests/test_surface_smoke.py` expects the 403.
- A merchant who answers by a note alone goes on being described as not having
  "added any supporting documents or responses" (`ml/reason_codes.py:75`): the
  feature counts documents (`ml/features.py:112`), and a response without a file
  does not rescore (`returns/services/merchant_portal.py:130`).
- The note of the merchant's form has no limit; one of more than 255 characters
  sent with a file is refused by the column's `full_clean`, which the view does
  not expect: another 500.
- `docs/api/returns-workflow.md:162-163` and `docs/ui/evidence-states.md` let
  merchants upload responses; the live route `/api/returns/{id}/documents/`
  takes evidence only (`api/serializers/return_documents.py`), so that a merchant
  gets 400 for a response and 403 for evidence.
- An account in both portal groups counts as a merchant: the customer portal
  offers it a form whose upload is then refused.  `user_can_access_case`
  (`returns/api/permissions.py:45-49`) asks in the other order and counts it as a
  customer.  `OfferIsKept` leaves such accounts out.
- The upload panel of the customer portal posts to
  `/cases/{id}/documents/upload/` (`templates/partials/_upload_panel.html:17`),
  whose answer to anything but HTMX is JSON; the portal's page has no script for
  it, so the browser shows the JSON.
- A rollback or a crash after the file is written leaves the file; nothing ever
  deletes it.  No row names it (`RowHasItsFile`).
- An account of the admin group that is not staff may be sent to `/admin/` and
  finds the Django admin's own login there.  `LandingOpens` is about refusals
  and does not count it as one.
- Seeding again resets the status of demo cases that were decided since
  (`seed_returnhub_demo.py:223`) and writes no event.  A profile found by its
  reference is taken over together with its cases.

On the rest of what overlapping requests do the documents are silent, and the
properties of `workflow_overlap` state it.  Of two updates that overlap, the
later one logs the status and the priority it had read (`AuditChain`), may start
from a status the case has left (`FollowsLifecycle`), and, if it gives no
priority, reports the one it had read while the row keeps the other's
(`RowMatchesAudit`).  An upload and another request may both read the documents,
and the one that read fewer may write last; the next rescoring corrects the
score (`RiskIsFresh`).

## Proofs

All of the following is checked by TLAPS for every value of the constants that
satisfies the modules' assumptions.

| Theorem | Module | What it says |
|---|---|---|
| `TypeCorrect`, `RowAlwaysMatchesAudit`, `RiskAlwaysMatchesAudit` | `ReturnCaseWorkflowProofs` | types; the committed row is what its latest status event says, the RiskScore what its latest `risk_scored` event says |
| `CasesAlwaysCreatedWhole`, `DocumentsAlwaysAudited`, `PriorityAlwaysOnRequest` | `ReturnCaseWorkflowProofs` | what a creation, an upload and an update store |
| `WaitsAlwaysEnd` | `ReturnCaseWorkflowProofs` | no deadlock on row locks: what `EveryRequestEnds` rests on besides fairness |
| `LifecycleAlwaysFollowed`, `AuditAlwaysChains`, `DecisionsAlwaysHold`, `RiskAlwaysFresh` | `CaseLifecycleProofs` | what else `workflow_overlap` checks, but liveness; the first is the refinement of `CaseLifecycle` |
| `UploadTypeCorrect`, `RowAlwaysHasItsFile`, `RefusedAlwaysLeavesNothing`, `UploadAlwaysWhole`, `OfferAlwaysKept` | `EvidenceUploadProofs` | the invariants of `evidence_upload` |
| `RegistryTypeCorrect`, `ScoresNameTheirModel`, `CompletionAlwaysHeals`, `RetrainedModelAlwaysWhole`, `FailsAlwaysAroundWrites` | `ModelRegistryProofs` | what `registry_crash` checks |
| `QueueTypeCorrect`, `PagesAlwaysFit`, `PagesAlwaysInOrder`, `PageAlwaysExists`, `ReportAlwaysAddsUp` | `OpsQueueProofs` | what `queue_pages` checks |
| `ScoringTypeCorrect`, `CodesAlwaysExplain`, `CodesAlwaysProgress`, `HistoryKept` | `EscalationScoringProofs` | what `scoring_facts` checks |
| `LoginTypeCorrect`, `LandingAlwaysOpens`, `AlwaysBackWhereItBegan` | `SurfaceLoginProofs` | the invariants of `surface_login` |
| `ChainsAlwaysShrink` | `SurfaceLoginProofs` | no circle of redirects: what `RedirectsEnd` rests on besides fairness |
| `SeedTypeCorrect`, `SeedCollidesOnlyOverTakenName`, `CompleteRunAlwaysWhole`, `RerunAlwaysKeeps` | `DemoSeedProofs` | what `demo_seed` checks |

*Workflow.*  `RowMatchesAudit` speaks of the committed tables and is not
inductive: it has to be known what an open transaction will commit.  `TypeInv`
is the type invariant with, for each point of `pc`, what the worker holds there
(`RequestInv`).  `CaseRowInv` adds that a transaction that has written the row
holds its lock, so that only one has; that its row and its event agree; and that
its event is later than all committed ones, so that it is the latest once
`Commit` has installed both.  `RiskRowInv` says the same of the RiskScore row
under `riskLock`; the row is written a step before its event, so that between the
two (`log`) a transaction holds a row without one, which an error takes back to
the savepoint (`RiskAuditSwallow`) and the commit never meets.
That the row has the priority of its event is claimed unless the event's update
was overtaken: the record of that is made with the write, and stays.
The proofs go action by action (`StepType`, `CaseAuditStep`,
`RiskAuditStep`), with frame lemmas for the actions that touch neither.

*What the workflow stores.*  `StepKinds` reduces the actions to three kinds: a
step inside a transaction, which changes that transaction alone (`Works`), a
rollback, and the commit.  Each invariant says what a transaction has read or
written so far, and only the commit has to move it into the tables.
`CreationInv`: a transaction that inserts a case holds the lock of the unique
key and finds no case there.  `DocsInv` is about counting: the number of
`document_uploaded` events of a document is one if it is stored and none
otherwise, so that appending the transaction's events keeps it.
`PriorityOnlyOnRequest` is an action property and needs to know what a commit
will install: `PriorityInv` says that the row a transaction has written has the
priority of the committed row, or the one requested.  Another commit could move
the committed row away from under it; that it cannot is `CaseRowInv` again, by
which only the holder of the lock has written the row (`RowWriterAlone`).

*Row locks.*  `LocksInv` says where in its request the holder of a lock can be:
the case row is locked from its write on, the RiskScore row only when nothing but
its event and the commit is left.  Hence a worker that waits for the RiskScore row
waits for one that waits for nobody, and one that waits for the case row waits for one that
waits for the RiskScore row at most (`WaitsEnd`).

*Lifecycle.*  The requests of a case overlap, so the instance a request holds need
not be the row.  What can be kept is `IntentInv`: it is a row the case has had
(`Reported`: its status and its priority are each what some event of the log
tells), and what a transaction has written is a legal step, a creation, a move
from the row that is there (`MovesOn`), or an overtaken one from what events have
reported (`Overtakes`).  That a move is still one from the row when it commits is
the row lock again: nobody else writes in between (`WritersWork`, `LegalStays`).
Then every step of the system makes one legal, logged move of one case or none
(`OneMove`, `NoMove`), from which the chain of events (`CaseInv`), the finality of
decisions and the refinement follow.  The refinement mapping is the identity on
committed rows and logs and maps `overtaken` to the events in the log that are in
it (`OvertakenEvents`): a move is recorded as overtaken when it is written, and
counts from its commit on.

*Freshness.*  `FreshInv` follows a scoring query by query: unless a document was
committed since it began, what it has read (`Answered`) is what is there, and so
is the row computed from it.  A commit of documents makes every other worker at
the case `late`, and moves the committed documents by exactly its own, which it
had read itself; a commit of a score by a worker that is not late leaves the
score of all documents.

*Uploads.*  `UploadInv` is a conjunction, over requests, of what a request
holds at its step (`Own`): before `create` there is no file of it, from `write`
on its path is its own and whole, in its transaction are exactly the row and the
events its step has come to, and the tables have them only after the commit.  A request that ends in an error or
dies is `Told` or `Untold`: all of it is in the tables, or nothing.
`Frame` says what a step of one request leaves alone, which proves `Own` for
all the others at once; `RowsInv` says that rows are of whole files and share
none.  What a form offers is a second invariant (`OfferInv`): what was offered and
is still on its way is `Fit`, let through by every check and shown to its sender,
as long as the groups of its account stay (`PromiseFits`, `FitStays`; accounts
of both portal groups are left out, see the findings), and the
flags a row is filtered by follow its kind.

*Queue.*  The page shown must be proved to be a function of the cases, though
the database is free within its `ORDER BY`.  `Rank` is the number of selected
cases the documented order has before a case.  The documented order is strict
and total (`MoreIsOrder`), the sort key expresses it (`KeyIsMore`), hence the
case at place i of any permitted order has rank i - 1 (`OrderRanks`): the
database has no choice.  `QueueInv` says that every page shown is the segment of
ranks that belongs to it (`Placed`), and, as long as nothing was disturbed, that
count and clock of the listing are current.  That pages are disjoint, complete
and in order is then arithmetic on ranks (`PlaceOfRank`, `RankOfPlace`).

*Registry.*  `IInv` relates the progress of the command to the files
(`Progress`: between the renaming and the registration the model is whole under
its new name, unless it was written elsewhere), says that a file contains what its name says or is torn or
missing, and that a thread carries the name of the version it is about to load.
`FailsOnlyAroundWrites` needs the converse of a torn file: `TornInv` says that
while no command has died the registry is torn in one step only and a model in
one only, and that the registry is never missing.  A thread that fails has met a
torn file (`FailureMeetsTorn`): what is missing only makes the artefact
unavailable.

*Scoring.*  `HistoryKept` is an action property: the new score is compared with
the old.  The invariant `HistoryInv` bounds what is stored by what a scoring
would find now, since returns are only added; the rest is that the placeholder's
sum is monotone in prior returns and nothing else in it moves.  `CodesInv` does
the same for reason codes: documents are only added, a code about documents
holds of those there were at the scoring (`CodesHold`), and an upload that is
rescored replaces it by what holds now (`CodesTrue`).

*Report.*  A table of counts stands for the set of pairs of a key and a number
up to its count, so that its total is a cardinality and needs no induction.
`CountsAddUp` maps the cases of a window one to one onto those pairs, whatever
they are counted by; `ReportInv` says that what has been counted so far is no more
than the window holds now, and as much if no case was created since the report
began, as windows only gain cases (`WindowGrows`).

*Seeding.*  `SeedInv` follows the list of statements: each brings something about
(`Done`), and all that come before `job`, or have ever all been run, have done so
(`Past`).  The point is what may happen in between: no later statement, no run
killed and started again, no renaming and no `seed_demo_data` undoes `Done`
(`RowsStay`, `GroupsStay`, `CasesStay`), so a run that ends leaves all of it.  Once
the row in the way is renamed nobody but the user's own profile has the reference
(`Clear`).  `CollisionStep` goes through the statements that can be refused: a
reference is taken only from a row that is `Clear`, and the name a row in the way
gets is made of its own key, so that another row has it only if it had it from
the beginning; that the commands give nobody such a name is the second half of
the theorem (`NamesStay`).  That a key is free for a new
profile takes counting: those of strangers, and one for each demo user (`Room`).

*Login.*  `LoginInv` carries the decision taken at login over to the request
that opens the page: what `PostLoginPage` chose, `HasSurfaceAccess` grants, as
long as the account is the same.  `RedirectsLeft` is a variant: each answer of the
server ends a chain of redirects or lowers it, and a session that ends within
the chain does not raise it (`ChainShrinks`), as none can begin there.

Assumptions are the `ASSUME`s of the modules: finiteness, disjointness of `None`
from the values it stands beside, non-negative bounds, and for the seeding
primary keys that begin at 1 with room for the profiles the commands add (a
table is never full).  TLC evaluates them in every run.

Only model-checked is liveness, `EveryRequestEnds` and `RedirectsEnd`: it rests on
fairness and on `ENABLED`, which the prover does not handle.  What is
proved of them is that nobody waits in a circle (`WaitsAlwaysEnd`) and that
redirects run out (`ChainsAlwaysShrink`).  The five
violations are TLC's as well; they are counterexamples, and need no proof.

## What is not modelled

- Who may read or change a case: `ReturnCaseWorkflow` takes its callers as
  allowed.  For documents the rules are in `EvidenceUpload`.
- `_build_ml_insights` of the case page, the parsing of the report's dates, and
  the routes that are not mounted (`api/views/documents.py`, the audit export the
  documents describe).
- Rendering, the forms without an upload or a status, serializers, settings, health checks, dataset generation and
  the fitting of models: no state, or numerical.
- Wrappers (`returns/services/workflow.py`, `ops_queue.py`, `audit_export.py`)
  and `risk_scoring.py`, an older copy of `risk.py` that nothing calls.
- The workflow runs on one database with READ COMMITTED isolation; failover and
  the loss of committed data are not modelled.
- In the uploads, the up to four queries of `_actor_role` are one read of the
  groups, and in the seeding `set_password` and its `save` belong to the statement
  before them: nothing that is modelled tells the moments apart.
- Two training commands at once, or two seeding commands at once: they are
  started by hand, and the models run one at a time.
- `EscalationScoring` serves one request at a time: races between scorings are
  the subject of `ReturnCaseWorkflow`, which in turn does not follow
  `prior_returns_count`.
- The free-text search of the queue and its page-number links; wrong passwords;
  the columns of the demo's cases.

## Plan

The order was: the workflow, since everything else serves it; the files every
scoring depends on; the queue operators work from; the content of scores; the
login; the demo data; the uploads with their files; the analytics beside the
queue; the proofs of what the workflow stores, of the refinement, of uploads and
of pages; the proofs of reports, seeding, priorities, row locks,
chains of redirects and failures of scoring.  These are done.  Left, in this order:

1. `CaseAccess`: who may see and change which case, through API, portals and
   console, while roles change.
2. Proofs about `CaseAccess`.

New questions are added to existing runs where they share an instance.

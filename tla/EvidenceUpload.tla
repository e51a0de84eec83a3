----------------------------- MODULE EvidenceUpload -----------------------------
(***************************************************************************)
(* Uploads of documents to one return case: the file goes to the storage, its   *)
(* row and its events to the database, and an answer to the client.             *)
(*                                                                          *)
(* The row and the events share a transaction; the storage knows none.  The     *)
(* groups of an account are read three times on the way: when the form is       *)
(* shown, when the view receives the upload and when the service judges it.     *)
(*                                                                          *)
(* Operators named X_Fault are X with a mistake the code could have made.       *)
(***************************************************************************)
EXTENDS Naturals, FiniteSets

CONSTANTS
  None,
  Upload,       \* uploads; each is also the key of the row it inserts
  User,
  Customer,     \* the user of the case's customer profile
  Merchant,     \* the user of the case's merchant profile
  Name,         \* paths below MEDIA_ROOT
  Original,     \* the name of a file on the client's disk
  Membership,   \* bound: the sets of groups an account may be in
  Post,         \* bound: the uploads clients send
  MaxChanges    \* bound: how often groups change

Role == {"admin", "ops", "merchant", "customer"}
DocumentKind == {"evidence", "response"}

\* The routes that take an upload, and the pages that show a form
Way  == {"page", "customer", "merchant", "api"}
Page == Way \ {"api"}

\* A file is refused by EvidenceDocument.clean for its type or its size, empty, or
\* good; a note is longer than the 255 characters of the column, or short
Posted == [way : Way, user : User, kind : DocumentKind,
           file : {"good", "refused", "empty", "none"}, note : {"none", "short", "long"}]

\* What is stored, and how a request ends
Outcome == {"ok", "invalid", "forbidden", "not_found", "rejected", "error", "lost"}
File == [content : Upload, whole : BOOLEAN]
DocumentRow == [upload : Upload, path : Name \cup {Original}, digest : Upload,
                role : Role, kind : DocumentKind,
                toCustomer : BOOLEAN, toMerchant : BOOLEAN]
UploadEvent == [type : {"document_uploaded", "merchant_response_submitted"},
                upload : Upload]

ASSUME UploadAssumption ==
  /\ Customer \in User /\ Merchant \in User /\ Customer # Merchant
  /\ None \notin Name \cup Upload \cup Role /\ Original \notin Name
  /\ Membership \subseteq SUBSET Role
  /\ Post \subseteq Posted
  /\ None \notin Posted /\ None \notin Outcome
  /\ None \notin File /\ None \notin DocumentRow
  /\ MaxChanges \in Nat

VARIABLES
  \* the database
  groups,   \* the groups of each account; a superuser counts as an admin
  rows,     \* EvidenceDocument rows of the case
  events,   \* CaseEvent rows of the case
  \* the storage
  storage,  \* per path the file there, None where there is none
  \* the requests
  pc,       \* the step each upload comes to
  promised, \* did a form offer what was sent, to an account that still is the same?
  post,     \* what was sent
  role,     \* the actor's role as the service found it
  path,     \* FieldFile.name, once the storage has named the file
  txn,      \* the row and events written and not yet committed
  outcome,  \* how it ended, None while it has not
  listed,   \* the documents its answer shows
  changes   \* how often groups changed

database == <<groups, rows, events>>
vars == <<database, storage, pc, promised, post, role, path, txn, outcome,
          listed, changes>>

--------------------------------------------------------------------------------
(* Roles *)

\* _actor_role: the first of the groups, in this order.  Its up to four queries are
\* taken as one.
RoleOf(u) ==
  IF "admin" \in groups[u] THEN "admin"
  ELSE IF "ops" \in groups[u] THEN "ops"
  ELSE IF "merchant" \in groups[u] THEN "merchant"
  ELSE IF "customer" \in groups[u] THEN "customer" ELSE None

Staff == {"admin", "ops"}

\* get_case_detail_actor_role; the upload view takes its PermissionDenied for no role
WorkspaceRole(u) ==
  IF \/ RoleOf(u) \in Staff
     \/ RoleOf(u) = "customer" /\ u = Customer
     \/ RoleOf(u) = "merchant" /\ u = Merchant
    THEN RoleOf(u) ELSE None

\* Can the portal of surface s show its case to u?
HasSurface(u, s) == s \in groups[u]
SeesPortalCase(u, s) ==
  \/ "admin" \in groups[u]
  \/ u = IF s = "customer" THEN Customer ELSE Merchant

\* faulty: the form is not told the role
KindChoices_Fault(r) == IF r = None THEN {} ELSE DocumentKind

\* CaseDocumentUploadForm: the kinds a role may choose
KindChoices(r) ==
  CASE r \in Staff       -> DocumentKind
    [] r = "customer"    -> {"evidence"}
    [] r = "merchant"    -> {"response"}
    [] OTHER             -> {}

\* faulty: an account without a role is let through
UploadAllowed_Fault(u, kind) == RoleOf(u) = None \/ kind \in KindChoices(WorkspaceRole(u))

\* _assert_upload_allowed
UploadAllowed(u, kind) ==
  \/ RoleOf(u) \in Staff
  \/ RoleOf(u) = "customer" /\ u = Customer /\ kind = "evidence"
  \/ RoleOf(u) = "merchant" /\ u = Merchant /\ kind = "response"

--------------------------------------------------------------------------------
(* Forms and views *)

\* What the form on a page offers u to send, and the route it posts to: the
\* panel of the customer portal posts to the route of the case page.
OfferOn(page, u) ==
  CASE page = "page" ->
         {[way |-> "page", kind |-> k] : k \in KindChoices(WorkspaceRole(u))}
    [] page = "customer" ->
         IF HasSurface(u, page) /\ SeesPortalCase(u, page)
           THEN {[way |-> "page", kind |-> k] : k \in KindChoices("customer")} ELSE {}
    [] page = "merchant" ->
         IF HasSurface(u, page) /\ SeesPortalCase(u, page)
           THEN {[way |-> "merchant", kind |-> "response"]} ELSE {}

\* Does the form of a page offer p, and is p in order?  An account that is customer
\* and merchant counts as merchant to the service, whatever portal it is on.
Promises(page, p) ==
  /\ [way |-> p.way, kind |-> p.kind] \in OfferOn(page, p.user)
  /\ p.file = "good" /\ p.note # "long"
  /\ ~({"customer", "merchant"} \subseteq groups[p.user])

\* CaseDocumentUploadForm, MerchantResponseForm, which sets no limit to the note and
\* wants a note or a file, and the serializer of the API.  The file field of each of
\* them refuses an empty file, whatever comes with it.
Attached(p) == p.file \notin {"none", "empty"}
ValidUpload(p, kinds) == p.kind \in kinds /\ Attached(p) /\ p.note # "long"
ValidResponse(p) == Attached(p) \/ (p.file = "none" /\ p.note # "none")
ValidSerializer(p) == p.kind = "evidence" /\ Attached(p) /\ p.note # "long"

Valid(p) ==
  CASE p.way = "page"     -> ValidUpload(p, KindChoices(WorkspaceRole(p.user)))
    [] p.way = "customer" -> ValidUpload(p, KindChoices("customer"))
    [] p.way = "merchant" -> ValidResponse(p)
    [] p.way = "api"      -> ValidSerializer(p)

\* What the view answers before it calls the service, None if it calls it
Refusal(p) ==
  CASE p.way = "page" /\ WorkspaceRole(p.user) = None             -> "forbidden"
    [] p.way \in Role /\ ~HasSurface(p.user, p.way)               -> "forbidden"
    [] p.way \in Role /\ HasSurface(p.user, p.way)
                      /\ ~SeesPortalCase(p.user, p.way)           -> "not_found"
    [] OTHER -> IF Valid(p) THEN None ELSE "invalid"

\* full_clean: the type and size of the file, the length of the notes
FullCleanRefuses(p) == p.file = "refused" \/ p.note = "long"

\* The statuses of the answers.  Only PermissionDenied and DocumentServiceError
\* are caught: the ValidationError of full_clean is answered like any other error.
StatusCode(o) ==
  CASE o = "ok" -> 200 [] o = "invalid" -> 400 [] o = "forbidden" -> 403
    [] o = "not_found" -> 404 [] o \in {"rejected", "error"} -> 500

\* The documents an account is shown: list_documents_for_case ...
Stored(D) == {d.upload : d \in D}
ListedFor(u) ==
  CASE WorkspaceRole(u) \in Staff    -> Stored(rows)
    [] WorkspaceRole(u) = "customer" -> Stored({d \in rows : d.toCustomer})
    [] WorkspaceRole(u) = "merchant" -> Stored({d \in rows : d.toMerchant})
    [] OTHER                         -> {}

\* ... and get_customer_case_for_user, get_merchant_case_for_user
PortalDocuments(portal, u) ==
  IF ~(HasSurface(u, portal) /\ SeesPortalCase(u, portal)) THEN {}
  ELSE Stored({d \in rows : \/ "admin" \in groups[u]
                            \/ portal = "customer" /\ d.toCustomer
                            \/ portal = "merchant" /\ d.toMerchant})

Shown(way, u) == IF way = "page" THEN ListedFor(u) ELSE PortalDocuments(way, u)

--------------------------------------------------------------------------------
(* The order of the steps *)

\* The statements of upload_document_for_case and, within it, of
\* EvidenceDocument.save; on the merchant portal they are part of
\* submit_merchant_response, which adds an event of its own
Order(r) ==
  [judge |-> "clean", clean |-> "create", create |-> "write", write |-> "insert",
   insert |-> "rename", rename |-> "log",
   log |-> IF post[r].way = "merchant" THEN "respond" ELSE "commit",
   respond |-> "commit", commit |-> "reply"]

\* faulty: cleaned after the file is stored; no second save; the response is
\* recorded for notes alone
After_CleanLate(r) ==
  [Order(r) EXCEPT !.judge = "create", !.write = "clean", !.clean = "insert"][pc[r]]
After_NoRename(r) == [Order(r) EXCEPT !.insert = "log"][pc[r]]
After_NoResponse(r) == [Order(r) EXCEPT !.log = "commit"][pc[r]]

After(r) == Order(r)[pc[r]]

Advance(r) == pc' = [pc EXCEPT ![r] = After(r)]

InTransaction == {"judge", "clean", "create", "write", "insert", "rename", "log",
                  "respond", "commit"}
EmptyTxn == [row |-> None, events |-> {}]

Event(type, r) == [type |-> type, upload |-> r]

--------------------------------------------------------------------------------
Init ==
  /\ groups \in [User -> Membership]
  /\ rows = {} /\ events = {}
  /\ storage = [n \in Name |-> None]
  /\ pc = [r \in Upload |-> "idle"]
  /\ promised = [r \in Upload |-> FALSE]
  /\ post = [r \in Upload |-> None]
  /\ role = [r \in Upload |-> None]
  /\ path = [r \in Upload |-> None]
  /\ txn = [r \in Upload |-> EmptyTxn]
  /\ outcome = [r \in Upload |-> None]
  /\ listed = [r \in Upload |-> {}]
  /\ changes = 0

\* An administrator changes the groups of an account
ChangeGroups(u, g) ==
  /\ changes < MaxChanges
  /\ groups[u] # g
  /\ groups' = [groups EXCEPT ![u] = g]
  /\ promised' = [r \in Upload |->
                    promised[r] /\ (pc[r] = "done" \/ post[r].user # u)]
  /\ changes' = changes + 1
  /\ UNCHANGED <<rows, events, storage, pc, post, role, path, txn, outcome,
                 listed>>

\* The user opens a page with a form, and fills in p.  What is sent may be another
\* thing than what was offered.
ShowForm(r, page, p) ==
  /\ pc[r] = "idle"
  /\ promised' = [promised EXCEPT ![r] = Promises(page, p)]
  /\ post' = [post EXCEPT ![r] = p]
  /\ pc' = [pc EXCEPT ![r] = "send"]
  /\ UNCHANGED <<database, storage, role, path, txn, outcome, listed, changes>>

\* The request ends with o; an open transaction is rolled back, the storage is
\* not
End(r, o) ==
  /\ outcome' = [outcome EXCEPT ![r] = o]
  /\ pc' = [pc EXCEPT ![r] = "done"]
  /\ txn' = [txn EXCEPT ![r] = EmptyTxn]
  /\ UNCHANGED <<database, storage, promised, post, role, path, listed, changes>>

\* The view receives the upload
Receive(r) ==
  /\ pc[r] = "send"
  /\ Refusal(post[r]) = None
  /\ pc' = [pc EXCEPT ![r] = IF post[r].file = "none" THEN "respond" ELSE "judge"]
  /\ UNCHANGED <<database, storage, promised, post, role, path, txn, outcome,
                 listed, changes>>

RefuseRequest(r) ==
  /\ pc[r] = "send"
  /\ Refusal(post[r]) # None
  /\ End(r, Refusal(post[r]))

\* _assert_upload_allowed
Judge(r) ==
  /\ pc[r] = "judge"
  /\ UploadAllowed(post[r].user, post[r].kind)
  /\ role' = [role EXCEPT ![r] = RoleOf(post[r].user)]
  /\ Advance(r)
  /\ UNCHANGED <<database, storage, promised, post, path, txn, outcome, listed,
                 changes>>

RefuseRole(r) ==
  /\ pc[r] = "judge"
  /\ ~UploadAllowed(post[r].user, post[r].kind)
  /\ End(r, "forbidden")

\* EvidenceDocument.save: full_clean ...
FullClean(r) ==
  /\ pc[r] = "clean"
  /\ ~FullCleanRefuses(post[r])
  /\ Advance(r)
  /\ UNCHANGED <<database, storage, promised, post, role, path, txn, outcome,
                 listed, changes>>

RejectDocument(r) ==
  /\ pc[r] = "clean"
  /\ FullCleanRefuses(post[r])
  /\ End(r, "rejected")

\* ... the storage opens a file under a name that is free, with the token of
\* build_document_upload_path ...
CreateFile(r) ==
  /\ pc[r] = "create"
  /\ \E n \in Name :
       /\ storage[n] = None
       /\ storage' = [storage EXCEPT ![n] = [content |-> r, whole |-> FALSE]]
       /\ path' = [path EXCEPT ![r] = n]
  /\ Advance(r)
  /\ UNCHANGED <<database, promised, post, role, txn, outcome, listed, changes>>

\* ... and fills it ...
WriteFile(r) ==
  /\ pc[r] = "write"
  /\ storage' = [storage EXCEPT ![path[r]].whole = TRUE]
  /\ Advance(r)
  /\ UNCHANGED <<database, promised, post, role, path, txn, outcome, listed,
                 changes>>

\* _resolve_visibility: faulty with the kinds swapped
VisibleToCustomer_Fault(kind) == kind = "response"
VisibleToCustomer(kind) == kind = "evidence"
VisibleToMerchant(kind) == kind = "response"

\* ... then the row is inserted, with the name the file had before ...
InsertRow(r) ==
  /\ pc[r] = "insert"
  /\ txn' = [txn EXCEPT ![r].row =
               [upload |-> r, path |-> Original, digest |-> r, role |-> role[r],
                kind |-> post[r].kind,
                toCustomer |-> VisibleToCustomer(post[r].kind),
                toMerchant |-> VisibleToMerchant(post[r].kind)]]
  /\ Advance(r)
  /\ UNCHANGED <<database, storage, promised, post, role, path, outcome, listed,
                 changes>>

\* ... and saved a second time with the name it has in the storage
RenameRow(r) ==
  /\ pc[r] = "rename"
  /\ txn' = [txn EXCEPT ![r].row.path = path[r]]
  /\ Advance(r)
  /\ UNCHANGED <<database, storage, promised, post, role, path, outcome, listed,
                 changes>>

\* The document_uploaded event.  The rescoring that follows raises nothing here
\* (ReturnCaseWorkflow has it).
LogUpload(r) ==
  /\ pc[r] = "log"
  /\ txn' = [txn EXCEPT ![r].events = @ \cup {Event("document_uploaded", r)}]
  /\ Advance(r)
  /\ UNCHANGED <<database, storage, promised, post, role, path, outcome, listed,
                 changes>>

\* The merchant_response_submitted event
LogResponse(r) ==
  /\ pc[r] = "respond"
  /\ txn' = [txn EXCEPT ![r].events = @ \cup {Event("merchant_response_submitted", r)}]
  /\ Advance(r)
  /\ UNCHANGED <<database, storage, promised, post, role, path, outcome, listed,
                 changes>>

Commit(r) ==
  /\ pc[r] = "commit"
  /\ rows' = rows \cup ({txn[r].row} \ {None})
  /\ events' = events \cup txn[r].events
  /\ txn' = [txn EXCEPT ![r] = EmptyTxn]
  /\ Advance(r)
  /\ UNCHANGED <<groups, storage, promised, post, role, path, outcome, listed,
                 changes>>

\* The answer: the page's fragments, the portal's page after the redirect, or the
\* serialized document
Reply(r) ==
  /\ pc[r] = "reply"
  /\ outcome' = [outcome EXCEPT ![r] = "ok"]
  /\ listed' = [listed EXCEPT ![r] = IF post[r].way = "api" THEN {r}
                                     ELSE Shown(post[r].way, post[r].user)]
  /\ pc' = [pc EXCEPT ![r] = "done"]
  /\ UNCHANGED <<database, storage, promised, post, role, path, txn, changes>>

\* A statement or the storage fails
Fail(r) ==
  /\ pc[r] \in InTransaction
  /\ End(r, "error")

\* The upload is committed, and a query of the answer or its rendering fails: what is
\* stored stays, and the client is told of an error
FailReply(r) ==
  /\ pc[r] = "reply"
  /\ End(r, "error")

\* The worker dies, also after the commit: no answer is sent
Crash(r) ==
  /\ pc[r] \in InTransaction \cup {"reply"}
  /\ End(r, "lost")

Step(r) ==
  \/ \E page \in Page, p \in Post : ShowForm(r, page, p)
  \/ Receive(r) \/ RefuseRequest(r) \/ Judge(r) \/ RefuseRole(r)
  \/ FullClean(r) \/ RejectDocument(r) \/ CreateFile(r) \/ WriteFile(r)
  \/ InsertRow(r) \/ RenameRow(r) \/ LogUpload(r) \/ LogResponse(r)
  \/ Commit(r) \/ Reply(r) \/ Fail(r) \/ FailReply(r) \/ Crash(r)

Next ==
  \/ \E u \in User, g \in Membership : ChangeGroups(u, g)
  \/ \E r \in Upload : Step(r)

Spec == Init /\ [][Next]_vars

--------------------------------------------------------------------------------
(* Properties *)

\* Every variable has its type; above all, every row is written under a role.
TypeOK ==
  /\ groups \in [User -> Membership]
  /\ rows \subseteq DocumentRow /\ events \subseteq UploadEvent
  /\ storage \in [Name -> File \cup {None}]
  /\ pc \in [Upload -> {"idle", "send", "reply", "done"} \cup InTransaction]
  /\ promised \in [Upload -> BOOLEAN]
  /\ post \in [Upload -> Post \cup {None}]
  /\ role \in [Upload -> Role \cup {None}]
  /\ path \in [Upload -> Name \cup {None}]
  /\ txn \in [Upload -> [row : DocumentRow \cup {None}, events : SUBSET UploadEvent]]
  /\ outcome \in [Upload -> Outcome \cup {None}]
  /\ listed \in [Upload -> SUBSET Upload]
  /\ changes \in 0..MaxChanges

\* Every committed document names a file that is in the storage, whole and with the
\* content its checksum was taken from, and no two documents share a file:
\* however uploads interleave, fail and crash between the two writes.
RowHasItsFile ==
  /\ \A d \in rows : /\ d.path \in Name
                     /\ storage[d.path] = [content |-> d.digest, whole |-> TRUE]
  /\ \A d, e \in rows : d.path = e.path => d = e

\* An upload that is refused, for the account, the form, or the document itself,
\* leaves nothing: no file, no row, no event.  Only a failure leaves a file.
RefusedLeavesNothing ==
  \A r \in Upload :
    outcome[r] \in {"invalid", "forbidden", "not_found", "rejected"} =>
      /\ \A n \in Name : storage[n] # None => storage[n].content # r
      /\ \A d \in rows : d.upload # r
      /\ \A e \in events : e.upload # r

\* The row, the document_uploaded event and the response event of the merchant
\* portal are there together or not at all, after every failure, and an answer of
\* success means that they are.  An error says neither: it may come after the commit,
\* where the upload is stored and stays whole.
UploadIsWhole ==
  \A r \in Upload :
    LET stored == \E d \in rows : d.upload = r
        logged == Event("document_uploaded", r) \in events
        responded == Event("merchant_response_submitted", r) \in events
    IN  /\ stored <=> logged
        /\ responded \/ outcome[r] = "ok" => (stored <=> post[r].file # "none")
        /\ stored \/ outcome[r] = "ok" => (responded <=> post[r].way = "merchant")

\* A form keeps its word: who sends what it offered, with a good file and a short
\* note, and is in the same groups throughout, not customer and merchant at once,
\* gets it stored, unless something fails, and sees it in the answer.
OfferIsKept ==
  \A r \in Upload :
    pc[r] = "done" /\ promised[r] /\ outcome[r] \notin {"error", "lost"} =>
      outcome[r] = "ok" /\ r \in listed[r]

\* What the page refuses for the form or the document is answered with 400
\* (docs/ui/evidence-states.md, validation and workflow-error state).
RefusalsAre400 ==
  \A r \in Upload :
    outcome[r] \in {"invalid", "rejected"} /\ post[r].way = "page" =>
      StatusCode(outcome[r]) = 400
================================================================================

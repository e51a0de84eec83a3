-------------------------- MODULE EvidenceUploadProofs --------------------------
(***************************************************************************)
(* Theorems about EvidenceUpload.                                            *)
(***************************************************************************)
EXTENDS EvidenceUpload, TLAPS

\* The order of the steps, one by one.
LEMMA Steps ==
  ASSUME NEW r \in Upload
  PROVE  /\ pc[r] = "judge"   => After(r) = "clean"
         /\ pc[r] = "clean"   => After(r) = "create"
         /\ pc[r] = "create"  => After(r) = "write"
         /\ pc[r] = "write"   => After(r) = "insert"
         /\ pc[r] = "insert"  => After(r) = "rename"
         /\ pc[r] = "rename"  => After(r) = "log"
         /\ pc[r] = "log"     =>
              After(r) = IF post[r].way = "merchant" THEN "respond" ELSE "commit"
         /\ pc[r] = "respond" => After(r) = "commit"
         /\ pc[r] = "commit"  => After(r) = "reply"
  BY DEF After, Order

--------------------------------------------------------------------------------
(* The invariant *)

\* The file of upload u is at n, whole.
Whole(n, u) == n \in Name /\ storage[n] = [content |-> u, whole |-> TRUE]

\* Upload r has no file; it has no row and no event.
NoFile(r) == \A n \in Name : storage[n] # None => storage[n].content # r
Untold(r) == /\ \A d \in rows : d.upload # r
             /\ \A e \in events : e.upload # r

\* Rows and events of r are those of an upload that happened.
Told(r) ==
  /\ (\E d \in rows : d.upload = r) <=> post[r].file # "none"
  /\ Event("document_uploaded", r) \in events <=> post[r].file # "none"
  /\ Event("merchant_response_submitted", r) \in events <=> post[r].way = "merchant"

Refused == {"invalid", "forbidden", "not_found", "rejected"}

\* What a request holds at each step.
RequestInv(r) ==
  /\ pc[r] # "idle" => post[r] \in Post
  /\ pc[r] \in {"judge", "clean", "create", "write", "insert", "rename", "log"} =>
       post[r].file # "none"
  /\ pc[r] \in {"clean", "create", "write", "insert"} => role[r] \in Role
  /\ outcome[r] = None <=> pc[r] # "done"

\* How far its file is.
FileInv(r) ==
  /\ pc[r] \in {"idle", "send", "judge", "clean", "create"} => NoFile(r)
  /\ pc[r] = "write" => /\ path[r] \in Name
                        /\ storage[path[r]] # None
                        /\ storage[path[r]].content = r
  /\ pc[r] \in {"insert", "rename"} => Whole(path[r], r)
  /\ outcome[r] \in Refused => NoFile(r)

\* What its transaction has written.
TxnInv(r) ==
  /\ pc[r] \notin {"rename", "log", "respond", "commit"} => txn[r] = EmptyTxn
  /\ pc[r] \in {"rename", "log"} => txn[r].row # None /\ txn[r].events = {}
  /\ txn[r].row # None => txn[r].row.upload = r /\ txn[r].row.digest = r
  /\ pc[r] \in {"log", "respond", "commit"} /\ txn[r].row # None =>
       Whole(txn[r].row.path, r)
  /\ pc[r] \in {"respond", "commit"} => (txn[r].row # None <=> post[r].file # "none")
  /\ pc[r] = "respond" =>
       /\ post[r].way = "merchant"
       /\ Event("merchant_response_submitted", r) \notin txn[r].events
  /\ pc[r] \in {"respond", "commit"} =>
       /\ \A e \in txn[r].events : e.upload = r
       /\ Event("document_uploaded", r) \in txn[r].events <=> post[r].file # "none"
  /\ pc[r] = "commit" =>
       (Event("merchant_response_submitted", r) \in txn[r].events
          <=> post[r].way = "merchant")

\* What is committed of it.
TableInv(r) ==
  /\ pc[r] \notin {"reply", "done"} => Untold(r)
  /\ pc[r] = "reply" \/ outcome[r] = "ok" => Told(r)
  /\ outcome[r] \in {"error", "lost"} => Told(r) \/ Untold(r)
  /\ outcome[r] \notin {None, "ok", "error", "lost"} => Untold(r)

\* Each committed row names a whole file of its own upload, and no upload has two.
RowsInv ==
  /\ \A d \in rows : d.digest = d.upload /\ Whole(d.path, d.upload)
  /\ \A d, e \in rows : d.upload = e.upload => d = e

UploadInv ==
  /\ TypeOK
  /\ \A r \in Upload : RequestInv(r) /\ FileInv(r) /\ TxnInv(r) /\ TableInv(r)
  /\ RowsInv

--------------------------------------------------------------------------------
(* The invariant implies the properties *)

LEMMA InvImpliesProperties ==
  UploadInv => RowHasItsFile /\ RefusedLeavesNothing /\ UploadIsWhole
<1> SUFFICES ASSUME UploadInv
             PROVE  RowHasItsFile /\ RefusedLeavesNothing /\ UploadIsWhole
  OBVIOUS
<1>1. RowHasItsFile
  <2>1. \A d \in rows : d.path \in Name
                        /\ storage[d.path] = [content |-> d.digest, whole |-> TRUE]
    BY DEF UploadInv, RowsInv, Whole
  <2>2. ASSUME NEW d \in rows, NEW e \in rows, d.path = e.path
        PROVE  d = e
    <3>1. d.upload = e.upload
      <4>1. /\ storage[d.path] = [content |-> d.upload, whole |-> TRUE]
            /\ storage[d.path] = [content |-> e.upload, whole |-> TRUE]
        BY <2>2 DEF UploadInv, RowsInv, Whole
      <4> QED
        BY <4>1
    <3> QED
      BY <3>1 DEF UploadInv, RowsInv
  <2> QED
    BY <2>1, <2>2 DEF RowHasItsFile
<1>2. RefusedLeavesNothing
  <2> SUFFICES ASSUME NEW r \in Upload, outcome[r] \in Refused
               PROVE  NoFile(r) /\ Untold(r)
    BY DEF RefusedLeavesNothing, Refused, NoFile, Untold
  <2>1. outcome[r] \notin {None, "ok", "error", "lost"}
    BY UploadAssumption DEF Refused, Outcome
  <2> QED
    BY <2>1 DEF UploadInv, FileInv, TableInv
<1>3. UploadIsWhole
  <2> SUFFICES ASSUME NEW r \in Upload
               PROVE  UploadIsWhole!(r)!1
    BY DEF UploadIsWhole
  <2>1. RequestInv(r) /\ TableInv(r)
    BY DEF UploadInv
  <2>2. Event("document_uploaded", r).upload = r
        /\ Event("merchant_response_submitted", r).upload = r
    BY DEF Event
  <2>3. Told(r) \/ Untold(r)
    <3>1. CASE outcome[r] = None
      BY <2>1, <3>1 DEF RequestInv, TableInv
    <3>2. CASE outcome[r] # None
      BY <2>1, <3>2 DEF TableInv
    <3> QED
      BY <3>1, <3>2
  <2>4. outcome[r] = "ok" => Told(r)
    BY <2>1 DEF TableInv
  <2>6. CASE Told(r)
    BY <2>2, <2>6 DEF Told, Untold
  <2>7. CASE Untold(r)
    BY <2>2, <2>4, <2>7 DEF Told, Untold
  <2> QED
    BY <2>3, <2>6, <2>7
<1> QED
  BY <1>1, <1>2, <1>3

--------------------------------------------------------------------------------
(* What a step leaves alone *)

\* A step of r changes no other request ...
OthersRest(r) ==
  \A s \in Upload \ {r} :
    /\ pc'[s] = pc[s] /\ post'[s] = post[s] /\ role'[s] = role[s]
    /\ path'[s] = path[s] /\ txn'[s] = txn[s] /\ outcome'[s] = outcome[s]

\* ... writes no file but its own, none that is whole ...
FilesRest(r) ==
  \A n \in Name :
    \/ storage'[n] = storage[n]
    \/ /\ storage[n] # None => storage[n].content = r
       /\ storage'[n] # None /\ storage'[n].content = r
       /\ \A u \in Upload : storage[n] # [content |-> u, whole |-> TRUE]

\* ... and adds rows and events of its own.
TablesGrow(r) ==
  /\ rows \subseteq rows' /\ \A d \in rows' \ rows : d.upload = r
  /\ events \subseteq events' /\ \A e \in events' \ events : e.upload = r

Frame(r) == OthersRest(r) /\ FilesRest(r) /\ TablesGrow(r)

LEMMA StepFrames ==
  ASSUME NEW r \in Upload, TypeOK, RequestInv(r), FileInv(r), TxnInv(r), Step(r)
  PROVE  Frame(r)
<1> USE DEF Frame, OthersRest, FilesRest, TablesGrow, TypeOK, database
<1>1. ASSUME NEW page \in Page, NEW p \in Post, ShowForm(r, page, p)
      PROVE  Frame(r)
  BY <1>1 DEF ShowForm
<1>2. ASSUME NEW o, End(r, o)
      PROVE  Frame(r)
  BY <1>2 DEF End
<1>3. CASE Receive(r) \/ Judge(r) \/ FullClean(r)
  BY <1>3 DEF Receive, Judge, FullClean, Advance
<1>4. CASE CreateFile(r)
  <2> PICK n \in Name : /\ storage[n] = None
                        /\ storage' = [storage EXCEPT ![n] = [content |-> r, whole |-> FALSE]]
    BY <1>4 DEF CreateFile
  <2>1. /\ storage'[n] = [content |-> r, whole |-> FALSE]
        /\ \A m \in Name \ {n} : storage'[m] = storage[m]
    OBVIOUS
  <2>2. storage'[n] \in File /\ storage'[n].content = r
    BY <2>1 DEF File
  <2>3. \A u \in Upload : storage[n] # [content |-> u, whole |-> TRUE]
    <3> SUFFICES ASSUME NEW u \in Upload, storage[n] = [content |-> u, whole |-> TRUE]
                 PROVE  FALSE
      OBVIOUS
    <3> QED
      BY UploadAssumption DEF File
  <2>4. FilesRest(r)
    BY <2>1, <2>2, <2>3, UploadAssumption
  <2> QED
    BY <1>4, <2>4 DEF CreateFile, Advance
<1>5. CASE WriteFile(r)
  <2>1. /\ path[r] \in Name
        /\ storage[path[r]] \in File /\ storage[path[r]].content = r
    BY <1>5, UploadAssumption DEF WriteFile, FileInv
  <2>2. storage' = [storage EXCEPT ![path[r]] = [@ EXCEPT !.whole = TRUE]]
    BY <1>5 DEF WriteFile
  <2>3. storage'[path[r]] = [content |-> r, whole |-> TRUE]
    BY <2>1, <2>2 DEF File
  <2>4. \A n \in Name \ {path[r]} : storage'[n] = storage[n]
    BY <2>2
  <2>5. \A u \in Upload : storage[path[r]] = [content |-> u, whole |-> TRUE]
                          => storage'[path[r]] = storage[path[r]]
    BY <2>1, <2>3
  <2>6. storage'[path[r]] # None /\ storage'[path[r]].content = r
    <3>1. [content |-> r, whole |-> TRUE] \in File
      BY DEF File
    <3>2. [content |-> r, whole |-> TRUE] # None
      BY <3>1, UploadAssumption
    <3>3. storage'[path[r]] # None
      BY <2>3, <3>2
    <3>4. storage'[path[r]].content = r
      BY <2>3
    <3> QED
      BY <3>3, <3>4
  <2>7. FilesRest(r)
    <3> SUFFICES ASSUME NEW n \in Name PROVE FilesRest(r)!(n)
      OBVIOUS
    <3>1. CASE n = path[r]
      BY <2>1, <2>5, <2>6, <3>1
    <3>2. CASE n # path[r]
      BY <2>4, <3>2
    <3> QED
      BY <3>1, <3>2
  <2> QED
    BY <1>5, <2>7 DEF WriteFile, Advance
<1>6. CASE InsertRow(r) \/ RenameRow(r) \/ LogUpload(r) \/ LogResponse(r)
  BY <1>6 DEF InsertRow, RenameRow, LogUpload, LogResponse, Advance
<1>7. CASE Commit(r)
  BY <1>7 DEF Commit, Advance, TxnInv
<1>8. CASE Reply(r)
  BY <1>8 DEF Reply
<1> QED
  BY <1>1, <1>2, <1>3, <1>4, <1>5, <1>6, <1>7, <1>8
  DEF Step, RefuseRequest, RefuseRole, RejectDocument, Fail, FailReply, Crash

\* A whole file stays whole.
LEMMA WholeStays ==
  ASSUME NEW r \in Upload, Frame(r), NEW n, NEW u \in Upload, Whole(n, u)
  PROVE  Whole(n, u)'
BY DEF Frame, FilesRest, Whole

\* What holds of another request holds of it after the step.
LEMMA OthersKeep ==
  ASSUME NEW r \in Upload, NEW s \in Upload, r # s, Frame(r), TypeOK,
         RequestInv(s), FileInv(s), TxnInv(s), TableInv(s)
  PROVE  RequestInv(s)' /\ FileInv(s)' /\ TxnInv(s)' /\ TableInv(s)'
<1>1. /\ pc'[s] = pc[s] /\ post'[s] = post[s] /\ role'[s] = role[s]
      /\ path'[s] = path[s] /\ txn'[s] = txn[s] /\ outcome'[s] = outcome[s]
  BY DEF Frame, OthersRest
<1>2. RequestInv(s)'
  BY <1>1 DEF RequestInv
<1>3. NoFile(s) => NoFile(s)'
  BY DEF Frame, FilesRest, NoFile
<1>4. \A n \in Name : storage[n] # None /\ storage[n].content = s => storage'[n] = storage[n]
  BY DEF Frame, FilesRest
<1>5. \A n : Whole(n, s) => Whole(n, s)'
  BY WholeStays
<1>6. FileInv(s)'
  BY <1>1, <1>3, <1>4, <1>5 DEF FileInv
<1>7. TxnInv(s)'
  BY <1>1, <1>5 DEF TxnInv
<1>8. Untold(s) => Untold(s)'
  BY DEF Frame, TablesGrow, Untold
<1>9. Told(s) => Told(s)'
  <2>1. /\ Event("document_uploaded", s).upload = s
        /\ Event("merchant_response_submitted", s).upload = s
    BY DEF Event
  <2>2. (\E d \in rows' : d.upload = s) <=> \E d \in rows : d.upload = s
    BY DEF Frame, TablesGrow
  <2>3. /\ Event("document_uploaded", s) \in events'
             <=> Event("document_uploaded", s) \in events
        /\ Event("merchant_response_submitted", s) \in events'
             <=> Event("merchant_response_submitted", s) \in events
    BY <2>1 DEF Frame, TablesGrow
  <2> QED
    BY <1>1, <2>2, <2>3 DEF Told, Event
<1>10. TableInv(s)'
  BY <1>1, <1>8, <1>9 DEF TableInv
<1> QED
  BY <1>2, <1>6, <1>7, <1>10

--------------------------------------------------------------------------------
(* Types *)

LEMMA EventType ==
  ASSUME NEW r \in Upload
  PROVE  /\ Event("document_uploaded", r) \in UploadEvent
         /\ Event("merchant_response_submitted", r) \in UploadEvent
BY DEF Event, UploadEvent

LEMMA EmptyTxnType ==
  /\ EmptyTxn \in [row : DocumentRow \cup {None}, events : SUBSET UploadEvent]
  /\ EmptyTxn.row = None /\ EmptyTxn.events = {}
BY DEF EmptyTxn

\* A role or a page without one
LEMMA RoleType ==
  ASSUME NEW u
  PROVE  RoleOf(u) \in Role \cup {None} /\ WorkspaceRole(u) \in Role \cup {None}
BY DEF RoleOf, WorkspaceRole, Role, Staff

LEMMA RefusalType ==
  ASSUME NEW p \in Posted
  PROVE  Refusal(p) \in {"forbidden", "not_found", "invalid", None}
BY DEF Refusal

LEMMA TypeStep ==
  ASSUME NEW r \in Upload, TypeOK, Step(r),
         RequestInv(r), FileInv(r), TxnInv(r)
  PROVE  TypeOK'
<1> USE DEF TypeOK, database
<1> DEFINE Pc == {"idle", "send", "reply", "done"} \cup InTransaction
           Txn == [row : DocumentRow \cup {None}, events : SUBSET UploadEvent]
<1>0. /\ post[r] \in Posted \/ pc[r] = "idle"
      /\ txn[r] \in Txn
  BY UploadAssumption DEF RequestInv
<1>a. pc[r] \in InTransaction => After(r) \in Pc
  BY Steps DEF InTransaction
<1>1. ASSUME NEW page \in Page, NEW p \in Post, ShowForm(r, page, p)
      PROVE  TypeOK'
  <2>1. Promises(page, p) \in BOOLEAN
    BY DEF Promises
  <2> QED
    BY <1>1, <2>1 DEF ShowForm
<1>2. ASSUME NEW o \in Outcome, End(r, o)
      PROVE  TypeOK'
  BY <1>2, EmptyTxnType DEF End
<1>3. CASE Receive(r)
  BY <1>3 DEF Receive, InTransaction
<1>4. CASE RefuseRequest(r)
  BY <1>0, <1>2, <1>4, RefusalType DEF RefuseRequest, Outcome
<1>5. CASE Judge(r)
  BY <1>5, <1>a, RoleType DEF Judge, Advance, InTransaction
<1>6. CASE FullClean(r)
  BY <1>6, <1>a DEF FullClean, Advance, InTransaction
<1>7. CASE CreateFile(r)
  <2> PICK n \in Name :
        /\ storage' = [storage EXCEPT ![n] = [content |-> r, whole |-> FALSE]]
        /\ path' = [path EXCEPT ![r] = n]
    BY <1>7 DEF CreateFile
  <2>1. [content |-> r, whole |-> FALSE] \in File
    BY DEF File
  <2>2. storage' \in [Name -> File \cup {None}] /\ path' \in [Upload -> Name \cup {None}]
    BY <2>1
  <2> QED
    BY <1>7, <1>a, <2>2 DEF CreateFile, Advance, InTransaction
<1>8. CASE WriteFile(r)
  <2>1. storage[path[r]] \in File
    BY <1>8 DEF WriteFile, FileInv
  <2>2. [storage[path[r]] EXCEPT !.whole = TRUE] \in File
    BY <2>1 DEF File
  <2>3. storage' = [storage EXCEPT ![path[r]] = [@ EXCEPT !.whole = TRUE]]
    BY <1>8 DEF WriteFile
  <2>4. storage' \in [Name -> File \cup {None}]
    BY <2>2, <2>3
  <2> QED
    BY <1>8, <1>a, <2>4 DEF WriteFile, Advance, InTransaction
<1>9. CASE InsertRow(r)
  <2> DEFINE row == [upload |-> r, path |-> Original, digest |-> r, role |-> role[r],
                     kind |-> post[r].kind,
                     toCustomer |-> VisibleToCustomer(post[r].kind),
                     toMerchant |-> VisibleToMerchant(post[r].kind)]
  <2>1. role[r] \in Role /\ post[r].kind \in DocumentKind
    BY <1>0, <1>9 DEF InsertRow, RequestInv, Posted
  <2>2. VisibleToCustomer(post[r].kind) \in BOOLEAN
        /\ VisibleToMerchant(post[r].kind) \in BOOLEAN
    BY DEF VisibleToCustomer, VisibleToMerchant
  <2>3. row \in DocumentRow
    BY <2>1, <2>2 DEF DocumentRow
  <2> HIDE DEF row
  <2>4. [txn[r] EXCEPT !.row = row] \in Txn
    BY <1>0, <2>3
  <2>5. txn' = [txn EXCEPT ![r] = [@ EXCEPT !.row = row]]
    BY <1>9 DEF InsertRow, row
  <2>6. txn' \in [Upload -> Txn]
    BY <2>4, <2>5
  <2> QED
    BY <1>9, <1>a, <2>6 DEF InsertRow, Advance, InTransaction
<1>10. CASE RenameRow(r)
  <2>1. txn[r].row \in DocumentRow /\ path[r] \in Name
    BY <1>0, <1>10 DEF RenameRow, TxnInv, FileInv, Whole
  <2>2. [txn[r].row EXCEPT !.path = path[r]] \in DocumentRow
    BY <2>1 DEF DocumentRow
  <2>3. [txn[r] EXCEPT !.row = [txn[r].row EXCEPT !.path = path[r]]] \in Txn
    BY <1>0, <2>2
  <2>4. txn' = [txn EXCEPT ![r] =
                          [txn[r] EXCEPT !.row = [txn[r].row EXCEPT !.path = path[r]]]]
    BY <1>10 DEF RenameRow
  <2>5. txn' \in [Upload -> Txn]
    BY <2>3, <2>4
  <2> QED
    BY <1>10, <1>a, <2>5 DEF RenameRow, Advance, InTransaction
<1>11. ASSUME NEW e \in UploadEvent,
              txn' = [txn EXCEPT ![r].events = @ \cup {e}]
       PROVE  txn' \in [Upload -> Txn]
  <2>1. [txn[r] EXCEPT !.events = txn[r].events \cup {e}] \in Txn
    BY <1>0
  <2>2. txn' = [txn EXCEPT ![r] = [txn[r] EXCEPT !.events = txn[r].events \cup {e}]]
    BY <1>11
  <2> QED
    BY <2>1, <2>2
<1>12. CASE LogUpload(r)
  <2>1. txn' \in [Upload -> Txn]
    BY <1>11, <1>12, EventType DEF LogUpload
  <2> QED
    BY <1>12, <1>a, <2>1 DEF LogUpload, Advance, InTransaction
<1>13. CASE LogResponse(r)
  <2>1. txn' \in [Upload -> Txn]
    BY <1>11, <1>13, EventType DEF LogResponse
  <2> QED
    BY <1>13, <1>a, <2>1 DEF LogResponse, Advance, InTransaction
<1>14. CASE Commit(r)
  BY <1>0, <1>14, <1>a, EmptyTxnType DEF Commit, Advance, InTransaction
<1>15. CASE Reply(r)
  <2>1. Shown(post[r].way, post[r].user) \subseteq Upload
    BY DEF Shown, ListedFor, PortalDocuments, Stored, DocumentRow
  <2> QED
    BY <1>15, <2>1 DEF Reply, Outcome
<1> QED
  BY <1>1, <1>2, <1>3, <1>4, <1>5, <1>6, <1>7, <1>8, <1>9, <1>10, <1>12, <1>13, <1>14,
     <1>15
  DEF Step, RefuseRole, RejectDocument, Fail, FailReply, Crash, Outcome

--------------------------------------------------------------------------------
(* The steps of a request keep what holds of it *)

Own(r) == RequestInv(r) /\ FileInv(r) /\ TxnInv(r) /\ TableInv(r)

LEMMA NoneIsNoOutcome ==
  None \notin Refused /\ None # "ok" /\ None # "error" /\ None # "lost"
BY UploadAssumption DEF Outcome, Refused

\* Before its commit a request has written nothing to the tables.
LEMMA EndKeeps ==
  ASSUME NEW r \in Upload, TypeOK, Own(r), pc[r] # "idle",
         NEW o \in Outcome \ {"ok"}, End(r, o),
         o \in Refused => NoFile(r),
         o \notin {"error", "lost"} => pc[r] # "reply" /\ pc[r] # "done",
         pc[r] # "done"
  PROVE  Own(r)'
<1> USE DEF Own, TypeOK, database
<1>1. /\ pc'[r] = "done" /\ outcome'[r] = o /\ txn'[r] = EmptyTxn
      /\ post'[r] = post[r] /\ rows' = rows /\ events' = events /\ storage' = storage
  BY DEF End
<1>2. o # None /\ o # "ok"
  BY UploadAssumption
<1>3. RequestInv(r)'
  BY <1>1, <1>2 DEF RequestInv
<1>4. FileInv(r)'
  BY <1>1 DEF FileInv, NoFile
<1>5. TxnInv(r)'
  BY <1>1, EmptyTxnType DEF TxnInv
<1>6. Told(r) \/ Untold(r)
  BY DEF TableInv
<1>7. o \notin {"error", "lost"} => Untold(r)
  BY DEF TableInv
<1>8. (Told(r) => Told(r)') /\ (Untold(r) => Untold(r)')
  BY <1>1 DEF Told, Untold, Event
<1>9. TableInv(r)'
  BY <1>1, <1>2, <1>6, <1>7, <1>8 DEF TableInv
<1> QED
  BY <1>3, <1>4, <1>5, <1>9

LEMMA FormKeeps ==
  ASSUME NEW r \in Upload, TypeOK, Own(r), NEW page \in Page, NEW p \in Post,
         ShowForm(r, page, p)
  PROVE  Own(r)'
<1>1. /\ pc[r] = "idle" /\ pc'[r] = "send" /\ post'[r] = p
      /\ UNCHANGED <<rows, events, storage, role, path, txn, outcome>>
  BY DEF ShowForm, TypeOK, database
<1>2. RequestInv(r)'
  BY <1>1 DEF Own, RequestInv
<1>3. FileInv(r)' /\ TableInv(r)'
  BY <1>1, NoneIsNoOutcome DEF Own, RequestInv, FileInv, TableInv, NoFile, Untold
<1>4. TxnInv(r)'
  BY <1>1, EmptyTxnType DEF Own, TxnInv
<1> QED
  BY <1>2, <1>3, <1>4 DEF Own

\* A view that calls the service without a file has found a response in the notes.
LEMMA NotesAreResponses ==
  ASSUME NEW p \in Posted, Refusal(p) = None, p.file = "none"
  PROVE  p.way = "merchant"
<1>1. "forbidden" # None /\ "not_found" # None /\ "invalid" # None
  BY UploadAssumption DEF Outcome
<1>2. Valid(p)
  BY <1>1 DEF Refusal
<1>3. p.way \in Way
  BY DEF Posted
<1> QED
  BY <1>2, <1>3 DEF Valid, ValidUpload, ValidSerializer, Attached, Way

LEMMA ReceiveKeeps ==
  ASSUME NEW r \in Upload, TypeOK, Own(r), Receive(r)
  PROVE  Own(r)'
<1>1. /\ pc[r] = "send" /\ Refusal(post[r]) = None
      /\ pc'[r] = IF post[r].file = "none" THEN "respond" ELSE "judge"
      /\ UNCHANGED <<rows, events, storage, post, role, path, txn, outcome>>
  BY DEF Receive, TypeOK, database
<1>2. post[r] \in Posted
  BY <1>1, UploadAssumption DEF Own, RequestInv
<1>3. post[r].file = "none" => post[r].way = "merchant"
  BY <1>1, <1>2, NotesAreResponses
<1>4. RequestInv(r)'
  BY <1>1 DEF Own, RequestInv
<1>5. FileInv(r)' /\ TableInv(r)'
  BY <1>1, NoneIsNoOutcome DEF Own, RequestInv, FileInv, TableInv, NoFile, Untold
<1>6. TxnInv(r)'
  BY <1>1, <1>3, EmptyTxnType DEF Own, TxnInv
<1> QED
  BY <1>4, <1>5, <1>6 DEF Own

\* Within the transaction nothing is committed.
LEMMA InTransactionUntold ==
  ASSUME NEW r \in Upload, Own(r), pc[r] \in InTransaction, pc'[r] \in InTransaction,
         rows' = rows, events' = events, outcome'[r] = outcome[r]
  PROVE  TableInv(r)' /\ outcome'[r] = None
BY NoneIsNoOutcome DEF Own, RequestInv, TableInv, Untold, InTransaction

LEMMA CheckKeeps ==
  ASSUME NEW r \in Upload, TypeOK, Own(r), Judge(r) \/ FullClean(r)
  PROVE  Own(r)'
<1>1. /\ \/ pc[r] = "judge" /\ pc'[r] = "clean"
         \/ pc[r] = "clean" /\ pc'[r] = "create"
      /\ UNCHANGED <<rows, events, storage, post, path, txn, outcome>>
  BY Steps DEF Judge, FullClean, Advance, TypeOK, database
<1>2. role'[r] \in Role
  <2>1. CASE Judge(r)
    <3>1. UploadAllowed(post[r].user, post[r].kind) /\ role'[r] = RoleOf(post[r].user)
      BY <2>1 DEF Judge, TypeOK
    <3>2. RoleOf(post[r].user) \in {"admin", "ops", "customer", "merchant"}
      BY <3>1 DEF UploadAllowed, Staff
    <3> QED
      BY <3>1, <3>2 DEF Role
  <2>2. CASE FullClean(r)
    BY <2>2 DEF FullClean, Own, RequestInv
  <2> QED
    BY <2>1, <2>2
<1>3. TableInv(r)'
  BY <1>1, InTransactionUntold DEF InTransaction
<1>4. RequestInv(r)'
  BY <1>1, <1>2 DEF Own, RequestInv
<1>5. FileInv(r)'
  BY <1>1 DEF Own, FileInv, NoFile
<1>6. TxnInv(r)'
  BY <1>1, EmptyTxnType DEF Own, TxnInv
<1> QED
  BY <1>3, <1>4, <1>5, <1>6 DEF Own

LEMMA CreateKeeps ==
  ASSUME NEW r \in Upload, TypeOK, Own(r), CreateFile(r)
  PROVE  Own(r)'
<1>1. PICK n \in Name :
        /\ storage' = [storage EXCEPT ![n] = [content |-> r, whole |-> FALSE]]
        /\ path' = [path EXCEPT ![r] = n]
  BY DEF CreateFile
<1>2. /\ pc[r] = "create" /\ pc'[r] = "write"
      /\ UNCHANGED <<rows, events, post, role, txn, outcome>>
  BY Steps DEF CreateFile, Advance, TypeOK, database
<1>3. path'[r] = n /\ storage'[n] = [content |-> r, whole |-> FALSE]
  BY <1>1 DEF TypeOK
<1>4. storage'[n] # None /\ storage'[n].content = r
  <2>1. [content |-> r, whole |-> FALSE] \in File
    BY DEF File
  <2>2. [content |-> r, whole |-> FALSE] # None
    BY <2>1, UploadAssumption
  <2> QED
    BY <1>3, <2>2
<1>5. TableInv(r)' /\ outcome'[r] = None
  BY <1>2, InTransactionUntold DEF InTransaction
<1>6. RequestInv(r)'
  BY <1>2 DEF Own, RequestInv
<1>7. FileInv(r)'
  BY <1>2, <1>3, <1>4, <1>5, NoneIsNoOutcome DEF FileInv
<1>8. TxnInv(r)'
  BY <1>2, EmptyTxnType DEF Own, TxnInv
<1> QED
  BY <1>5, <1>6, <1>7, <1>8 DEF Own

LEMMA WriteKeeps ==
  ASSUME NEW r \in Upload, TypeOK, Own(r), WriteFile(r)
  PROVE  Own(r)'
<1>1. /\ pc[r] = "write" /\ pc'[r] = "insert"
      /\ UNCHANGED <<rows, events, post, role, path, txn, outcome>>
  BY Steps DEF WriteFile, Advance, TypeOK, database
<1>2. path[r] \in Name /\ storage[path[r]] \in File /\ storage[path[r]].content = r
  BY <1>1 DEF Own, FileInv, TypeOK
<1>3. storage' = [storage EXCEPT ![path[r]] = [storage[path[r]] EXCEPT !.whole = TRUE]]
  BY DEF WriteFile
<1>4. storage'[path[r]] = [content |-> r, whole |-> TRUE]
  BY <1>2, <1>3 DEF File, TypeOK
<1>5. TableInv(r)' /\ outcome'[r] = None
  BY <1>1, InTransactionUntold DEF InTransaction
<1>6. RequestInv(r)'
  BY <1>1 DEF Own, RequestInv
<1>7. FileInv(r)'
  BY <1>1, <1>2, <1>4, <1>5, NoneIsNoOutcome DEF FileInv, Whole
<1>8. TxnInv(r)'
  BY <1>1, EmptyTxnType DEF Own, TxnInv
<1> QED
  BY <1>5, <1>6, <1>7, <1>8 DEF Own

LEMMA InsertKeeps ==
  ASSUME NEW r \in Upload, TypeOK, TypeOK', Own(r), InsertRow(r)
  PROVE  Own(r)'
<1>1. /\ pc[r] = "insert" /\ pc'[r] = "rename"
      /\ UNCHANGED <<rows, events, storage, post, role, path, outcome>>
  BY Steps DEF InsertRow, Advance, TypeOK, database
<1> DEFINE row == [upload |-> r, path |-> Original, digest |-> r, role |-> role[r],
                   kind |-> post[r].kind,
                   toCustomer |-> VisibleToCustomer(post[r].kind),
                   toMerchant |-> VisibleToMerchant(post[r].kind)]
<1>2. row.upload = r /\ row.digest = r
  OBVIOUS
<1>3. row \in DocumentRow
  <2>1. role[r] \in Role /\ post[r].kind \in DocumentKind
    BY <1>1, UploadAssumption DEF Own, RequestInv, Posted
  <2>2. VisibleToCustomer(post[r].kind) \in BOOLEAN
        /\ VisibleToMerchant(post[r].kind) \in BOOLEAN
    BY DEF VisibleToCustomer, VisibleToMerchant
  <2> QED
    BY <2>1, <2>2 DEF DocumentRow
<1> HIDE DEF row
<1>4. txn' = [txn EXCEPT ![r] = [txn[r] EXCEPT !.row = row]]
  BY DEF InsertRow, row
<1>5. txn[r] = EmptyTxn /\ r \in DOMAIN txn
  BY <1>1 DEF Own, TxnInv, TypeOK
<1>6. txn'[r].row = row /\ txn'[r].events = {}
  BY <1>4, <1>5 DEF EmptyTxn
<1>7. row # None
  BY <1>3, UploadAssumption
<1>8. TableInv(r)' /\ outcome'[r] = None
  BY <1>1, InTransactionUntold DEF InTransaction
<1>9. RequestInv(r)'
  BY <1>1 DEF Own, RequestInv
<1>10. FileInv(r)'
  BY <1>1, <1>8, NoneIsNoOutcome DEF Own, FileInv, Whole
<1>11. TxnInv(r)'
  BY <1>1, <1>2, <1>6, <1>7 DEF TxnInv
<1> QED
  BY <1>8, <1>9, <1>10, <1>11 DEF Own

LEMMA RenameKeeps ==
  ASSUME NEW r \in Upload, TypeOK, Own(r), RenameRow(r)
  PROVE  Own(r)'
<1>1. /\ pc[r] = "rename" /\ pc'[r] = "log"
      /\ UNCHANGED <<rows, events, storage, post, role, path, outcome>>
  BY Steps DEF RenameRow, Advance, TypeOK, database
<1>2. /\ txn[r].row # None /\ txn[r].events = {}
      /\ txn[r].row.upload = r /\ txn[r].row.digest = r
      /\ Whole(path[r], r)
  BY <1>1 DEF Own, TxnInv, FileInv
<1>3. /\ txn[r] \in [row : DocumentRow \cup {None}, events : SUBSET UploadEvent]
      /\ txn[r].row \in DocumentRow
  BY <1>2 DEF TypeOK
<1> DEFINE row == [txn[r].row EXCEPT !.path = path[r]]
<1>4. row \in DocumentRow /\ row.upload = r /\ row.digest = r /\ row.path = path[r]
  BY <1>2, <1>3 DEF DocumentRow, Whole
<1> HIDE DEF row
<1>5. txn' = [txn EXCEPT ![r] = [txn[r] EXCEPT !.row = row]]
  BY DEF RenameRow, row
<1>6. txn'[r].row = row /\ txn'[r].events = {}
  BY <1>2, <1>3, <1>5 DEF TypeOK
<1>7. row # None
  BY <1>4, UploadAssumption
<1>8. TableInv(r)' /\ outcome'[r] = None
  BY <1>1, InTransactionUntold DEF InTransaction
<1>9. RequestInv(r)'
  BY <1>1 DEF Own, RequestInv
<1>10. FileInv(r)'
  BY <1>1, <1>8, NoneIsNoOutcome DEF FileInv
<1>11. Whole(txn[r].row.path, r)'
  BY <1>1, <1>2, <1>4, <1>6 DEF Whole
<1>12. TxnInv(r)'
  BY <1>1, <1>4, <1>6, <1>7, <1>11 DEF TxnInv
<1> QED
  BY <1>8, <1>9, <1>10, <1>12 DEF Own

\* The two events of an upload differ.
LEMMA EventsDiffer ==
  ASSUME NEW r
  PROVE  /\ Event("document_uploaded", r) # Event("merchant_response_submitted", r)
         /\ Event("document_uploaded", r).upload = r
         /\ Event("merchant_response_submitted", r).upload = r
<1>1. /\ Event("document_uploaded", r).type = "document_uploaded"
      /\ Event("merchant_response_submitted", r).type = "merchant_response_submitted"
  BY DEF Event
<1> QED
  BY <1>1 DEF Event

LEMMA LogKeeps ==
  ASSUME NEW r \in Upload, TypeOK, Own(r), LogUpload(r) \/ LogResponse(r)
  PROVE  Own(r)'
<1>1. UNCHANGED <<rows, events, storage, post, role, path, outcome>>
  BY DEF LogUpload, LogResponse, database
<1>2. ASSUME NEW e, txn' = [txn EXCEPT ![r].events = @ \cup {e}]
      PROVE  txn'[r].row = txn[r].row /\ txn'[r].events = txn[r].events \cup {e}
  <2>1. txn' = [txn EXCEPT ![r] = [txn[r] EXCEPT !.events = txn[r].events \cup {e}]]
    BY <1>2
  <2>2. txn[r] \in [row : DocumentRow \cup {None}, events : SUBSET UploadEvent]
    BY DEF TypeOK
  <2> QED
    BY <2>1, <2>2 DEF TypeOK
<1>3. CASE LogUpload(r)
  <2>1. /\ pc[r] = "log"
        /\ pc'[r] = IF post[r].way = "merchant" THEN "respond" ELSE "commit"
    BY <1>3, Steps DEF LogUpload, Advance, TypeOK
  <2>2. /\ txn'[r].row = txn[r].row
        /\ txn'[r].events = txn[r].events \cup {Event("document_uploaded", r)}
    BY <1>2, <1>3 DEF LogUpload
  <2>3. txn[r].row # None /\ txn[r].events = {}
    BY <2>1 DEF Own, TxnInv
  <2>4. post[r].file # "none"
    BY <2>1 DEF Own, RequestInv
  <2>5. Whole(txn[r].row.path, r)'
    BY <1>1, <2>1, <2>2, <2>3 DEF Own, TxnInv, Whole
  <2>6. TableInv(r)' /\ outcome'[r] = None
    BY <1>1, <2>1, InTransactionUntold DEF InTransaction
  <2>7. RequestInv(r)' /\ FileInv(r)'
    BY <1>1, <2>1, <2>6, NoneIsNoOutcome DEF Own, RequestInv, FileInv
  <2>8. TxnInv(r)'
    BY <1>1, <2>1, <2>2, <2>3, <2>4, <2>5, EventsDiffer DEF Own, TxnInv
  <2> QED
    BY <2>6, <2>7, <2>8 DEF Own
<1>4. CASE LogResponse(r)
  <2>1. pc[r] = "respond" /\ pc'[r] = "commit"
    BY <1>4, Steps DEF LogResponse, Advance, TypeOK
  <2>2. /\ txn'[r].row = txn[r].row
        /\ txn'[r].events = txn[r].events \cup {Event("merchant_response_submitted", r)}
    BY <1>2, <1>4 DEF LogResponse
  <2>3. txn[r].row # None => Whole(txn[r].row.path, r)'
    BY <1>1, <2>1, <2>2 DEF Own, TxnInv, Whole
  <2>4. TableInv(r)' /\ outcome'[r] = None
    BY <1>1, <2>1, InTransactionUntold DEF InTransaction
  <2>5. RequestInv(r)' /\ FileInv(r)'
    BY <1>1, <2>1, <2>4, NoneIsNoOutcome DEF Own, RequestInv, FileInv
  <2>6. TxnInv(r)'
    BY <1>1, <2>1, <2>2, <2>3, EventsDiffer DEF Own, TxnInv
  <2> QED
    BY <2>4, <2>5, <2>6 DEF Own
<1> QED
  BY <1>3, <1>4

LEMMA CommitKeeps ==
  ASSUME NEW r \in Upload, TypeOK, Own(r), Commit(r)
  PROVE  Own(r)'
<1>1. /\ pc[r] = "commit" /\ pc'[r] = "reply" /\ txn'[r] = EmptyTxn
      /\ rows' = rows \cup ({txn[r].row} \ {None})
      /\ events' = events \cup txn[r].events
      /\ UNCHANGED <<storage, post, role, path, outcome>>
  BY Steps DEF Commit, Advance, TypeOK, database
<1>2. Untold(r)
  BY <1>1 DEF Own, TableInv
<1>3. Told(r)'
  <2>1. txn[r].row # None <=> post[r].file # "none"
    BY <1>1 DEF Own, TxnInv
  <2>2. txn[r].row # None => txn[r].row.upload = r
    BY DEF Own, TxnInv
  <2>3. (\E d \in rows' : d.upload = r) <=> post[r].file # "none"
    BY <1>1, <1>2, <2>1, <2>2 DEF Untold
  <2>4. \A e \in events : e # Event("document_uploaded", r)
                         /\ e # Event("merchant_response_submitted", r)
    BY <1>2, EventsDiffer DEF Untold
  <2>5. /\ Event("document_uploaded", r) \in events' <=> post[r].file # "none"
        /\ Event("merchant_response_submitted", r) \in events'
             <=> post[r].way = "merchant"
    BY <1>1, <2>4 DEF Own, TxnInv
  <2> QED
    BY <1>1, <2>3, <2>5 DEF Told, Event
<1>4. outcome[r] = None
  BY <1>1 DEF Own, RequestInv
<1>5. RequestInv(r)' /\ FileInv(r)' /\ TableInv(r)'
  BY <1>1, <1>3, <1>4, NoneIsNoOutcome DEF Own, RequestInv, FileInv, TableInv
<1>6. TxnInv(r)'
  BY <1>1, EmptyTxnType DEF TxnInv
<1> QED
  BY <1>5, <1>6 DEF Own

LEMMA ReplyKeeps ==
  ASSUME NEW r \in Upload, TypeOK, Own(r), Reply(r)
  PROVE  Own(r)'
<1>1. /\ pc[r] = "reply" /\ pc'[r] = "done" /\ outcome'[r] = "ok"
      /\ UNCHANGED <<rows, events, storage, post, role, path, txn>>
  BY DEF Reply, TypeOK, database
<1>2. Told(r)'
  BY <1>1 DEF Own, TableInv, Told, Event
<1>3. RequestInv(r)' /\ FileInv(r)' /\ TableInv(r)'
  BY <1>1, <1>2, NoneIsNoOutcome DEF Own, RequestInv, FileInv, TableInv, Refused
<1>4. TxnInv(r)'
  BY <1>1, EmptyTxnType DEF Own, TxnInv
<1> QED
  BY <1>3, <1>4 DEF Own

LEMMA OwnKeeps ==
  ASSUME NEW r \in Upload, TypeOK, TypeOK', Own(r), Step(r)
  PROVE  Own(r)'
<1>1. CASE RefuseRequest(r)
  <2>1. pc[r] = "send" /\ Refusal(post[r]) # None /\ End(r, Refusal(post[r]))
    BY <1>1 DEF RefuseRequest
  <2>2. post[r] \in Posted
    BY <2>1, UploadAssumption DEF Own, RequestInv
  <2>3. Refusal(post[r]) \in {"forbidden", "not_found", "invalid"}
    BY <2>1, <2>2, RefusalType
  <2>4. NoFile(r)
    BY <2>1 DEF Own, FileInv
  <2> QED
    BY <2>1, <2>3, <2>4, EndKeeps DEF Outcome
<1>2. CASE RefuseRole(r) \/ RejectDocument(r)
  <2>1. pc[r] \in {"judge", "clean"} /\ (End(r, "forbidden") \/ End(r, "rejected"))
    BY <1>2 DEF RefuseRole, RejectDocument
  <2>2. NoFile(r)
    BY <2>1 DEF Own, FileInv
  <2> QED
    BY <2>1, <2>2, EndKeeps DEF Outcome
<1>3. CASE Fail(r) \/ FailReply(r) \/ Crash(r)
  <2>1. CASE Fail(r) \/ FailReply(r)
    BY <2>1, EndKeeps DEF Fail, FailReply, InTransaction, Outcome, Refused
  <2>2. CASE Crash(r)
    BY <2>2, EndKeeps DEF Crash, InTransaction, Outcome, Refused
  <2> QED
    BY <1>3, <2>1, <2>2
<1> QED
  BY <1>1, <1>2, <1>3, FormKeeps, ReceiveKeeps, CheckKeeps, CreateKeeps, WriteKeeps,
     InsertKeeps, RenameKeeps, LogKeeps, CommitKeeps, ReplyKeeps
  DEF Step

\* Only the commit adds a row, of an upload that had none.
LEMMA RowsKeep ==
  ASSUME NEW r \in Upload, TypeOK, Own(r), RowsInv, Frame(r), Step(r)
  PROVE  RowsInv'
<1>1. \A d \in rows : d.upload \in Upload
  BY DEF TypeOK, DocumentRow
<1>2. \A d \in rows : d.digest = d.upload /\ Whole(d.path, d.upload)'
  BY <1>1, WholeStays DEF RowsInv
<1>3. CASE Commit(r)
  <2>1. /\ pc[r] = "commit" /\ storage' = storage
        /\ rows' = rows \cup ({txn[r].row} \ {None})
    BY <1>3 DEF Commit
  <2>2. \A d \in rows : d.upload # r
    BY <2>1 DEF Own, TableInv, Untold
  <2>3. txn[r].row # None =>
          txn[r].row.upload = r /\ txn[r].row.digest = r /\ Whole(txn[r].row.path, r)
    BY <2>1 DEF Own, TxnInv
  <2>4. \A d \in rows' : d.digest = d.upload /\ Whole(d.path, d.upload)'
    <3> SUFFICES ASSUME NEW d \in rows'
                 PROVE  d.digest = d.upload /\ Whole(d.path, d.upload)'
      OBVIOUS
    <3>1. CASE d \in rows
      BY <1>2, <3>1
    <3>2. CASE d \notin rows
      <4>1. d = txn[r].row /\ txn[r].row # None
        BY <2>1, <3>2
      <4> QED
        BY <2>1, <2>3, <4>1 DEF Whole
    <3> QED
      BY <3>1, <3>2
  <2>5. \A d, e \in rows' : d.upload = e.upload => d = e
    BY <2>1, <2>2, <2>3 DEF RowsInv
  <2> QED
    BY <2>4, <2>5 DEF RowsInv, Whole
<1>4. CASE ~Commit(r)
  <2>1. rows' = rows
    BY <1>4 DEF Step, ShowForm, Receive, RefuseRequest, Judge, RefuseRole, FullClean,
       RejectDocument, CreateFile, WriteFile, InsertRow, RenameRow, LogUpload,
       LogResponse, Reply, Fail, FailReply, Crash, End, database
  <2> QED
    BY <1>2, <2>1 DEF RowsInv, Whole
<1> QED
  BY <1>3, <1>4

--------------------------------------------------------------------------------
(* The invariant is inductive *)

LEMMA InitInv == Init => UploadInv
<1> SUFFICES ASSUME Init PROVE UploadInv
  OBVIOUS
<1>1. TypeOK
  BY EmptyTxnType, UploadAssumption DEF Init, TypeOK
<1>2. RowsInv
  BY DEF Init, RowsInv
<1>3. ASSUME NEW r \in Upload
      PROVE  RequestInv(r) /\ FileInv(r) /\ TxnInv(r) /\ TableInv(r)
  BY EmptyTxnType, NoneIsNoOutcome
  DEF Init, RequestInv, FileInv, NoFile, TxnInv, TableInv, Untold
<1> QED
  BY <1>1, <1>2, <1>3 DEF UploadInv

\* Groups are not part of what the invariant relates: the roles a request was
\* judged by are its own copy.
LEMMA GroupsKeep ==
  ASSUME UploadInv, NEW u \in User, NEW g \in Membership, ChangeGroups(u, g)
  PROVE  UploadInv'
<1>1. UNCHANGED <<rows, events, storage, pc, post, role, path, txn, outcome, listed>>
  BY DEF ChangeGroups
<1>2. TypeOK'
  BY <1>1, UploadAssumption DEF UploadInv, TypeOK, ChangeGroups
<1>3. ASSUME NEW r \in Upload
      PROVE  RequestInv(r)' /\ FileInv(r)' /\ TxnInv(r)' /\ TableInv(r)'
  BY <1>1
  DEF UploadInv, RequestInv, FileInv, NoFile, TxnInv, TableInv, Untold, Told, Whole, Event
<1>4. RowsInv'
  BY <1>1 DEF UploadInv, RowsInv, Whole
<1> QED
  BY <1>2, <1>3, <1>4 DEF UploadInv

LEMMA NextInv == UploadInv /\ [Next]_vars => UploadInv'
<1> SUFFICES ASSUME UploadInv, [Next]_vars
             PROVE  UploadInv'
  OBVIOUS
<1>1. ASSUME NEW r \in Upload, Step(r)
      PROVE  UploadInv'
  <2>1. TypeOK /\ RowsInv /\ \A s \in Upload : Own(s)
    BY DEF UploadInv, Own
  <2>2. TypeOK' /\ Frame(r)
    BY <1>1, <2>1, TypeStep, StepFrames DEF Own
  <2>3. RowsInv'
    BY <1>1, <2>1, <2>2, RowsKeep
  <2>4. Own(r)'
    BY <1>1, <2>1, <2>2, OwnKeeps
  <2>5. ASSUME NEW s \in Upload, s # r
        PROVE  RequestInv(s)' /\ FileInv(s)' /\ TxnInv(s)' /\ TableInv(s)'
    BY <2>1, <2>2, <2>5, OthersKeep DEF Own
  <2> QED
    BY <2>2, <2>3, <2>4, <2>5 DEF UploadInv, Own
<1>2. CASE UNCHANGED vars
  <2> USE <1>2 DEF vars, database, UploadInv
  <2>1. TypeOK'
    BY DEF TypeOK
  <2>2. ASSUME NEW r \in Upload
        PROVE  RequestInv(r)' /\ FileInv(r)' /\ TxnInv(r)' /\ TableInv(r)'
    BY DEF RequestInv, FileInv, NoFile, TxnInv, TableInv, Untold, Told, Whole, Event
  <2>3. RowsInv'
    BY DEF RowsInv, Whole
  <2> QED
    BY <2>1, <2>2, <2>3
<1> QED
  BY <1>1, <1>2, GroupsKeep DEF Next

LEMMA Invariant == Spec => []UploadInv
BY InitInv, NextInv, PTL DEF Spec

--------------------------------------------------------------------------------
(* What a form offers *)

\* A file and a note in order, sent by an account that every check lets through and
\* that is shown documents of this kind.
Fit(p) ==
  /\ p \in Posted /\ p.way \in {"page", "merchant"}
  /\ p.file = "good" /\ p.note # "long"
  /\ Refusal(p) = None
  /\ UploadAllowed(p.user, p.kind)
  /\ p.way = "page" => \/ WorkspaceRole(p.user) \in Staff
                       \/ WorkspaceRole(p.user) = "customer" /\ p.kind = "evidence"
                       \/ WorkspaceRole(p.user) = "merchant" /\ p.kind = "response"
  /\ p.way = "merchant" => /\ HasSurface(p.user, "merchant")
                           /\ SeesPortalCase(p.user, "merchant")
                           /\ p.kind = "response"

\* The row is visible to those who may upload such a document.
Flags(d, p) == d.toCustomer = (p.kind = "evidence") /\ d.toMerchant = (p.kind = "response")

OfferInv(r) ==
  /\ promised[r] /\ pc[r] \notin {"idle", "done"} => Fit(post[r])
  /\ txn[r].row # None => Flags(txn[r].row, post[r])
  /\ \A d \in rows : d.upload = r => Flags(d, post[r])
  /\ pc[r] = "done" /\ promised[r] /\ outcome[r] \notin {"error", "lost"} =>
       outcome[r] = "ok" /\ r \in listed[r]

LEMMA PromiseFits ==
  ASSUME TypeOK, NEW page \in Page, NEW p \in Post, Promises(page, p)
  PROVE  Fit(p)
<1> DEFINE u == p.user
<1>1. /\ p \in Posted /\ u \in User /\ p.kind \in DocumentKind /\ p.way \in Way
      /\ p.file = "good" /\ p.note # "long"
      /\ [way |-> p.way, kind |-> p.kind] \in OfferOn(page, u)
      /\ ~({"customer", "merchant"} \subseteq groups[u])
  BY UploadAssumption DEF Promises, Posted
<1>2. None \notin Role
  BY UploadAssumption
<1>3. /\ RoleOf(u) = "admin" <=> "admin" \in groups[u]
      /\ RoleOf(u) = "ops" <=> "admin" \notin groups[u] /\ "ops" \in groups[u]
      /\ RoleOf(u) = "merchant" <=> /\ "admin" \notin groups[u] /\ "ops" \notin groups[u]
                                    /\ "merchant" \in groups[u]
      /\ RoleOf(u) = "customer" <=> /\ "admin" \notin groups[u] /\ "ops" \notin groups[u]
                                    /\ "merchant" \notin groups[u]
                                    /\ "customer" \in groups[u]
  BY <1>2 DEF RoleOf, Role
<1>4. CASE page = "page"
  <2>1. p.way = "page" /\ p.kind \in KindChoices(WorkspaceRole(u))
    <3>1. PICK k \in KindChoices(WorkspaceRole(u)) :
            [way |-> p.way, kind |-> p.kind] = [way |-> "page", kind |-> k]
      BY <1>1, <1>4 DEF OfferOn
    <3> QED
      BY <3>1
  <2>2. WorkspaceRole(u) = None \/ WorkspaceRole(u) = RoleOf(u)
    BY DEF WorkspaceRole
  <2>3. \/ WorkspaceRole(u) \in Staff
        \/ WorkspaceRole(u) = "customer" /\ p.kind = "evidence"
        \/ WorkspaceRole(u) = "merchant" /\ p.kind = "response"
    BY <2>1 DEF KindChoices
  <2>4. WorkspaceRole(u) # None
    BY <1>2, <2>3 DEF Staff, Role
  <2>5. UploadAllowed(u, p.kind)
    BY <2>2, <2>3, <2>4 DEF WorkspaceRole, UploadAllowed, Staff
  <2>6. Refusal(p) = None
    BY <1>1, <2>1, <2>4 DEF Refusal, Valid, ValidUpload, Attached, Role
  <2> QED
    BY <1>1, <2>1, <2>3, <2>5, <2>6 DEF Fit
<1>5. CASE page = "customer"
  <2>1. /\ p.way = "page" /\ p.kind = "evidence"
        /\ HasSurface(u, "customer") /\ SeesPortalCase(u, "customer")
    <3>1. HasSurface(u, "customer") /\ SeesPortalCase(u, "customer")
      BY <1>1, <1>5 DEF OfferOn
    <3>2. PICK k \in KindChoices("customer") :
            [way |-> p.way, kind |-> p.kind] = [way |-> "page", kind |-> k]
      BY <1>1, <1>5, <3>1 DEF OfferOn
    <3>3. k = "evidence"
      BY DEF KindChoices, Staff
    <3> QED
      BY <3>1, <3>2, <3>3
  <2>2. /\ "customer" \in groups[u] /\ "merchant" \notin groups[u]
        /\ "admin" \in groups[u] \/ u = Customer
    BY <1>1, <2>1 DEF HasSurface, SeesPortalCase
  <2>3. RoleOf(u) \in Staff \/ (RoleOf(u) = "customer" /\ u = Customer)
    BY <1>3, <2>2 DEF Staff
  <2>4. WorkspaceRole(u) = RoleOf(u)
    BY <2>3 DEF WorkspaceRole
  <2>5. UploadAllowed(u, p.kind)
    BY <2>1, <2>3 DEF UploadAllowed
  <2>6. WorkspaceRole(u) # None /\ p.kind \in KindChoices(WorkspaceRole(u))
    BY <1>2, <2>1, <2>3, <2>4 DEF KindChoices, DocumentKind, Staff, Role
  <2>7. Refusal(p) = None
    BY <1>1, <2>1, <2>6 DEF Refusal, Valid, ValidUpload, Attached, Role
  <2> QED
    BY <1>1, <2>1, <2>3, <2>4, <2>5, <2>7 DEF Fit
<1>6. CASE page = "merchant"
  <2>1. HasSurface(u, "merchant") /\ SeesPortalCase(u, "merchant")
    BY <1>1, <1>6 DEF OfferOn
  <2>2. p.way = "merchant" /\ p.kind = "response"
    <3>1. [way |-> p.way, kind |-> p.kind] = [way |-> "merchant", kind |-> "response"]
      BY <1>1, <1>6, <2>1 DEF OfferOn
    <3> QED
      BY <3>1
  <2>3. "merchant" \in groups[u] /\ ("admin" \in groups[u] \/ u = Merchant)
    BY <2>1 DEF HasSurface, SeesPortalCase
  <2>4. RoleOf(u) \in Staff \/ (RoleOf(u) = "merchant" /\ u = Merchant)
    BY <1>3, <2>3 DEF Staff
  <2>5. UploadAllowed(u, p.kind)
    BY <2>2, <2>4 DEF UploadAllowed
  <2>6. Refusal(p) = None
    BY <1>1, <2>1, <2>2 DEF Refusal, Valid, ValidResponse, Attached, Role
  <2> QED
    BY <1>1, <2>1, <2>2, <2>5, <2>6 DEF Fit
<1> QED
  BY <1>4, <1>5, <1>6 DEF Page, Way

\* It only reads the groups of the account that sends.
LEMMA FitStays ==
  ASSUME NEW p, groups'[p.user] = groups[p.user], Fit(p)
  PROVE  Fit(p)'
<1>1. RoleOf(p.user)' = RoleOf(p.user)
  BY DEF RoleOf
<1>2. WorkspaceRole(p.user)' = WorkspaceRole(p.user)
  BY <1>1 DEF WorkspaceRole
<1>3. \A s : /\ HasSurface(p.user, s)' <=> HasSurface(p.user, s)
             /\ SeesPortalCase(p.user, s)' <=> SeesPortalCase(p.user, s)
  BY DEF HasSurface, SeesPortalCase
<1>4. Valid(p)' <=> Valid(p)
  BY <1>2 DEF Fit, Posted, Way, Valid
<1>5. Refusal(p)' = Refusal(p)
  BY <1>2, <1>3, <1>4 DEF Refusal
<1>6. UploadAllowed(p.user, p.kind)' <=> UploadAllowed(p.user, p.kind)
  BY <1>1 DEF UploadAllowed
<1> QED
  BY <1>2, <1>3, <1>5, <1>6 DEF Fit

LEMMA OthersOffer ==
  ASSUME NEW r \in Upload, TypeOK, Step(r)
  PROVE  /\ groups' = groups
         /\ \A s \in Upload \ {r} : promised'[s] = promised[s] /\ listed'[s] = listed[s]
BY DEF TypeOK, Step, ShowForm, Receive, RefuseRequest, Judge, RefuseRole, FullClean,
   RejectDocument, CreateFile, WriteFile, InsertRow, RenameRow, LogUpload, LogResponse,
   Commit, Reply, Fail, FailReply, Crash, End, database

\* A step that is neither the first nor the last of a request, and writes no row
LEMMA OfferGoesOn ==
  ASSUME NEW r \in Upload, OfferInv(r), groups' = groups,
         pc[r] \notin {"idle", "done"}, pc'[r] # "done",
         promised'[r] = promised[r], post'[r] = post[r],
         txn'[r].row # None => Flags(txn'[r].row, post[r]),
         \A d \in rows' \ rows : d = txn[r].row /\ d # None
  PROVE  OfferInv(r)'
<1>1. promised'[r] /\ pc'[r] \notin {"idle", "done"} => Fit(post[r])'
  BY FitStays DEF OfferInv
<1>2. (promised[r] /\ pc[r] \notin {"idle", "done"} => Fit(post[r]))'
  BY <1>1 DEF Fit, Posted, Refusal, Valid, UploadAllowed, RoleOf, WorkspaceRole, HasSurface,
     SeesPortalCase
<1> QED
  BY <1>2 DEF OfferInv, Flags

\* A request that ends with o
LEMMA OfferEnds ==
  ASSUME NEW r \in Upload, TypeOK, OfferInv(r), NEW o \in Outcome, End(r, o),
         promised[r] => o \in {"error", "lost"}
  PROVE  OfferInv(r)'
<1>1. /\ pc'[r] = "done" /\ outcome'[r] = o /\ txn'[r].row = None
      /\ UNCHANGED <<rows, promised, post, listed>>
  BY EmptyTxnType DEF End, TypeOK, EmptyTxn, database
<1> QED
  BY <1>1 DEF OfferInv, Flags

LEMMA OfferKeeps ==
  ASSUME NEW r \in Upload, TypeOK, TypeOK', Own(r), OfferInv(r), Step(r)
  PROVE  OfferInv(r)'
<1>1. groups' = groups
  BY OthersOffer
<1>2. CASE \E page \in Page, p \in Post : ShowForm(r, page, p)
  <2> PICK page \in Page, p \in Post : ShowForm(r, page, p)
    BY <1>2
  <2>1. /\ pc[r] = "idle" /\ pc'[r] = "send" /\ post'[r] = p
        /\ promised'[r] = Promises(page, p)
        /\ UNCHANGED <<rows, txn>>
    BY DEF ShowForm, TypeOK, database
  <2>2. promised'[r] => Fit(p)'
    BY <1>1, <2>1, PromiseFits, FitStays
  <2>3. (promised[r] /\ pc[r] \notin {"idle", "done"} => Fit(post[r]))'
    BY <2>1, <2>2 DEF Fit, Posted, Refusal, Valid, UploadAllowed, RoleOf, WorkspaceRole,
       HasSurface, SeesPortalCase
  <2>4. txn'[r].row = None /\ \A d \in rows' : d.upload # r
    BY <2>1 DEF Own, TxnInv, TableInv, Untold, EmptyTxn
  <2> QED
    BY <2>1, <2>3, <2>4 DEF OfferInv
<1>3. CASE Receive(r) \/ Judge(r) \/ FullClean(r) \/ CreateFile(r) \/ WriteFile(r)
  <2>1. /\ pc[r] \notin {"idle", "done"} /\ pc'[r] # "done"
        /\ UNCHANGED <<rows, txn, promised, post>>
    BY <1>3, Steps DEF Receive, Judge, FullClean, CreateFile, WriteFile, Advance, TypeOK, database
  <2> QED
    BY <1>1, <2>1, OfferGoesOn DEF OfferInv
<1>4. CASE InsertRow(r)
  <2>1. /\ pc[r] \notin {"idle", "done"} /\ pc'[r] # "done"
        /\ UNCHANGED <<rows, promised, post>>
        /\ txn'[r].row = [upload |-> r, path |-> Original, digest |-> r, role |-> role[r],
                          kind |-> post[r].kind,
                          toCustomer |-> VisibleToCustomer(post[r].kind),
                          toMerchant |-> VisibleToMerchant(post[r].kind)]
    BY <1>4, Steps DEF InsertRow, Advance, TypeOK, database
  <2>2. Flags(txn'[r].row, post[r])
    <3>1. /\ txn'[r].row.toCustomer = VisibleToCustomer(post[r].kind)
          /\ txn'[r].row.toMerchant = VisibleToMerchant(post[r].kind)
      BY <2>1
    <3> QED
      BY <3>1, Zenon DEF Flags, VisibleToCustomer, VisibleToMerchant
  <2> QED
    BY <1>1, <2>1, <2>2, OfferGoesOn
<1>5. CASE RenameRow(r)
  <2>1. /\ pc[r] = "rename" /\ pc'[r] # "done"
        /\ UNCHANGED <<rows, promised, post>>
        /\ txn'[r].row = [txn[r].row EXCEPT !.path = path[r]]
    BY <1>5, Steps DEF RenameRow, Advance, TypeOK, database
  <2>2. txn[r].row # None /\ txn[r].row \in DocumentRow
    BY <2>1 DEF Own, TxnInv, TypeOK
  <2>3. /\ txn'[r].row.toCustomer = txn[r].row.toCustomer
        /\ txn'[r].row.toMerchant = txn[r].row.toMerchant
    BY <2>1, <2>2 DEF DocumentRow
  <2> QED
    BY <1>1, <2>1, <2>2, <2>3, OfferGoesOn DEF OfferInv, Flags
<1>6. CASE LogUpload(r) \/ LogResponse(r)
  <2>1. /\ pc[r] \notin {"idle", "done"} /\ pc'[r] # "done"
        /\ UNCHANGED <<rows, promised, post>>
        /\ txn'[r].row = txn[r].row
    BY <1>6, Steps DEF LogUpload, LogResponse, Advance, TypeOK, database
  <2> QED
    BY <1>1, <2>1, OfferGoesOn DEF OfferInv
<1>7. CASE Commit(r)
  <2>1. /\ pc[r] \notin {"idle", "done"} /\ pc'[r] # "done"
        /\ UNCHANGED <<promised, post>>
        /\ txn'[r].row = None
        /\ rows' = rows \cup ({txn[r].row} \ {None})
    BY <1>7, Steps DEF Commit, Advance, TypeOK, EmptyTxn
  <2> QED
    BY <1>1, <2>1, OfferGoesOn
<1>8. CASE Reply(r)
  <2>1. /\ pc[r] = "reply" /\ pc'[r] = "done" /\ outcome'[r] = "ok"
        /\ UNCHANGED <<rows, promised, post, txn>>
        /\ post[r].way # "api" => listed'[r] = Shown(post[r].way, post[r].user)
    BY <1>8 DEF Reply, TypeOK, database
  <2>2. ASSUME promised[r]
        PROVE  r \in listed'[r]
    <3>1. Fit(post[r])
      BY <2>1, <2>2 DEF OfferInv
    <3>2. PICK d \in rows : d.upload = r
      BY <2>1, <3>1 DEF Own, TableInv, Told, Fit
    <3>3. Flags(d, post[r])
      BY <3>2 DEF OfferInv
    <3>4. \A D : d \in D => r \in Stored(D)
      BY <3>2 DEF Stored
    <3>5. CASE post[r].way = "page"
      <4>1. r \in ListedFor(post[r].user)
        BY <3>1, <3>2, <3>3, <3>4, <3>5 DEF Fit, Flags, ListedFor, Staff
      <4> QED
        BY <2>1, <3>5, <4>1 DEF Shown
    <3>6. CASE post[r].way = "merchant"
      <4>1. r \in PortalDocuments("merchant", post[r].user)
        BY <3>1, <3>2, <3>3, <3>4, <3>6 DEF Fit, Flags, PortalDocuments
      <4> QED
        BY <2>1, <3>6, <4>1 DEF Shown
    <3> QED
      BY <3>1, <3>5, <3>6 DEF Fit
  <2> QED
    BY <2>1, <2>2 DEF OfferInv, Flags
<1>9. CASE RefuseRequest(r)
  <2>1. pc[r] = "send" /\ Refusal(post[r]) # None /\ End(r, Refusal(post[r]))
    BY <1>9 DEF RefuseRequest
  <2>2. Refusal(post[r]) \in Outcome
    BY <2>1, RefusalType, UploadAssumption DEF Own, RequestInv, Outcome
  <2>3. ~promised[r]
    BY <2>1 DEF OfferInv, Fit
  <2> QED
    BY <2>1, <2>2, <2>3, OfferEnds
<1>10. CASE RefuseRole(r) \/ RejectDocument(r)
  <2>1. /\ pc[r] \in {"judge", "clean"} /\ (End(r, "forbidden") \/ End(r, "rejected"))
        /\ ~UploadAllowed(post[r].user, post[r].kind) \/ FullCleanRefuses(post[r])
    BY <1>10 DEF RefuseRole, RejectDocument
  <2>2. ~promised[r]
    BY <2>1 DEF OfferInv, Fit, FullCleanRefuses
  <2> QED
    BY <2>1, <2>2, OfferEnds DEF Outcome
<1>11. CASE Fail(r) \/ FailReply(r) \/ Crash(r)
  <2>1. End(r, "error") \/ End(r, "lost")
    BY <1>11 DEF Fail, FailReply, Crash
  <2> QED
    BY <2>1, OfferEnds DEF Outcome
<1> QED
  BY <1>2, <1>3, <1>4, <1>5, <1>6, <1>7, <1>8, <1>9, <1>10, <1>11 DEF Step

LEMMA OffersKeep ==
  UploadInv /\ (\A r \in Upload : OfferInv(r)) /\ [Next]_vars => (\A r \in Upload : OfferInv(r))'
<1> SUFFICES ASSUME UploadInv, \A r \in Upload : OfferInv(r), [Next]_vars,
                    NEW r \in Upload
             PROVE  OfferInv(r)'
  OBVIOUS
<1>1. UploadInv' /\ TypeOK /\ TypeOK' /\ Own(r)
  BY NextInv DEF UploadInv, Own
<1>2. ASSUME groups'[post[r].user] = groups[post[r].user] \/ ~promised'[r] \/ pc[r] = "done",
             promised'[r] => promised[r],
             listed'[r] = listed[r], pc'[r] = pc[r], post'[r] = post[r],
             txn'[r] = txn[r], outcome'[r] = outcome[r],
             \A d \in rows' \ rows : d.upload # r
      PROVE  OfferInv(r)'
  <2>1. promised'[r] /\ pc'[r] \notin {"idle", "done"} => Fit(post[r])'
    BY <1>2, FitStays DEF OfferInv
  <2>2. (promised[r] /\ pc[r] \notin {"idle", "done"} => Fit(post[r]))'
    BY <1>2, <2>1 DEF Fit, Posted, Refusal, Valid, UploadAllowed, RoleOf, WorkspaceRole,
       HasSurface, SeesPortalCase
  <2> QED
    BY <1>2, <2>2 DEF OfferInv, Flags
<1>3. ASSUME NEW s \in Upload, Step(s)
      PROVE  OfferInv(r)'
  <2>1. CASE s = r
    BY <1>1, <1>3, <2>1, OfferKeeps
  <2>2. CASE s # r
    <3>1. Frame(s)
      BY <1>1, <1>3, StepFrames DEF UploadInv
    <3>2. /\ groups' = groups
          /\ promised'[r] = promised[r] /\ listed'[r] = listed[r]
      BY <1>1, <1>3, <2>2, OthersOffer
    <3> QED
      BY <1>2, <2>2, <3>1, <3>2 DEF Frame, OthersRest, TablesGrow
  <2> QED
    BY <2>1, <2>2
<1>4. ASSUME NEW u \in User, NEW g \in Membership, ChangeGroups(u, g)
      PROVE  OfferInv(r)'
  <2>1. /\ UNCHANGED <<rows, pc, post, txn, outcome, listed>>
        /\ promised'[r] = (promised[r] /\ (pc[r] = "done" \/ post[r].user # u))
        /\ groups' = [groups EXCEPT ![u] = g]
    BY <1>4 DEF ChangeGroups
  <2>2. promised'[r] => promised[r] /\ (pc[r] = "done" \/ post[r].user # u)
    BY <2>1
  <2>3. post[r].user # u => groups'[post[r].user] = groups[post[r].user]
    BY <1>1, <2>1 DEF TypeOK
  <2> QED
    BY <1>2, <2>1, <2>2, <2>3
<1>5. CASE UNCHANGED vars
  BY <1>2, <1>5 DEF vars, database
<1> QED
  BY <1>3, <1>4, <1>5 DEF Next

--------------------------------------------------------------------------------
(* Theorems *)

\* In every behaviour each variable has its type, so that no document row is
\* written under no role, whatever changes between the judgement and the insert
\* (returns/services/documents.py, _assert_upload_allowed and
\* upload_document_for_case).
THEOREM UploadTypeCorrect == Spec => []TypeOK
<1>1. UploadInv => TypeOK
  BY DEF UploadInv
<1> QED
  BY <1>1, Invariant, PTL

\* However many uploads interleave, fail and crash between the write of the file and
\* the commit of the row, a committed row names a whole file with the content of its
\* checksum, which no other row names (EvidenceDocument.save).
THEOREM RowAlwaysHasItsFile == Spec => []RowHasItsFile
BY Invariant, InvImpliesProperties, PTL

\* A refused upload leaves no file, row or event behind: every check of the account,
\* the form and the document comes before the storage is written.
THEOREM RefusedAlwaysLeavesNothing == Spec => []RefusedLeavesNothing
BY Invariant, InvImpliesProperties, PTL

\* Row, events and answer of an upload agree, on every route and after every failure
\* (upload_document_for_case, submit_merchant_response).
THEOREM UploadAlwaysWhole == Spec => []UploadIsWhole
BY Invariant, InvImpliesProperties, PTL

\* What a form offers is kept: who sends it with a good file and a short note, in
\* unchanged groups, has it stored unless something fails, and sees it in the answer.
\* The form, the view, the service and the list ask four functions for the role
\* (get_case_detail_actor_role, user_has_surface_access, _actor_role,
\* list_documents_for_case), and they agree on every account that is not customer
\* and merchant at once.
THEOREM OfferAlwaysKept == Spec => []OfferIsKept
<1>1. Init => \A r \in Upload : OfferInv(r)
  <2> SUFFICES ASSUME Init, NEW r \in Upload PROVE OfferInv(r)
    OBVIOUS
  <2> QED
    BY DEF Init, OfferInv, EmptyTxn
<1>2. (\A r \in Upload : OfferInv(r)) => OfferIsKept
  BY DEF OfferInv, OfferIsKept
<1> QED
  BY <1>1, <1>2, OffersKeep, Invariant, PTL DEF Spec
================================================================================

-------------------------- MODULE CaseLifecycleProofs --------------------------
(***************************************************************************)
(* Theorems about what the services keep of the documented lifecycle of a    *)
(* case, for any number of workers, cases and requests, however they overlap: *)
(* they implement CaseLifecycle, the status events of a case form a chain,    *)
(* decisions hold, and the risk score takes in every document; each with the  *)
(* exception of the updates that were overtaken, or the scores that came late. *)
(*                                                                          *)
(* A worker knows a row the case has had.  What it writes onto the row, under *)
(* the row's lock, is a step from the row that is there or, recorded as       *)
(* overtaken, from the one it knows; nobody else writes before it commits.    *)
(***************************************************************************)
EXTENDS ReturnCaseWorkflowProofs

\* Row r says nothing of case c that an event has not reported
Reported(c, r) ==
  /\ \E f \in history[c] : r.status = f.to
  /\ \E g \in history[c] : r.priority = g.toPriority

\* Row r and event e are a step of the lifecycle of case c: its creation, a move
\* from the row that is there, or an overtaken one
Creates(c, r, e) ==
  /\ row[c] = None /\ r = NewRow /\ e = CreatedEvent(e.at)
  /\ e.at \notin overtaken[c]

MovesOn(c, r, e) ==
  /\ row[c] # None /\ e.at \notin overtaken[c]
  /\ r.status \in AllowedTransitions(row[c].status)
  /\ r.sla = SlaHours(r.priority)
  /\ e = [at |-> e.at, from |-> row[c].status, to |-> r.status,
          fromPriority |-> row[c].priority, toPriority |-> r.priority]

Overtakes(c, r, e) ==
  /\ row[c] # None /\ e.at \in overtaken[c]
  /\ \E f, g \in history[c] :
       /\ r.status \in AllowedTransitions(f.to)
       /\ r.sla = SlaHours(e.toPriority)
       /\ e = [at |-> e.at, from |-> f.to, to |-> r.status,
               fromPriority |-> g.toPriority, toPriority |-> e.toPriority]
       /\ \/ r.priority = e.toPriority
          \/ e.toPriority = g.toPriority /\ r.priority = row[c].priority

Legal(c, r, e) == Creates(c, r, e) \/ MovesOn(c, r, e) \/ Overtakes(c, r, e)

\* The request of w knows a row its case has had, and writes a legal step
Intends(w) ==
  /\ pc[w] \in {"form", "service"} => Reported(CaseOf(w), held[w])
  /\ txn[w].row # None => Legal(CaseOf(w), txn[w].row, txn[w].event)

IntentInv ==
  /\ \A c \in Case : \A t \in overtaken[c] : t <= clock[c]
  /\ \A c \in Case : row[c] # None => Reported(c, row[c])
  /\ \A w \in Worker : Intends(w)

CaseInv == /\ \A c \in Case : row[c] = None => history[c] = {}
           /\ AuditChain

\* Case c moves to row r, which event e logs
MovesTo(c, r, e) ==
  /\ row' = [row EXCEPT ![c] = r]
  /\ history' = [history EXCEPT ![c] = history[c] \cup {e}]
  /\ overtaken' = overtaken
  /\ \A f \in history[c] : f.at < e.at
  /\ Legal(c, r, e)

OneMove == \E c \in Case, r \in Row, e \in StatusEvent : MovesTo(c, r, e)

\* No case moves; an update may have begun that was overtaken
NoMove ==
  /\ UNCHANGED <<row, history>>
  /\ \A c \in Case : /\ overtaken[c] \subseteq overtaken'[c]
                     /\ \A e \in history[c] : e.at \in overtaken'[c] => e.at \in overtaken[c]

--------------------------------------------------------------------------------
(* What requests intend *)

LEMMA WritersWork ==
  ASSUME TypeInv, NEW v \in Worker, txn[v].row # None
  PROVE  pc[v] # "idle"
BY DEF TypeInv, RequestInv, EmptyTxn

\* Nothing of the case moves: a step of its lifecycle remains one
LEMMA LegalStays ==
  ASSUME NEW c, NEW r, NEW e, row'[c] = row[c], history'[c] = history[c],
         overtaken'[c] = overtaken[c], Legal(c, r, e)
  PROVE  Legal(c, r, e)'
BY DEF Legal, Creates, MovesOn, Overtakes

\* Once the row is written, its step is what a request intends
LEMMA WrittenIntends ==
  ASSUME NEW v \in Worker, pc'[v] \notin {"form", "service"},
         NEW c, NEW r, NEW e, CaseOf(v)' = c, txn'[v].row = r, txn'[v].event = e,
         r # None => Legal(c, r, e)'
  PROVE  Intends(v)'
BY DEF Intends

\* A request whose worker did nothing and whose case moved on at most before the
\* worker had written anything
LEMMA OthersIntend ==
  ASSUME TypeInv, NEW v \in Worker, Intends(v),
         txn'[v] = txn[v], pc'[v] = pc[v], held'[v] = held[v],
         pc[v] # "idle" => /\ req'[v] = req[v]
                           /\ history[CaseOf(v)] \subseteq history'[CaseOf(v)],
         txn[v].row # None => /\ row'[CaseOf(v)] = row[CaseOf(v)]
                              /\ history'[CaseOf(v)] = history[CaseOf(v)]
                              /\ overtaken'[CaseOf(v)] = overtaken[CaseOf(v)]
  PROVE  Intends(v)'
<1>1. ASSUME pc'[v] \in {"form", "service"}
      PROVE  Reported(CaseOf(v), held[v])'
  BY <1>1 DEF Intends, Reported, CaseOf
<1>2. ASSUME txn'[v].row # None
      PROVE  Legal(CaseOf(v), txn[v].row, txn[v].event)'
  <2>1. pc[v] # "idle" /\ txn[v].row # None
    BY <1>2, WritersWork
  <2>2. CaseOf(v)' = CaseOf(v)
    BY <2>1 DEF CaseOf
  <2>3. Legal(CaseOf(v), txn[v].row, txn[v].event)
    BY <2>1 DEF Intends
  <2> QED
    BY <2>1, <2>2, <2>3 DEF Legal, Creates, MovesOn, Overtakes
<1> QED
  BY <1>1, <1>2 DEF Intends

LEMMA IdleIntends ==
  ASSUME NEW v \in Worker, pc'[v] = "idle", txn'[v] = EmptyTxn
  PROVE  Intends(v)'
BY DEF Intends, EmptyTxn

\* The UPDATE writes a move from the row that is there, or is recorded
LEMMA UpdateIntends ==
  ASSUME TypeInv, IntentInv, NEW w \in Worker, UpdateCase(w)
  PROVE  Intends(w)'
<1> SUFFICES ASSUME NEW c, NEW e, NEW r,
                    c = CaseOf(w), e = UpdatedEvent(w), r = SavedRow(w)
             PROVE  Intends(w)'
  OBVIOUS
<1>1. /\ pc[w] = "service" /\ req[w].kind \in StatusKind /\ TransitionAllowed(w)
      /\ pc'[w] = "evidence" /\ row' = row /\ req' = req /\ history' = history
      /\ c \in Case /\ CaseOf(w)' = c
      /\ txn'[w].row = r /\ txn'[w].event = e
  BY Serving DEF UpdateCase, TypeInv, TypeOK, Txn, tables, CaseOf
<1>2. /\ held[w] \in Row /\ row[c] \in Row /\ row[c] # None
      /\ Updated(w) \in Row /\ r \in Row /\ req[w] \in Request
      /\ r.status = Updated(w).status /\ r.sla = SlaHours(Updated(w).priority)
  BY <1>1, UpdatedType, Serving, NoneAssumption
<1>3. /\ Updated(w).status = req[w].target
      /\ Updated(w).priority = IF req[w].priority = None THEN held[w].priority
                               ELSE req[w].priority
      /\ r.priority = IF req[w].priority = None THEN row[c].priority
                      ELSE req[w].priority
  BY <1>2 DEF Updated, SavedRow, Row
<1>4. /\ e = [at |-> e.at, from |-> held[w].status, to |-> r.status,
              fromPriority |-> held[w].priority, toPriority |-> e.toPriority]
      /\ e.toPriority = Updated(w).priority /\ e.at = clock[c] + 1
      /\ r.status \in AllowedTransitions(held[w].status)
  BY <1>1, <1>2, <1>3 DEF UpdatedEvent, Tick, TransitionAllowed
<1>5. clock[c] \in Nat /\ overtaken[c] \subseteq Nat /\ \A t \in overtaken[c] : t <= clock[c]
  BY <1>1 DEF TypeInv, TypeOK, IntentInv
<1>6. Reported(c, held[w])
  BY <1>1 DEF IntentInv, Intends
<1>7. (held[w] = row[c] /\ overtaken' = overtaken)
        \/ (held[w] # row[c] /\ overtaken'[c] = overtaken[c] \cup {clock[c] + 1})
  BY <1>1 DEF UpdateCase, Tick, TypeInv, TypeOK
<1>8. CASE held[w] = row[c] /\ overtaken' = overtaken
  <2>1. e.at \notin overtaken[c]
    BY <1>4, <1>5
  <2>2. r.priority = e.toPriority /\ r.sla = SlaHours(r.priority)
    BY <1>2, <1>3, <1>4, <1>8
  <2>3. MovesOn(c, r, e)'
    BY <1>1, <1>2, <1>4, <1>8, <2>1, <2>2 DEF MovesOn
  <2> QED
    BY <1>1, <2>3, WrittenIntends DEF Legal
<1>9. CASE held[w] # row[c] /\ overtaken'[c] = overtaken[c] \cup {clock[c] + 1}
  <2>1. e.at \in overtaken'[c]
    BY <1>4, <1>9
  <2>2. PICK f \in history[c], g \in history[c] :
          held[w].status = f.to /\ held[w].priority = g.toPriority
    BY <1>6 DEF Reported
  <2>3. r.sla = SlaHours(e.toPriority)
    BY <1>2, <1>4
  <2>4. \/ r.priority = e.toPriority
        \/ e.toPriority = g.toPriority /\ r.priority = row[c].priority
    BY <1>3, <1>4, <2>2
  <2>5. Overtakes(c, r, e)'
    BY <1>1, <1>2, <1>4, <2>1, <2>2, <2>3, <2>4 DEF Overtakes
  <2> QED
    BY <1>1, <2>5, WrittenIntends DEF Legal
<1> QED
  BY <1>7, <1>8, <1>9

LEMMA InsertIntends ==
  ASSUME TypeInv, IntentInv, NEW w \in Worker, InsertCase(w)
  PROVE  Intends(w)'
<1> SUFFICES ASSUME NEW c, NEW e, c = CaseOf(w), e = CreatedEvent(Tick(c))
             PROVE  Intends(w)'
  OBVIOUS
<1>1. /\ pc[w] = "insert" /\ pc'[w] = "evidence" /\ row' = row /\ req' = req
      /\ overtaken' = overtaken /\ c \in Case /\ CaseOf(w)' = c /\ row[c] = None
      /\ txn'[w].row = NewRow /\ txn'[w].event = e
  BY Serving DEF InsertCase, TypeInv, TypeOK, Txn, tables, records, CaseOf
<1>2. clock[c] \in Nat /\ overtaken[c] \subseteq Nat /\ \A t \in overtaken[c] : t <= clock[c]
  BY <1>1 DEF TypeInv, TypeOK, IntentInv
<1>3. e.at = clock[c] + 1 /\ e = CreatedEvent(e.at)
  BY DEF CreatedEvent, Tick
<1>4. e.at \notin overtaken[c]
  BY <1>2, <1>3
<1>5. Creates(c, NewRow, e)'
  BY <1>1, <1>3, <1>4 DEF Creates
<1> QED
  BY <1>1, <1>5, WrittenIntends DEF Legal

LEMMA IntentWork ==
  ASSUME TypeInv, TypeInv', CaseAuditInv, IntentInv, NEW w \in Worker, Works(w), Inner(w)
  PROVE  IntentInv'
<1>0. /\ pc \in [Worker -> PC] /\ txn \in [Worker -> Txn] /\ txn[w] \in Txn
      /\ clock \in [Case -> Nat] /\ overtaken \in [Case -> SUBSET Nat]
      /\ pc[w] # "idle" /\ row' = row /\ req' = req /\ history' = history
      /\ CaseOf(w) \in Case /\ Intends(w)
      /\ \A c \in Case : clock[c] <= clock'[c]
  BY Serving DEF TypeInv, TypeOK, Works, tables, IntentInv
<1>1. CASE ~UpdateCase(w)
  <2>1. overtaken' = overtaken
    BY <1>1, ScoreEffects DEF Inner, ReloadCase, NoteOnlyResponse, InsertCase, AddNote,
       InsertDocument, records
  <2>2. \A v \in Worker : v # w => Intends(v)'
    BY <1>0, <2>1, OthersIntend DEF Works, IntentInv
  <2>3. Intends(w)'
    <3>1. CASE ReloadCase(w)
      <4>1. pc'[w] = "service" /\ held'[w] = row[CaseOf(w)] /\ txn'[w] = txn[w]
        BY <3>1 DEF ReloadCase, TypeInv, TypeOK
      <4>2. txn[w].row = None /\ row[CaseOf(w)] # None
        BY <3>1 DEF ReloadCase, TypeInv, RequestInv, EmptyTxn, CaseOf
      <4> QED
        BY <1>0, <4>1, <4>2 DEF Intends, IntentInv, Reported, CaseOf
    <3>2. CASE InsertCase(w)
      BY <3>2, InsertIntends
    <3>3. CASE Inner(w) /\ ~Scores(w) /\ ~ReloadCase(w) /\ ~InsertCase(w)
      <4>1. txn'[w].row = None /\ pc'[w] \in {"evidence", "commit"}
        <5>0. txn[w] = EmptyTxn /\ EmptyTxn.row = None
          BY <3>3, BeforeScoring DEF EmptyTxn
        <5>1. CASE NoteOnlyResponse(w)
          BY <1>0, <5>0, <5>1 DEF NoteOnlyResponse
        <5>2. CASE AddNote(w)
          BY <1>0, <5>0, <5>2 DEF AddNote, Txn
        <5>3. CASE InsertDocument(w)
          <6>1. PICK d \in Doc :
                  txn' = [txn EXCEPT
                            ![w].docs = {[id |-> d, role |-> req[w].role]},
                            ![w].activity = <<Happened("document_uploaded", d)>>]
            BY <5>3 DEF InsertDocument
          <6>2. txn'[w].row = None
            BY <1>0, <5>0, <6>1 DEF Txn
          <6> QED
            BY <1>0, <5>3, <6>2 DEF InsertDocument
        <5> QED
          BY <1>1, <3>3, <5>1, <5>2, <5>3 DEF Inner
      <4> QED
        BY <4>1 DEF Intends
    <3>4. CASE Scores(w)
      <4>1. /\ txn'[w].row = txn[w].row /\ txn'[w].event = txn[w].event
            /\ pc'[w] \notin {"form", "service"}
        BY <3>4, ScoreEffects
      <4>2. CaseOf(w)' = CaseOf(w)
        BY <1>0 DEF CaseOf
      <4> SUFFICES ASSUME NEW c, NEW r, NEW e,
                          c = CaseOf(w), r = txn[w].row, e = txn[w].event
                   PROVE  Intends(w)'
        OBVIOUS
      <4>3. r # None => Legal(c, r, e)'
        BY <1>0, <2>1, LegalStays DEF Intends
      <4> QED
        BY <4>1, <4>2, <4>3, WrittenIntends
    <3> QED
      BY <3>1, <3>2, <3>3, <3>4
  <2>4. \A c \in Case : \A t \in overtaken'[c] : t <= clock'[c]
    <3> SUFFICES ASSUME NEW c \in Case, NEW t \in overtaken[c]
                 PROVE  t <= clock'[c]
      BY <2>1
    <3>1. t \in Nat /\ t <= clock[c] /\ clock[c] \in Nat /\ clock[c] <= clock'[c]
      BY <1>0 DEF IntentInv
    <3>2. clock'[c] \in Nat
      BY DEF TypeInv, TypeOK
    <3> QED
      BY <3>1, <3>2
  <2> QED
    BY <1>0, <2>2, <2>3, <2>4 DEF IntentInv, Reported
<1>2. CASE UpdateCase(w)
  <2>1. /\ CaseRowFree(w) /\ Ticked(CaseOf(w))
        /\ \A c \in Case : c # CaseOf(w) => overtaken'[c] = overtaken[c]
        /\ overtaken'[CaseOf(w)] \subseteq overtaken[CaseOf(w)] \cup {clock[CaseOf(w)] + 1}
    BY <1>0, <1>2 DEF UpdateCase, Tick
  <2>2. ASSUME NEW v \in Worker, v # w
        PROVE  Intends(v)'
    <3>1. txn[v].row # None => CaseOf(v) \in Case /\ CaseOf(v) # CaseOf(w)
      <4> SUFFICES ASSUME txn[v].row # None
                   PROVE  CaseOf(v) \in Case /\ CaseOf(v) # CaseOf(w)
        OBVIOUS
      <4>1. CaseOf(v) \in Case
        BY WritersWork, Serving
      <4>2. caseLock[CaseOf(v)] = v
        BY DEF CaseAuditInv, CaseRowInv, CaseRowOf, CaseOf
      <4> QED
        BY <2>1, <4>1, <4>2, NoneAssumption DEF CaseRowFree
    <3> QED
      BY <1>0, <2>1, <2>2, <3>1, OthersIntend DEF Works, IntentInv
  <2>3. Intends(w)'
    BY <1>2, UpdateIntends
  <2>4. \A c \in Case : \A t \in overtaken'[c] : t <= clock'[c]
    <3> SUFFICES ASSUME NEW c \in Case, NEW t \in overtaken'[c]
                 PROVE  t <= clock'[c]
      OBVIOUS
    <3>1. clock[c] \in Nat
      BY <1>0
    <3>2. CASE t \in overtaken[c]
      <4>1. t \in Nat /\ t <= clock[c] /\ clock[c] <= clock'[c]
        BY <1>0, <3>2 DEF IntentInv
      <4>2. clock'[c] \in Nat
        BY <1>0, <2>1 DEF Ticked, Tick
      <4> QED
        BY <3>1, <4>1, <4>2
    <3>3. CASE t \notin overtaken[c]
      <4>1. c = CaseOf(w) /\ t = clock[c] + 1
        BY <2>1, <3>3
      <4>2. clock'[c] = clock[c] + 1
        BY <1>0, <2>1, <4>1 DEF Ticked, Tick
      <4> QED
        BY <3>1, <4>1, <4>2
    <3> QED
      BY <3>2, <3>3
  <2> QED
    BY <1>0, <2>2, <2>3, <2>4 DEF IntentInv, Reported
<1> QED
  BY <1>1, <1>2

\* What a commit does to the row and the log of its case
LEMMA CommitMoves ==
  ASSUME TypeInv, CaseAuditInv, IntentInv, NEW w \in Worker, Commit(w)
  PROVE  /\ CaseOf(w) \in Case /\ overtaken' = overtaken /\ clock' = clock
         /\ \A c \in Case : c # CaseOf(w) => row'[c] = row[c] /\ history'[c] = history[c]
         /\ \/ /\ txn[w].row = None /\ txn[w].event = None
               /\ row' = row /\ history' = history
            \/ /\ txn[w].row \in Row /\ txn[w].event \in StatusEvent
               /\ MovesTo(CaseOf(w), txn[w].row, txn[w].event)
<1> DEFINE c == CaseOf(w)
           t == txn[w]
<1>1. /\ pc[w] # "idle" /\ c \in Case /\ t \in Txn /\ c = req[w].case
  BY Serving DEF Commit, CaseOf
<1>2. /\ row' = [row EXCEPT ![c] = IF t.row = None THEN row[c] ELSE t.row]
      /\ history' = [history EXCEPT ![c] = Added(history[c], t.event)]
      /\ overtaken' = overtaken /\ clock' = clock
  BY DEF Commit, Release
<1>3. t.row = None <=> t.event = None
  BY DEF CaseAuditInv, CaseRowInv, CaseRowOf
<1>4. \A k \in Case : k # c => row'[k] = row[k] /\ history'[k] = history[k]
  BY <1>2 DEF TypeInv, TypeOK
<1>5. CASE t.row = None
  <2>1. row' = row /\ history' = history
    BY <1>1, <1>2, <1>3, <1>5 DEF Added, TypeInv, TypeOK
  <2> QED
    BY <1>1, <1>2, <1>3, <1>4, <1>5, <2>1
<1>6. CASE t.row # None
  <2>1. t.row \in Row /\ t.event \in StatusEvent
    BY <1>1, <1>3, <1>6 DEF Txn
  <2>2. \A f \in history[c] : f.at < t.event.at
    BY <1>1, <1>3, <1>6 DEF CaseAuditInv, CaseRowInv, CaseRowOf
  <2>3. Legal(c, t.row, t.event)
    BY <1>6 DEF IntentInv, Intends
  <2>4. MovesTo(c, t.row, t.event)
    BY <1>2, <1>3, <1>6, <2>2, <2>3 DEF MovesTo, Added
  <2> QED
    BY <1>1, <1>2, <1>4, <2>1, <2>4
<1> QED
  BY <1>5, <1>6

\* The row a move leaves says what events report
LEMMA MoveReports ==
  ASSUME TypeInv, NEW c \in Case, NEW r \in Row, NEW e \in StatusEvent, MovesTo(c, r, e),
         row[c] # None => Reported(c, row[c])
  PROVE  Reported(c, r)'
<1>1. history'[c] = history[c] \cup {e}
  BY DEF MovesTo, TypeInv, TypeOK
<1>2. CASE Creates(c, r, e)
  BY <1>1, <1>2 DEF Creates, NewRow, CreatedEvent, Reported
<1>3. CASE MovesOn(c, r, e)
  <2>1. e.to = r.status /\ e.toPriority = r.priority
    BY <1>3 DEF MovesOn
  <2> QED
    BY <1>1, <2>1 DEF Reported
<1>4. CASE Overtakes(c, r, e)
  <2>1. PICK g \in history[c] :
          /\ e.to = r.status
          /\ \/ r.priority = e.toPriority
             \/ e.toPriority = g.toPriority /\ r.priority = row[c].priority
    BY <1>4 DEF Overtakes
  <2>2. row[c] # None /\ Reported(c, row[c])
    BY <1>4 DEF Overtakes
  <2> QED
    BY <1>1, <2>1, <2>2 DEF Reported
<1> QED
  BY <1>2, <1>3, <1>4 DEF MovesTo, Legal

LEMMA IntentEnd ==
  ASSUME TypeInv, CaseAuditInv, IntentInv, NEW w \in Worker, pc[w] # "idle",
         Rollback(w) \/ Commit(w)
  PROVE  IntentInv'
<1>0. /\ txn'[w] = EmptyTxn /\ pc'[w] = "idle"
      /\ \A v \in Worker : v # w => /\ txn'[v] = txn[v] /\ pc'[v] = pc[v]
                                    /\ req'[v] = req[v] /\ held'[v] = held[v]
  BY DEF Rollback, Commit, Release, TypeInv, TypeOK
<1>1. CASE Rollback(w)
  <2>1. UNCHANGED <<row, history, overtaken, clock>>
    BY <1>1 DEF Rollback, Release, tables, records
  <2>2. \A v \in Worker : v # w => Intends(v)'
    BY <1>0, <2>1, OthersIntend DEF IntentInv
  <2> QED
    BY <1>0, <2>1, <2>2, IdleIntends DEF IntentInv, Reported
<1>2. CASE Commit(w)
  <2>1. /\ CaseOf(w) \in Case /\ overtaken' = overtaken /\ clock' = clock
        /\ \A c \in Case : c # CaseOf(w) => row'[c] = row[c] /\ history'[c] = history[c]
        /\ \/ /\ txn[w].row = None /\ row' = row /\ history' = history
           \/ /\ txn[w].row \in Row /\ txn[w].event \in StatusEvent
              /\ MovesTo(CaseOf(w), txn[w].row, txn[w].event)
    BY <1>2, CommitMoves
  <2>2. history[CaseOf(w)] \subseteq history'[CaseOf(w)]
    BY <2>1 DEF MovesTo, TypeInv, TypeOK
  <2>3. ASSUME NEW v \in Worker, v # w
        PROVE  Intends(v)'
    <3>1. pc[v] # "idle" => CaseOf(v) \in Case
      BY Serving
    <3>2. txn[v].row # None => pc[v] # "idle"
      BY WritersWork
    <3>3. txn[v].row # None /\ txn[w].row # None => CaseOf(v) # CaseOf(w)
      BY <2>3, RowWriterAlone
    <3>4. ASSUME txn[v].row # None
          PROVE  row'[CaseOf(v)] = row[CaseOf(v)] /\ history'[CaseOf(v)] = history[CaseOf(v)]
      <4>1. CASE txn[w].row = None
        BY <2>1, <4>1, NoneAssumption
      <4>2. CASE txn[w].row # None
        BY <2>1, <3>1, <3>2, <3>3, <3>4, <4>2
      <4> QED
        BY <4>1, <4>2
    <3>5. pc[v] # "idle" => history[CaseOf(v)] \subseteq history'[CaseOf(v)]
      BY <2>1, <2>2, <3>1
    <3> QED
      BY <1>0, <2>1, <2>3, <3>4, <3>5, OthersIntend DEF IntentInv
  <2>4. ASSUME NEW c \in Case, row'[c] # None
        PROVE  Reported(c, row[c])'
    <3>1. CASE row'[c] = row[c] /\ history'[c] = history[c]
      BY <2>4, <3>1 DEF IntentInv, Reported
    <3>2. CASE ~(row'[c] = row[c] /\ history'[c] = history[c])
      <4>1. c = CaseOf(w) /\ MovesTo(c, txn[w].row, txn[w].event)
            /\ txn[w].row \in Row /\ txn[w].event \in StatusEvent
        BY <2>1, <3>2
      <4>2. row'[c] = txn[w].row
        BY <4>1 DEF MovesTo, TypeInv, TypeOK
      <4>3. PICK r \in Row, e \in StatusEvent : MovesTo(c, r, e) /\ r = row'[c]
        BY <4>1, <4>2
      <4>4. Reported(c, r)'
        BY <4>3, MoveReports DEF IntentInv
      <4> QED
        BY <4>3, <4>4 DEF Reported
    <3> QED
      BY <3>1, <3>2
  <2> QED
    BY <1>0, <2>1, <2>3, <2>4, IdleIntends DEF IntentInv
<1> QED
  BY <1>1, <1>2

LEMMA IntentPreserved ==
  TypeInv /\ CaseAuditInv /\ IntentInv /\ [Next]_vars => IntentInv'
<1> SUFFICES ASSUME TypeInv, CaseAuditInv, IntentInv, [Next]_vars
             PROVE  IntentInv'
  OBVIOUS
<1>1. ASSUME NEW w \in Worker, Start(w)
      PROVE  IntentInv'
  <2>1. PICK r, next : Starts(w, r, next)
    BY <1>1, StartForms
  <2>2. /\ UNCHANGED <<txn, row, history, overtaken, clock>>
        /\ pc[w] = "idle" /\ txn[w] = EmptyTxn /\ pc'[w] = next
        /\ req'[w] = r /\ held'[w] = row[r.case]
        /\ \A v \in Worker : v # w => /\ pc'[v] = pc[v] /\ req'[v] = req[v]
                                      /\ held'[v] = held[v]
    BY <2>1 DEF Starts, Arrive, tables, records, TypeInv, TypeOK, RequestInv
  <2>3. Intends(w)'
    <3>1. req'[w] \in Request \/ next = "insert"
      <4>1. TypeInv'
        BY TypePreserved
      <4>2. req'[w] # None
        BY <2>1, <2>2, <4>1 DEF Starts, TypeInv, RequestInv
      <4> QED
        BY <4>1, <4>2 DEF TypeInv, TypeOK
    <3>2. next \in {"form", "service"} => r.case \in Case /\ row[r.case] # None
      BY <2>1, <2>2, <3>1 DEF Starts, Request
    <3> QED
      BY <2>2, <3>2 DEF Intends, IntentInv, Reported, CaseOf, EmptyTxn
  <2>4. \A v \in Worker : v # w => Intends(v)'
    BY <2>2, OthersIntend DEF IntentInv
  <2> QED
    BY <2>2, <2>3, <2>4 DEF IntentInv, Reported
<1>2. ASSUME NEW w \in Worker, Step(w)
      PROVE  IntentInv'
  BY <1>2, TypePreserved, StepKinds, IntentWork, IntentEnd
<1>3. ASSUME NEW w \in Worker, Crash(w)
      PROVE  IntentInv'
  BY <1>3, IntentEnd DEF Crash
<1>4. CASE UNCHANGED vars
  <2>1. UNCHANGED <<row, history, overtaken, clock, pc, req, held, txn>>
    BY <1>4 DEF vars, tables, records
  <2>2. \A v \in Worker : Intends(v)'
    BY <2>1, OthersIntend DEF IntentInv
  <2> QED
    BY <2>1, <2>2 DEF IntentInv, Reported
<1> QED
  BY <1>1, <1>2, <1>3, <1>4 DEF Next, Drained

--------------------------------------------------------------------------------
(* A step moves one case, or none *)

LEMMA CaseSteps ==
  TypeInv /\ CaseAuditInv /\ IntentInv /\ [Next]_vars => NoMove \/ OneMove
<1> SUFFICES ASSUME TypeInv, CaseAuditInv, IntentInv, [Next]_vars
             PROVE  NoMove \/ OneMove
  OBVIOUS
<1>1. ASSUME UNCHANGED <<row, history, overtaken>>
      PROVE  NoMove
  BY <1>1 DEF NoMove
<1>2. ASSUME NEW w \in Worker, Start(w)
      PROVE  NoMove
  BY <1>1, <1>2, StartForms DEF Starts, Arrive, tables, records
<1>3. ASSUME NEW w \in Worker, Rollback(w)
      PROVE  NoMove
  BY <1>1, <1>3 DEF Rollback, tables, records
<1>4. ASSUME NEW w \in Worker, Commit(w)
      PROVE  NoMove \/ OneMove
  BY <1>1, <1>4, CommitMoves DEF OneMove
<1>5. ASSUME NEW w \in Worker, UpdateCase(w)
      PROVE  NoMove
  <2>1. /\ CaseOf(w) \in Case /\ UNCHANGED <<row, history>>
        /\ \/ overtaken' = overtaken
           \/ overtaken' = [overtaken EXCEPT ![CaseOf(w)] = @ \cup {clock[CaseOf(w)] + 1}]
    BY <1>5, Serving DEF UpdateCase, Tick, tables
  <2> SUFFICES ASSUME overtaken' = [overtaken EXCEPT ![CaseOf(w)] =
                                      overtaken[CaseOf(w)] \cup {clock[CaseOf(w)] + 1}],
                      NEW c \in Case
               PROVE  /\ overtaken[c] \subseteq overtaken'[c]
                      /\ \A e \in history[c] : e.at \in overtaken'[c] => e.at \in overtaken[c]
    BY <1>1, <2>1 DEF NoMove
  <2>2. \A e \in history[c] : e.at \in Nat /\ e.at <= clock[c]
    BY DEF CaseAuditInv, CaseRowInv, TypeInv, TypeOK, StatusEvent
  <2>3. clock[c] \in Nat /\ overtaken \in [Case -> SUBSET Nat]
    BY DEF TypeInv, TypeOK
  <2>4. CASE c = CaseOf(w)
    <3>1. overtaken'[c] = overtaken[c] \cup {clock[c] + 1}
      BY <2>1, <2>3, <2>4
    <3> QED
      BY <2>2, <2>3, <3>1
  <2>5. CASE c # CaseOf(w)
    BY <2>3, <2>5
  <2> QED
    BY <2>4, <2>5
<1>6. ASSUME NEW w \in Worker, Works(w), Inner(w), ~UpdateCase(w)
      PROVE  NoMove
  <2>1. overtaken' = overtaken
    BY <1>6, ScoreEffects DEF Inner, ReloadCase, NoteOnlyResponse, InsertCase, AddNote,
       InsertDocument, records
  <2> QED
    BY <1>1, <1>6, <2>1 DEF Works, tables
<1>7. ASSUME NEW w \in Worker, Step(w)
      PROVE  NoMove \/ OneMove
  BY <1>3, <1>4, <1>5, <1>6, <1>7, StepKinds
<1>8. CASE UNCHANGED vars
  BY <1>1, <1>8 DEF vars, tables, records
<1> QED
  BY <1>2, <1>3, <1>7, <1>8 DEF Next, Drained, Crash

--------------------------------------------------------------------------------
(* The chain of status events *)

\* What follows the latest event starts from the row, or is recorded
LEMMA MoveChains ==
  ASSUME TypeInv, CaseAuditInv, CaseInv, NEW c \in Case, NEW r \in Row,
         NEW n \in StatusEvent, MovesTo(c, r, n)
  PROVE  CaseInv'
<1>1. /\ row' = [row EXCEPT ![c] = r]
      /\ history' = [history EXCEPT ![c] = history[c] \cup {n}]
      /\ overtaken' = overtaken
      /\ \A f \in history[c] : f.at < n.at
  BY DEF MovesTo
<1>2. /\ row \in [Case -> Row \cup {None}] /\ history \in [Case -> SUBSET StatusEvent]
      /\ r # None
  BY NoneAssumption DEF TypeInv, TypeOK
<1>3. \A k \in Case : row'[k] = None => history'[k] = {}
  <2> SUFFICES ASSUME NEW k \in Case, row'[k] = None
               PROVE  history'[k] = {}
    OBVIOUS
  <2>1. k # c /\ row'[k] = row[k] /\ history'[k] = history[k]
    BY <1>1, <1>2
  <2> QED
    BY <2>1 DEF CaseInv
<1>4. ASSUME NEW k \in Case, NEW e \in history'[k], NEW f \in history'[k],
             Follows(f, e, history'[k]), f.at \notin overtaken[k]
      PROVE  /\ f.from = e.to
             /\ e.at \in overtaken[k] \/ f.fromPriority = e.toPriority
  <2>1. history'[k] = IF k = c THEN history[c] \cup {n} ELSE history[k]
    BY <1>1, <1>2
  <2>2. CASE e \in history[k] /\ f \in history[k]
    <3>1. history[k] \subseteq history'[k]
      BY <2>1
    <3>2. Follows(f, e, history[k])
      BY <1>4, <2>2, <3>1 DEF Follows
    <3> QED
      BY <1>4, <2>2, <3>2 DEF CaseInv, AuditChain
  <2>3. CASE e \notin history[k]
    <3>1. k = c /\ e = n /\ e.at < f.at /\ f \in history[c] \cup {n}
      BY <1>4, <2>1, <2>3 DEF Follows
    <3>2. f.at < n.at \/ f.at = n.at
      BY <1>1, <3>1
    <3>3. n.at \in Nat /\ f.at \in Nat
      BY <1>2, <3>1 DEF StatusEvent
    <3> QED
      BY <3>1, <3>2, <3>3
  <2>4. CASE e \in history[k] /\ f \notin history[k]
    <3>1. k = c /\ f = n /\ history'[k] = history[c] \cup {n}
      BY <2>1, <2>4
    <3>2. \A g \in history[c] : g.at \in Nat /\ g.at < n.at
      BY <1>1, <1>2 DEF StatusEvent
    <3>3. n.at \in Nat
      BY DEF StatusEvent
    <3>4. \A g \in history[c] : g.at <= e.at
      BY <1>4, <3>1, <3>2, <3>3 DEF Follows
    <3>5. Latest(e, history[c])
      BY <2>4, <3>1, <3>4 DEF Latest
    <3>6. /\ row[c].status = e.to
          /\ e.at \in overtaken[c] \/ row[c].priority = e.toPriority
      BY <3>5, <2>4, <3>1 DEF CaseAuditInv, RowMatchesAudit
    <3>7. row[c] # None
      BY <2>4, <3>1 DEF CaseInv
    <3>8. MovesOn(c, r, n)
      BY <1>1, <1>4, <3>1, <3>7 DEF MovesTo, Legal, Creates, Overtakes
    <3>9. n.from = row[c].status /\ n.fromPriority = row[c].priority
      BY <3>8 DEF MovesOn
    <3> QED
      BY <3>1, <3>6, <3>9
  <2> QED
    BY <2>2, <2>3, <2>4
<1>5. AuditChain'
  BY <1>1, <1>4 DEF AuditChain
<1> QED
  BY <1>3, <1>5 DEF CaseInv

LEMMA CasePreserved ==
  TypeInv /\ CaseAuditInv /\ IntentInv /\ CaseInv /\ [Next]_vars => CaseInv'
<1> SUFFICES ASSUME TypeInv, CaseAuditInv, IntentInv, CaseInv, [Next]_vars
             PROVE  CaseInv'
  OBVIOUS
<1>1. CASE NoMove
  BY <1>1 DEF NoMove, CaseInv, AuditChain
<1>2. CASE OneMove
  BY <1>2, MoveChains DEF OneMove
<1> QED
  BY <1>1, <1>2, CaseSteps

\* All that the theorems on the case row rest on
CaseProofInv == TypeInv /\ CaseAuditInv /\ IntentInv /\ CaseInv

LEMMA CaseProofInvHolds == Spec => []CaseProofInv
<1>1. Init => IntentInv /\ CaseInv
  BY DEF Init, IntentInv, Intends, CaseInv, AuditChain, EmptyTxn
<1> QED
  BY <1>1, TypeInitially, CaseAuditInitially, TypePreserved, CaseAuditPreserved,
     IntentPreserved, CasePreserved, PTL DEF Spec, CaseProofInv

\* However requests overlap, each status event of a case starts from the status
\* and the priority the one before left, unless its update was overtaken: decided
\* on an instance that was not the row any more (update_return_case_status).
THEOREM AuditAlwaysChains == Spec => []AuditChain
<1>1. CaseProofInv => AuditChain
  BY DEF CaseProofInv, CaseInv
<1> QED
  BY <1>1, CaseProofInvHolds, PTL

--------------------------------------------------------------------------------
(* Decisions *)

\* What DecisionsHold says of a step
DecisionMoves ==
  \A c \in Case :
    /\ row[c] # None /\ row[c].status \in Terminal
    /\ row'[c].status # row[c].status
    => \E e \in history'[c] \ history[c] : e.at \in overtaken[c]

LEMMA EveryDecisionMove == CaseProofInv /\ [Next]_vars => DecisionMoves
<1> SUFFICES ASSUME CaseProofInv, [Next]_vars, NEW c \in Case,
                    row[c] # None, row[c].status \in Terminal,
                    row'[c].status # row[c].status
             PROVE  \E e \in history'[c] \ history[c] : e.at \in overtaken[c]
  BY DEF DecisionMoves
<1>1. ~NoMove
  BY DEF NoMove
<1>2. PICK k \in Case, r \in Row, e \in StatusEvent : MovesTo(k, r, e)
  BY <1>1, CaseSteps DEF OneMove, CaseProofInv
<1>3. row \in [Case -> Row \cup {None}] /\ history \in [Case -> SUBSET StatusEvent]
  BY DEF CaseProofInv, TypeInv, TypeOK
<1>4. k = c
  BY <1>2, <1>3 DEF MovesTo
<1>5. AllowedTransitions(row[c].status) = {}
  BY DEF Terminal, AllowedTransitions
<1>6. e.at \in overtaken[c]
  BY <1>2, <1>4, <1>5 DEF MovesTo, Legal, Creates, MovesOn, Overtakes
<1>7. e \in history'[c] /\ \A f \in history[c] : f.at < e.at
  BY <1>2, <1>3, <1>4 DEF MovesTo
<1>8. e \notin history[c]
  BY <1>7 DEF StatusEvent
<1> QED
  BY <1>6, <1>7, <1>8

\* Only an update that was overtaken moves an approved or rejected case: of any
\* number of requests in whatever order, none that was decided on the row as it
\* was when the row was written (_ALLOWED_STATUS_TRANSITIONS).
THEOREM DecisionsAlwaysHold == Spec => DecisionsHold
BY CaseProofInvHolds, EveryDecisionMove, PTL DEF Spec, DecisionsHold, DecisionMoves

--------------------------------------------------------------------------------
(* The lifecycle *)

\* The abstract lifecycle has the rules of the services.
LEMMA SameRules ==
  /\ Lifecycle!NewRow = NewRow
  /\ \A at : Lifecycle!CreatedEvent(at) = CreatedEvent(at)
  /\ \A s : Lifecycle!AllowedTransitions(s) = AllowedTransitions(s)
  /\ \A p : Lifecycle!SlaHours(p) = SlaHours(p)
<1>1. \A p : Lifecycle!SlaHours(p) = SlaHours(p)
  BY DEF Lifecycle!SlaHours, Lifecycle!ResolutionHours, SlaHours, ResolutionHours
<1>2. \A s : Lifecycle!AllowedTransitions(s) = AllowedTransitions(s)
  BY DEF Lifecycle!AllowedTransitions, Lifecycle!Status, AllowedTransitions, Status
<1>3. /\ Lifecycle!InitialStatus = InitialStatus
      /\ Lifecycle!InitialPriority = InitialPriority
  BY DEF Lifecycle!InitialStatus, Lifecycle!InitialPriority, InitialStatus, InitialPriority
<1>4. /\ Lifecycle!NewRow = NewRow
      /\ \A at : Lifecycle!CreatedEvent(at) = CreatedEvent(at)
  BY <1>1, <1>3 DEF Lifecycle!NewRow, Lifecycle!CreatedEvent, NewRow, CreatedEvent
<1> QED
  BY <1>1, <1>2, <1>4

LEMMA LifecycleStep ==
  CaseProofInv /\ [Next]_vars => [Lifecycle!Next]_(Lifecycle!vars)
<1> SUFFICES ASSUME CaseProofInv, [Next]_vars
             PROVE  [Lifecycle!Next]_(Lifecycle!vars)
  OBVIOUS
<1>0. /\ row \in [Case -> Row \cup {None}] /\ history \in [Case -> SUBSET StatusEvent]
  BY DEF CaseProofInv, TypeInv, TypeOK
<1>1. CASE NoMove
  <2>1. OvertakenEvents' = OvertakenEvents
    BY <1>1 DEF NoMove, OvertakenEvents
  <2> QED
    BY <1>1, <2>1 DEF NoMove, Lifecycle!vars
<1>2. CASE OneMove
  <2>1. PICK c \in Case, r \in Row, e \in StatusEvent : MovesTo(c, r, e)
    BY <1>2 DEF OneMove
  <2>2. /\ row' = [row EXCEPT ![c] = r]
        /\ history' = [history EXCEPT ![c] = history[c] \cup {e}]
        /\ overtaken' = overtaken
        /\ \A f \in history[c] : f.at < e.at
    BY <2>1 DEF MovesTo
  <2>3. Lifecycle!Logged(c, e) /\ e \in history'[c]
    BY <1>0, <2>2 DEF Lifecycle!Logged
  <2>4. \A k \in Case : history'[k] = IF k = c THEN history[c] \cup {e} ELSE history[k]
    BY <1>0, <2>2
  <2>5. e.at \notin overtaken[c] => OvertakenEvents' = OvertakenEvents
    BY <2>2, <2>4 DEF OvertakenEvents
  <2>6. r.status \in Status /\ r.priority \in Priority /\ e.toPriority \in Priority
        /\ r = [status |-> r.status, priority |-> r.priority, sla |-> r.sla]
    BY DEF Row, StatusEvent
  <2>7. CASE Creates(c, r, e)
    <3>1. Lifecycle!Create(c)
      BY <2>2, <2>3, <2>5, <2>7, SameRules DEF Lifecycle!Create, Creates
    <3> QED
      BY <3>1 DEF Lifecycle!Next
  <2>8. CASE MovesOn(c, r, e)
    <3>1. r = [status |-> r.status, priority |-> r.priority, sla |-> SlaHours(r.priority)]
      BY <2>6, <2>8 DEF MovesOn
    <3>2. Lifecycle!Move(c, r.status, r.priority)
      BY <2>2, <2>3, <2>5, <2>8, <3>1, SameRules DEF Lifecycle!Move, MovesOn
    <3> QED
      BY <2>6, <3>2 DEF Lifecycle!Next, Lifecycle!Status, Lifecycle!Priority,
                             Status, Priority
  <2>9. CASE Overtakes(c, r, e)
    <3>1. OvertakenEvents' = [OvertakenEvents EXCEPT ![c] = OvertakenEvents[c] \cup {e}]
      <4>1. \A k \in Case : {x \in history'[k] : x.at \in overtaken[k]} =
              IF k = c THEN {x \in history[c] : x.at \in overtaken[c]} \cup {e}
              ELSE {x \in history[k] : x.at \in overtaken[k]}
        BY <2>4, <2>9 DEF Overtakes
      <4> QED
        BY <2>2, <4>1 DEF OvertakenEvents
    <3>2. PICK f \in history[c], g \in history[c] :
            /\ r.status \in AllowedTransitions(f.to)
            /\ r.sla = SlaHours(e.toPriority)
            /\ e = [at |-> e.at, from |-> f.to, to |-> r.status,
                    fromPriority |-> g.toPriority, toPriority |-> e.toPriority]
            /\ \/ r.priority = e.toPriority
               \/ e.toPriority = g.toPriority /\ r.priority = row[c].priority
      BY <2>9 DEF Overtakes
    <3>3. r = [status |-> r.status, priority |-> r.priority, sla |-> SlaHours(e.toPriority)]
      BY <2>6, <3>2
    <3>4. \E q \in {e.toPriority} \cup
                    (IF e.toPriority = g.toPriority THEN {row[c].priority} ELSE {}) :
            row' = [row EXCEPT ![c] = [status |-> r.status, priority |-> q,
                                       sla |-> SlaHours(e.toPriority)]]
      BY <2>2, <3>2, <3>3
    <3>5. row[c] # None
      BY <2>9 DEF Overtakes
    <3>6. Lifecycle!Overtake(c, r.status, e.toPriority)
      BY <2>3, <3>1, <3>2, <3>4, <3>5, SameRules DEF Lifecycle!Overtake
    <3> QED
      BY <2>6, <3>6 DEF Lifecycle!Next, Lifecycle!Status, Lifecycle!Priority,
                             Status, Priority
  <2> QED
    BY <2>1, <2>7, <2>8, <2>9 DEF MovesTo, Legal
<1> QED
  BY <1>1, <1>2, CaseSteps DEF CaseProofInv

\* The services implement CaseLifecycle: whatever requests overlap, fail or crash,
\* a case is created submitted and medium and then changes by atomic, logged moves
\* along the transition table only, each from the row as it is or, overtaken, from
\* a status and a priority the case had before.
THEOREM LifecycleAlwaysFollowed == Spec => FollowsLifecycle
<1>1. Init => Lifecycle!Init
  BY DEF Init, Lifecycle!Init, OvertakenEvents
<1> QED
  BY <1>1, CaseProofInvHolds, LifecycleStep, PTL DEF Spec, FollowsLifecycle, Lifecycle!Spec

--------------------------------------------------------------------------------
(* Scores *)

\* The queries whose answers w has in memory
Answered(w) == CASE pc[w] = "first"    -> {"evidence"}
                 [] pc[w] = "merchant" -> {"evidence", "first"}
                 [] pc[w] = "persist"  -> Query
                 [] OTHER              -> {}

\* Unless a document came since it began to read, what w read, and what it has
\* computed from that, is of all documents.
FreshOf(w) ==
  pc[w] # "idle" /\ w \notin late =>
    /\ \A q \in Answered(w) : txn[w].read[q] = Matching(q, VisibleDocs(w))
    /\ txn[w].risk # None => txn[w].risk.features = Features(VisibleDocs(w))

FreshInv == RiskIsFresh /\ \A w \in Worker : FreshOf(w)

\* A request that goes on where it was: no document came, or it is late
LEMMA OthersFresh ==
  ASSUME NEW v \in Worker, FreshOf(v), txn'[v] = txn[v], pc'[v] = pc[v],
         pc[v] # "idle" => req'[v] = req[v],
         pc[v] # "idle" /\ v \notin late' => v \notin late /\ docs'[CaseOf(v)] = docs[CaseOf(v)]
  PROVE  FreshOf(v)'
<1> SUFFICES ASSUME pc[v] # "idle", v \notin late'
             PROVE  FreshOf(v)'
  BY DEF FreshOf
<1>1. VisibleDocs(v)' = VisibleDocs(v) /\ Answered(v)' = Answered(v) /\ v \notin late
  BY DEF VisibleDocs, CaseOf, Answered
<1> QED
  BY <1>1 DEF FreshOf

\* A worker that scores
LEMMA ScoresFresh ==
  ASSUME TypeInv, FreshInv, RiskAuditInv, NEW w \in Worker, Scores(w)
  PROVE  FreshOf(w)'
<1>0. /\ pc \in [Worker -> PC] /\ txn \in [Worker -> Txn] /\ txn[w] \in Txn
      /\ FreshOf(w) /\ pc[w] \in Scoring
      /\ docs' = docs /\ req' = req /\ txn'[w].docs = txn[w].docs
  BY ScoreEffects DEF TypeInv, TypeOK, FreshInv, tables
<1>1. VisibleDocs(w)' = VisibleDocs(w)
  BY <1>0 DEF VisibleDocs, CaseOf
<1>2. pc[w] # "idle" /\ txn[w].read \in Read
  BY <1>0 DEF Scoring, Query, Txn
<1>3. txn[w].risk # None => pc[w] \in {"log", "commit"}
  BY DEF RiskAuditInv, RiskRowInv, RiskRowOf
<1>4. CASE ReadFeature(w)
  <2>1. /\ pc[w] \in Query /\ pc'[w] = AfterQuery[pc[w]]
        /\ txn'[w].read = [txn[w].read EXCEPT ![pc[w]] = Matching(pc[w], VisibleDocs(w))]
        /\ txn'[w].risk = txn[w].risk
        /\ late' = IF pc[w] = "evidence" THEN late \ {w} ELSE late
    BY <1>0, <1>4 DEF ReadFeature, Txn
  <2>2. txn'[w].risk = None
    BY <1>3, <2>1 DEF Query
  <2>3. Answered(w)' = Answered(w) \cup {pc[w]}
    BY <2>1 DEF Answered, AfterQuery, Query
  <2>4. pc[w] = "evidence" => Answered(w) = {}
    BY DEF Answered
  <2>5. Answered(w) \subseteq Query /\ pc[w] \in Query
    BY <2>1 DEF Answered, Query
  <2>6. ASSUME w \notin late', NEW q \in Answered(w)'
        PROVE  txn'[w].read[q] = Matching(q, VisibleDocs(w))
    <3>1. CASE q = pc[w]
      BY <1>2, <2>1, <3>1 DEF Read
    <3>2. CASE q # pc[w]
      <4>1. q \in Answered(w) /\ q \in Query /\ w \notin late
        BY <2>1, <2>3, <2>4, <2>5, <2>6, <3>2
      <4>2. txn[w].read[q] = Matching(q, VisibleDocs(w))
        BY <1>0, <1>2, <4>1 DEF FreshOf
      <4> QED
        BY <1>2, <2>1, <3>2, <4>1, <4>2 DEF Read
    <3> QED
      BY <3>1, <3>2
  <2> QED
    BY <1>1, <2>2, <2>6 DEF FreshOf, Matching
<1>5. CASE PersistRisk(w)
  <2>1. PICK m \in Scorer :
          txn' = [txn EXCEPT ![w].risk = [model |-> m, features |-> txn[w].read]]
    BY <1>5 DEF PersistRisk
  <2>2. txn'[w].risk.features = txn[w].read
    BY <1>0, <2>1 DEF Txn
  <2>3. pc[w] = "persist" /\ pc'[w] = "log" /\ late' = late
    BY <1>0, <1>5 DEF PersistRisk, records
  <2>4. w \notin late => \A q \in Query : txn[w].read[q] = Matching(q, VisibleDocs(w))
    BY <1>0, <1>2, <2>3 DEF FreshOf, Answered
  <2>5. w \notin late => txn[w].read = Features(VisibleDocs(w))
    BY <1>2, <2>4 DEF Features, Read
  <2>6. Answered(w)' = {}
    BY <2>3 DEF Answered
  <2> QED
    BY <1>1, <2>2, <2>3, <2>5, <2>6 DEF FreshOf
<1>6. CASE LogRisk(w)
  <2>1. /\ txn'[w].risk = txn[w].risk /\ pc'[w] = "commit" /\ late' = late
    BY <1>0, <1>6 DEF LogRisk, Txn, records
  <2>2. Answered(w)' = {}
    BY <2>1 DEF Answered
  <2> QED
    BY <1>0, <1>1, <1>2, <2>1, <2>2 DEF FreshOf
<1>7. CASE RescoreSwallowed(w)
  <2>1. txn'[w].risk = None /\ pc'[w] = "commit"
    BY <1>0, <1>7 DEF RescoreSwallowed, AfterSwallow, Txn
  <2>2. Answered(w)' = {}
    BY <2>1 DEF Answered
  <2> QED
    BY <2>1, <2>2 DEF FreshOf
<1> QED
  BY <1>4, <1>5, <1>6, <1>7 DEF Scores

LEMMA FreshWork ==
  ASSUME TypeInv, FreshInv, RiskAuditInv, NEW w \in Worker, Works(w), Inner(w)
  PROVE  FreshInv'
<1>1. RiskIsFresh'
  BY DEF Works, tables, FreshInv, RiskIsFresh
<1>2. ASSUME NEW v \in Worker, v # w
      PROVE  FreshOf(v)'
  <2>1. v \notin late' => v \notin late
    <3>1. CASE ~Scores(w)
      BY <3>1, BeforeScoring
    <3>2. CASE Scores(w)
      BY <1>2, <3>2 DEF Scores, ReadFeature, PersistRisk, LogRisk, RescoreSwallowed, records
    <3> QED
      BY <3>1, <3>2
  <2> QED
    BY <1>2, <2>1, OthersFresh DEF Works, tables, FreshInv
<1>3. FreshOf(w)'
  <2>1. CASE ~Scores(w)
    <3>1. /\ txn'[w].risk = None /\ pc'[w] \in {"service", "evidence", "commit"}
      BY <2>1, BeforeScoring
    <3>2. Answered(w)' = {}
      BY <3>1 DEF Answered
    <3> QED
      BY <3>1, <3>2 DEF FreshOf
  <2>2. CASE Scores(w)
    BY <2>2, ScoresFresh
  <2> QED
    BY <2>1, <2>2
<1> QED
  BY <1>1, <1>2, <1>3 DEF FreshInv

\* The score a commit installs is of the documents there are now, or is marked.
LEMMA CommitFresh ==
  ASSUME TypeInv, CreationInv, RiskAuditInv, FreshInv, NEW w \in Worker, Commit(w)
  PROVE  RiskIsFresh'
<1> DEFINE c == CaseOf(w)
           t == txn[w]
<1>0. /\ pc[w] = "commit" /\ c \in Case /\ t \in Txn
      /\ row \in [Case -> Row \cup {None}] /\ docs \in [Case -> SUBSET Document]
      /\ risk \in [Case -> RiskRow \cup {None}]
  BY Serving DEF Commit, TypeInv, TypeOK
<1>1. /\ \A k \in Case : k # c => row'[k] = row[k] /\ docs'[k] = docs[k] /\ risk'[k] = risk[k]
      /\ docs'[c] = docs[c] \cup t.docs
      /\ risk'[c] = IF t.risk = None THEN risk[c] ELSE t.risk
      /\ row'[c] = IF t.row = None THEN row[c] ELSE t.row
  BY <1>0 DEF Commit
<1>2. outdated' = IF t.risk # None /\ w \notin late THEN outdated \ {c}
                  ELSE IF t.risk # None \/ t.docs # {} THEN outdated \cup {c}
                  ELSE outdated
  BY DEF Commit
<1> SUFFICES ASSUME NEW k \in Case, row'[k] # None, k \notin outdated'
             PROVE  risk'[k].features = Features(docs'[k])
  BY DEF RiskIsFresh, Features, Matching
<1>3. CASE k # c
  <2>1. k \notin outdated /\ row[k] # None
    BY <1>1, <1>2, <1>3
  <2> QED
    BY <1>1, <1>3, <2>1 DEF FreshInv, RiskIsFresh
<1>4. CASE k = c /\ t.risk # None
  <2>1. w \notin late
    BY <1>2, <1>4
  <2>2. t.risk.features = Features(docs[c] \cup t.docs)
    BY <1>0, <1>4, <2>1 DEF FreshInv, FreshOf, VisibleDocs
  <2> QED
    BY <1>1, <1>4, <2>2
<1>5. CASE k = c /\ t.risk = None
  <2>1. t.docs = {} /\ c \notin outdated
    BY <1>2, <1>5
  <2>2. row[c] # None
    <3>1. pc[w] = "commit" /\ req[w].kind = "create" => t.risk # None
      BY DEF CreationInv, CreationOf
    <3>2. pc[w] # "idle" /\ req[w].kind # "create" => row[c] # None
      BY DEF CreationInv, CreationOf
    <3> QED
      BY <1>0, <1>5, <3>1, <3>2
  <2>3. docs'[c] = docs[c] /\ risk'[c] = risk[c]
    BY <1>1, <1>5, <2>1
  <2> QED
    BY <1>5, <2>1, <2>2, <2>3 DEF FreshInv, RiskIsFresh
<1> QED
  BY <1>3, <1>4, <1>5

LEMMA FreshEnd ==
  ASSUME TypeInv, CreationInv, RiskAuditInv, FreshInv, NEW w \in Worker, pc[w] # "idle",
         Rollback(w) \/ Commit(w)
  PROVE  FreshInv'
<1>0. /\ pc'[w] = "idle"
      /\ \A v \in Worker : v # w => txn'[v] = txn[v] /\ pc'[v] = pc[v] /\ req'[v] = req[v]
  BY DEF Rollback, Commit, Release, TypeInv, TypeOK
<1>1. FreshOf(w)'
  BY <1>0 DEF FreshOf
<1>2. CASE Rollback(w)
  <2>1. UNCHANGED <<row, docs, risk, late, outdated>>
    BY <1>2 DEF Rollback, tables, records
  <2>2. RiskIsFresh'
    BY <2>1 DEF FreshInv, RiskIsFresh
  <2>3. \A v \in Worker : v # w => FreshOf(v)'
    BY <1>0, <2>1, OthersFresh DEF FreshInv
  <2> QED
    BY <1>1, <2>2, <2>3 DEF FreshInv
<1>3. CASE Commit(w)
  <2>1. RiskIsFresh'
    BY <1>3, CommitFresh
  <2>2. ASSUME NEW v \in Worker, v # w
        PROVE  FreshOf(v)'
    <3>1. late' = IF txn[w].docs = {} THEN late ELSE late \cup OthersAt(CaseOf(w), w)
      BY <1>3 DEF Commit
    <3>2. pc[v] # "idle" => CaseOf(v) \in Case
      BY Serving
    <3>3. docs' = [docs EXCEPT ![CaseOf(w)] = docs[CaseOf(w)] \cup txn[w].docs]
      BY <1>3 DEF Commit
    <3>4. docs \in [Case -> SUBSET Document]
      BY DEF TypeInv, TypeOK
    <3>5. pc[v] # "idle" /\ v \notin late' =>
            v \notin late /\ docs'[CaseOf(v)] = docs[CaseOf(v)]
      BY <2>2, <3>1, <3>2, <3>3, <3>4 DEF OthersAt
    <3> QED
      BY <1>0, <2>2, <3>5, OthersFresh DEF FreshInv
  <2> QED
    BY <1>1, <2>1, <2>2 DEF FreshInv
<1> QED
  BY <1>2, <1>3

LEMMA FreshPreserved ==
  TypeInv /\ CreationInv /\ RiskAuditInv /\ FreshInv /\ [Next]_vars => FreshInv'
<1> SUFFICES ASSUME TypeInv, CreationInv, RiskAuditInv, FreshInv, [Next]_vars
             PROVE  FreshInv'
  OBVIOUS
<1>1. ASSUME NEW w \in Worker, Start(w)
      PROVE  FreshInv'
  <2> PICK r, next : Starts(w, r, next)
    BY <1>1, StartForms
  <2>1. /\ UNCHANGED <<row, docs, risk, outdated, late, txn>> /\ pc[w] = "idle"
        /\ pc'[w] \in {"insert", "form", "service"}
        /\ \A v \in Worker : v # w => pc'[v] = pc[v] /\ req'[v] = req[v]
    BY DEF Starts, Arrive, tables, records, TypeInv, TypeOK
  <2>2. txn'[w].risk = None
    BY <2>1 DEF TypeInv, RequestInv, EmptyTxn
  <2>3. Answered(w)' = {}
    BY <2>1 DEF Answered
  <2>4. FreshOf(w)'
    BY <2>2, <2>3 DEF FreshOf
  <2>5. \A v \in Worker : v # w => FreshOf(v)'
    BY <2>1, OthersFresh DEF FreshInv
  <2> QED
    BY <2>1, <2>4, <2>5 DEF FreshInv, RiskIsFresh
<1>2. ASSUME NEW w \in Worker, Step(w)
      PROVE  FreshInv'
  BY <1>2, StepKinds, FreshWork, FreshEnd
<1>3. ASSUME NEW w \in Worker, Crash(w)
      PROVE  FreshInv'
  BY <1>3, FreshEnd DEF Crash
<1>4. CASE UNCHANGED vars
  <2>1. UNCHANGED <<row, docs, risk, outdated, late, txn, pc, req>>
    BY <1>4 DEF vars, tables, records
  <2>2. \A v \in Worker : FreshOf(v)'
    BY <2>1, OthersFresh DEF FreshInv
  <2> QED
    BY <2>1, <2>2 DEF FreshInv, RiskIsFresh
<1> QED
  BY <1>1, <1>2, <1>3, <1>4 DEF Next, Drained

\* However uploads, updates and their rescorings overlap and fail, the stored
\* score of a case is of all its documents, unless a rescoring failed since or it
\* was stored by a worker that had begun to read before a document of another
\* request was committed (upload_document_for_case, score_case_and_persist).
THEOREM RiskAlwaysFresh == Spec => []RiskIsFresh
<1>1. Init => FreshInv
  BY DEF Init, FreshInv, FreshOf, RiskIsFresh
<1>2. Spec => [](TypeInv /\ CreationInv /\ RiskAuditInv /\ FreshInv)
  BY <1>1, TypeInitially, TypePreserved, CreationInitially, CreationPreserved, RiskInitially,
     RiskAuditPreserved, FreshPreserved, PTL DEF Spec
<1>3. FreshInv => RiskIsFresh
  BY DEF FreshInv
<1> QED
  BY <1>2, <1>3, PTL
================================================================================

-------------------------------- MODULE OpsQueue --------------------------------
(***************************************************************************)
(* The operations queue: an operator pages through the filtered, ordered     *)
(* cases while requests change them and time passes.                         *)
(*                                                                          *)
(* One listing is several queries, none of them in a transaction: the count   *)
(* for the paginator, the rows of the page, then the total and the counts    *)
(* per status of the summary.  The time against which a breach is judged is   *)
(* taken once, before the first.                                             *)
(***************************************************************************)
EXTENDS CaseRules, FiniteSets, SequencesExt

CONSTANTS
  CaseId,        \* primary keys
  PageSize,      \* QUEUE_PAGE_SIZE, page_size
  Time,          \* bound: the times at which cases are due, and now
  QueueRow,      \* bound: what a listing may find in a case and its RiskScore
  Filter,        \* bound: the query parameters given
  RawPage        \* bound: the page parameters given, None if not an integer

RiskLabel == {"low", "medium", "high"}

ASSUME QueueAssumption ==
  /\ CaseId \subseteq Nat /\ IsFiniteSet(CaseId) /\ Time \subseteq Nat
  /\ PageSize \in Nat \ {0}
  /\ QueueRow \subseteq [status : Status, priority : Priority,
                         label : RiskLabel \cup {None}, due : Nat, created : Nat]
  /\ None \notin QueueRow
  /\ RawPage \subseteq Int \cup {None}

VARIABLES
  table,  \* the case of each primary key, None where there is none
  now,    \* the time
  filter, \* the query parameters of the listing
  at,     \* the query that comes next
  asOf,   \* current_time of build_queue_queryset
  page,   \* the page asked for, and once resolved the page answered
  count,  \* the paginator's count
  rows,   \* primary keys of the page's rows
  total,  \* total of the summary
  counts, \* counts of the summary, per status
  stable, \* has nothing changed since the listing began?
  shown   \* the pages shown since filter, cases or time changed last

reader == <<filter, at, asOf, page, count, rows, total, counts>>
vars   == <<table, now, reader, stable, shown>>

--------------------------------------------------------------------------------
(* parse_queue_filters, build_queue_queryset *)

\* An unknown risk_label is dropped; an unknown status or priority is not
Parsed(f) == [f EXCEPT !.label = IF @ \in RiskLabel THEN @ ELSE None]

Selects(wanted, value) == wanted = None \/ wanted = value

\* The cases of the filtered queryset
Selected ==
  LET f == Parsed(filter)
  IN  {c \in CaseId : /\ table[c] # None
                      /\ Selects(f.status, table[c].status)
                      /\ Selects(f.priority, table[c].priority)
                      /\ Selects(f.label, table[c].label)}

Active == {"submitted", "waiting_customer", "waiting_merchant", "in_review"}

BreachedRank(c) ==
  IF table[c].due < asOf /\ table[c].status \in Active THEN 1 ELSE 0

\* faulty: medium, the default priority, is left to the default of the CASE
PriorityRank_Fault(c) ==
  CASE table[c].priority = "urgent" -> 4
    [] table[c].priority = "high"   -> 3
    [] table[c].priority = "low"    -> 1
    [] OTHER                        -> 0

PriorityRank(c) == [urgent |-> 4, high |-> 3, medium |-> 2, low |-> 1][table[c].priority]

\* faulty: no tie-breaker
SortKey_Fault(c) ==
  <<-BreachedRank(c), -PriorityRank(c), table[c].due, table[c].created>>

\* order_by
SortKey(c) ==
  <<-BreachedRank(c), -PriorityRank(c), table[c].due, table[c].created, c>>

\* Key k sorts before key l: at the first place where they differ
KeyLess(k, l) ==
  \E i \in DOMAIN k : k[i] < l[i] /\ \A j \in 1..(i - 1) : k[j] = l[j]

\* The orders in which the database may return the queryset: any that respects
\* the keys
QueueOrders ==
  {o \in SetToSeqs(Selected) :
     \A i, j \in DOMAIN o : i < j => ~KeyLess(SortKey(o[j]), SortKey(o[i]))}

--------------------------------------------------------------------------------
(* ContractPageNumberPagination, paginate_queryset *)

NumPages(n) == IF n = 0 THEN 1 ELSE (n + PageSize - 1) \div PageSize

\* faulty: no upper bound
ResolvedPage_Fault(raw, n) == IF raw = None \/ raw <= 0 THEN 1 ELSE raw

ResolvedPage(raw, n) ==
  IF raw = None \/ raw <= 0 THEN 1
  ELSE IF raw > NumPages(n) THEN NumPages(n) ELSE raw

\* faulty: no end of the slice
PageOf_Fault(order, p, n) == SubSeq(order, (p - 1) * PageSize + 1, Len(order))

\* Paginator.page: the slice ends at the count made before, if that comes first
PageOf(order, p, n) ==
  SubSeq(order, (p - 1) * PageSize + 1,
         CHOOSE last \in {p * PageSize, n, Len(order)} :
           last <= p * PageSize /\ last <= n /\ last <= Len(order))

--------------------------------------------------------------------------------
Init ==
  /\ table \in [CaseId -> QueueRow \cup {None}]
  /\ now \in Time
  /\ filter \in Filter
  /\ at = "idle"
  /\ asOf = now
  /\ page = 1
  /\ count = 0
  /\ rows = <<>>
  /\ total = 0
  /\ counts = [s \in Status |-> 0]
  /\ stable = TRUE
  /\ shown = <<>>

\* A case is created or changed, or a due date passes: pages shown before may
\* no longer fit together
Disturbed ==
  /\ stable' = (at = "idle")
  /\ shown' = <<>>
  /\ UNCHANGED reader

CreateCase ==
  /\ \E c \in CaseId, r \in QueueRow :
       table[c] = None /\ table' = [table EXCEPT ![c] = r]
  /\ Disturbed
  /\ UNCHANGED now

\* created_at stays what it is
ChangeCase ==
  /\ \E c \in CaseId, r \in QueueRow :
       /\ table[c] # None /\ table[c] # r /\ table[c].created = r.created
       /\ table' = [table EXCEPT ![c] = r]
  /\ Disturbed
  /\ UNCHANGED now

PassTime ==
  /\ \E t \in Time : t > now /\ now' = t
  /\ Disturbed
  /\ UNCHANGED table

\* The operator asks for a page of the current filter, or changes the filter
StartListing ==
  /\ at = "idle"
  /\ filter' \in Filter
  /\ shown' = IF filter' = filter THEN shown ELSE <<>>
  /\ page' \in RawPage
  /\ asOf' = now
  /\ at' = "count"
  /\ stable' = TRUE
  /\ UNCHANGED <<table, now, count, rows, total, counts>>

\* The paginator's count.  The API counts a second time for its payload, and
\* overwrites that with the paginator's.
CountCases ==
  /\ at = "count"
  /\ count' = Cardinality(Selected)
  /\ page' = ResolvedPage(page, count')
  /\ at' = "rows"
  /\ UNCHANGED <<table, now, filter, asOf, rows, total, counts, stable, shown>>

FetchPage ==
  /\ at = "rows"
  /\ \E o \in QueueOrders : rows' = PageOf(o, page, count)
  /\ shown' = IF stable
                THEN [p \in DOMAIN shown \cup {page} |->
                        IF p = page THEN rows' ELSE shown[p]]
                ELSE shown
  /\ at' = "total"
  /\ UNCHANGED <<table, now, filter, asOf, page, count, total, counts, stable>>

\* get_queue_summary: queryset.count() ...
CountTotal ==
  /\ at = "total"
  /\ total' = Cardinality(Selected)
  /\ at' = "counts"
  /\ UNCHANGED <<table, now, filter, asOf, page, count, rows, counts, stable, shown>>

\* ... and the counts per status.  The queryset's order_by joins the GROUP BY of
\* values("status").annotate(...): the groups are those of equal status and sort
\* key, in that order, and the last one of a status is what stays in the summary.
LastGroup(order, s) ==
  LET mine == {i \in DOMAIN order : table[order[i]].status = s}
  IN  {order[i] : i \in {i \in mine : \A j \in mine :
                           j > i => SortKey(order[i]) = SortKey(order[j])}}

CountByStatus ==
  /\ at = "counts"
  /\ \E o \in QueueOrders : counts' = [s \in Status |-> Cardinality(LastGroup(o, s))]
  /\ at' = "answer"
  /\ UNCHANGED <<table, now, filter, asOf, page, count, rows, total, stable, shown>>

\* The answer is sent, and what the request held is gone
Answer ==
  /\ at = "answer"
  /\ at' = "idle"
  /\ asOf' = now
  /\ page' = 1
  /\ count' = 0
  /\ rows' = <<>>
  /\ total' = 0
  /\ counts' = [s \in Status |-> 0]
  /\ stable' = TRUE
  /\ UNCHANGED <<table, now, filter, shown>>

Next ==
  \/ CreateCase \/ ChangeCase \/ PassTime
  \/ StartListing \/ CountCases \/ FetchPage \/ CountTotal \/ CountByStatus \/ Answer

Spec == Init /\ [][Next]_vars

--------------------------------------------------------------------------------
(* Properties *)

\* Every variable has its type.
TypeOK ==
  /\ table \in [CaseId -> QueueRow \cup {None}]
  /\ now \in Time /\ asOf \in Time
  /\ filter \in Filter
  /\ at \in {"idle", "count", "rows", "total", "counts", "answer"}
  /\ page \in Int \cup {None}
  /\ at # "count" => page \in Nat \ {0}
  /\ count \in 0..Cardinality(CaseId) /\ total \in 0..Cardinality(CaseId)
  /\ rows \in Seq(CaseId) /\ Len(rows) <= PageSize
  /\ counts \in [Status -> 0..Cardinality(CaseId)]
  /\ stable \in BOOLEAN
  /\ \A p \in DOMAIN shown : shown[p] \in Seq(CaseId)

\* While nothing changes, the pages of the queue show every selected case
\* exactly once, in whatever sequence they are opened: a page is a query of its
\* own, so this takes an order that leaves the database no choice.
PagesShowEachCaseOnce ==
  at = "idle" =>
    LET pages == 1..NumPages(Cardinality(Selected))
    IN  /\ \A p, q \in DOMAIN shown :
             p # q => ToSet(shown[p]) \cap ToSet(shown[q]) = {}
        /\ \A p \in DOMAIN shown : Cardinality(ToSet(shown[p])) = Len(shown[p])
        /\ DOMAIN shown = pages => UNION {ToSet(shown[p]) : p \in pages} = Selected

\* b is not to come before a in the documented order: breached active cases
\* first, then the more urgent, then the earlier due, created and numbered
More(a, b) ==
  LET Late(c) == table[c].due < now /\ table[c].status \notin Terminal
      Urgency == [low |-> 1, medium |-> 2, high |-> 3, urgent |-> 4]
      Pressing(c) == Urgency[table[c].priority]
      Later == \/ table[a].due < table[b].due
               \/ /\ table[a].due = table[b].due
                  /\ \/ table[a].created < table[b].created
                     \/ table[a].created = table[b].created /\ a < b
  IN  IF Late(a) # Late(b) THEN Late(a)
      ELSE IF Pressing(a) # Pressing(b) THEN Pressing(a) > Pressing(b)
      ELSE Later

\* While nothing changes, every case on a page comes before every later case of
\* that page and of the pages after it (docs/api/ops-queue-contract.md,
\* ordering).
PagesFollowDocumentedOrder ==
  at = "idle" =>
    \A p, q \in DOMAIN shown :
      \A i \in DOMAIN shown[p], j \in DOMAIN shown[q] :
        p < q \/ (p = q /\ i < j) => More(shown[p][i], shown[q][j])

\* Whatever page is asked for, the page answered exists by the count of the same
\* answer, and unless cases changed meanwhile it is empty only if the queue is.
AnswersExistingPage ==
  at \notin {"idle", "count"} =>
    /\ page \in 1..NumPages(count)
    /\ at # "rows" /\ stable /\ count > 0 => rows # <<>>

\* Unless cases changed meanwhile, a summary counts the selected cases of each
\* status ("Queue summaries should count the current return-case statuses").
SummaryCounts ==
  at = "answer" /\ stable =>
    \A s \in Status :
      counts[s] = Cardinality({c \in Selected : table[c].status = s})
================================================================================

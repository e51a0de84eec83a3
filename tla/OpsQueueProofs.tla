----------------------------- MODULE OpsQueueProofs -----------------------------
(***************************************************************************)
(* Theorems about the pages of the operations queue, beside which reports are    *)
(* made, for any number of cases, any page size and any filter.                *)
(*                                                                          *)
(* A case on a page shown stands where its rank puts it: the number of selected  *)
(* cases the documented order has before it.  What a report has counted stays     *)
(* within the window, which only gains cases.                                  *)
(***************************************************************************)
EXTENDS CaseReports, FiniteSetTheorems, SequenceTheorems, TLAPS

Before(c) == {d \in Selected : More(d, c)}
Rank(c) == Cardinality(Before(c))
Size == Cardinality(Selected)

\* Sequence s is page p of the queue as it is now
Placed(p, s) ==
  /\ p \in 1..NumPages(Size)
  /\ s \in Seq(Selected)
  /\ Len(s) = IF p * PageSize <= Size THEN PageSize ELSE Size - (p - 1) * PageSize
  /\ \A i \in 1..Len(s) : Rank(s[i]) = (p - 1) * PageSize + i - 1

Resolved == {"rows", "total", "counts", "answer"}
Fetched  == {"total", "counts", "answer"}

QueueInv ==
  /\ \A p \in DOMAIN shown : Placed(p, shown[p])
  /\ at # "idle" /\ stable => asOf = now
  /\ at \in Resolved => page \in 1..NumPages(count)
  /\ at \in Resolved /\ stable => count = Size
  /\ at \in Fetched /\ stable /\ count > 0 => rows # <<>>

--------------------------------------------------------------------------------
(* Pages *)

LEMMA Pages ==
  ASSUME NEW n \in Nat
  PROVE  /\ NumPages(n) \in Nat /\ NumPages(n) >= 1
         /\ n > 0 => /\ NumPages(n) * PageSize >= n
                     /\ (NumPages(n) - 1) * PageSize < n
<1>1. PageSize \in Nat \ {0}
  BY QueueAssumption
<1>2. CASE n = 0
  BY <1>2 DEF NumPages
<1>3. CASE n # 0
  <2> DEFINE q == (n + PageSize - 1) \div PageSize
  <2>1. /\ q \in Nat /\ q >= 1 /\ q * PageSize <= n + PageSize - 1
        /\ n + PageSize - 1 < (q + 1) * PageSize
    BY <1>1, <1>3
  <2>2. NumPages(n) = q
    BY <1>3 DEF NumPages
  <2> HIDE DEF q
  <2> QED
    BY <1>1, <2>1, <2>2
<1> QED
  BY <1>2, <1>3

\* The page before the last is full, the last has a case on it.
LEMMA PageBegins ==
  ASSUME NEW n \in Nat, n > 0, NEW p \in 1..NumPages(n)
  PROVE  (p - 1) * PageSize < n
<1>1. /\ PageSize \in Nat \ {0} /\ NumPages(n) \in Nat
      /\ (NumPages(n) - 1) * PageSize < n
  BY Pages, QueueAssumption
<1>2. (p - 1) * PageSize <= (NumPages(n) - 1) * PageSize
  BY <1>1
<1>3. (p - 1) * PageSize \in Int /\ (NumPages(n) - 1) * PageSize \in Int
  BY <1>1
<1> QED
  BY <1>1, <1>2, <1>3

\* The slice of an order that is a page
LEMMA PageSlice ==
  ASSUME NEW S, NEW order \in Seq(S), NEW p \in Nat \ {0}, NEW n \in Nat
  PROVE  /\ PageOf(order, p, n) \in Seq(S)
         /\ Len(PageOf(order, p, n)) <= PageSize
         /\ n = Len(order) /\ p <= NumPages(n) =>
              /\ Len(PageOf(order, p, n)) =
                   IF p * PageSize <= n THEN PageSize ELSE n - (p - 1) * PageSize
              /\ \A i \in 1..Len(PageOf(order, p, n)) :
                   /\ (p - 1) * PageSize + i \in 1..n
                   /\ PageOf(order, p, n)[i] = order[(p - 1) * PageSize + i]
              /\ n > 0 => PageOf(order, p, n) # <<>>
<1> DEFINE Ends == {p * PageSize, n, Len(order)}
           IsLast(l) == l <= p * PageSize /\ l <= n /\ l <= Len(order)
           last == CHOOSE l \in Ends : IsLast(l)
           first == (p - 1) * PageSize + 1
           s == PageOf(order, p, n)
<1>1. /\ PageSize \in Nat \ {0} /\ Len(order) \in Nat
      /\ p * PageSize \in Nat /\ (p - 1) * PageSize \in Nat
      /\ p * PageSize = (p - 1) * PageSize + PageSize
      /\ \A i \in 1..Len(order) : order[i] \in S
  BY QueueAssumption, LenProperties, ElementOfSeq
<1>2. \E l \in Ends : IsLast(l)
  <2>1. CASE p * PageSize <= n /\ p * PageSize <= Len(order)
    BY <1>1, <2>1
  <2>2. CASE n <= p * PageSize /\ n <= Len(order)
    BY <1>1, <2>2
  <2>3. CASE Len(order) <= p * PageSize /\ Len(order) <= n
    BY <1>1, <2>3
  <2> QED
    BY <1>1, <2>1, <2>2, <2>3
<1>3. last \in Ends /\ IsLast(last)
  BY <1>2
<1>4. s = SubSeq(order, first, last)
  BY DEF PageOf
<1> HIDE DEF last, s
<1>5. last \in Nat
  BY <1>1, <1>3
<1>6. /\ SubSeq(order, first, last) \in Seq(S)
      /\ Len(SubSeq(order, first, last)) = IF first <= last THEN last - first + 1 ELSE 0
      /\ \A i \in 1..(last - first + 1) : SubSeq(order, first, last)[i] = order[first + i - 1]
  BY <1>1, <1>3, <1>5, SubSeqProperties
<1>7. Len(s) <= PageSize
  BY <1>1, <1>3, <1>4, <1>5, <1>6
<1>8. ASSUME n = Len(order), p <= NumPages(n)
      PROVE  /\ Len(s) = IF p * PageSize <= n THEN PageSize ELSE n - (p - 1) * PageSize
             /\ \A i \in 1..Len(s) : /\ (p - 1) * PageSize + i \in 1..n
                                     /\ s[i] = order[(p - 1) * PageSize + i]
             /\ n > 0 => s # <<>>
  <2>1. last = IF p * PageSize <= n THEN p * PageSize ELSE n
    BY <1>1, <1>3, <1>8
  <2>2. n > 0 => (p - 1) * PageSize < n
    BY <1>8, PageBegins, Pages
  <2>3. n = 0 => p = 1
    BY <1>8 DEF NumPages
  <2>4. /\ Len(s) = IF p * PageSize <= n THEN PageSize ELSE n - (p - 1) * PageSize
        /\ Len(s) = last - first + 1
    <3>1. CASE n > 0
      BY <1>1, <1>4, <1>5, <1>6, <2>1, <2>2, <3>1
    <3>2. CASE n = 0
      BY <1>1, <1>4, <1>5, <1>6, <2>1, <2>3, <3>2
    <3> QED
      BY <3>1, <3>2
  <2>5. \A i \in 1..Len(s) : /\ (p - 1) * PageSize + i \in 1..n
                             /\ s[i] = order[(p - 1) * PageSize + i]
    BY <1>1, <1>3, <1>4, <1>5, <1>6, <1>8, <2>4
  <2>6. n > 0 => s # <<>>
    <3>1. n > 0 => Len(s) > 0
      BY <1>1, <2>2, <2>4
    <3> QED
      BY <3>1, EmptySeq
  <2> QED
    BY <2>4, <2>5, <2>6
<1> QED
  BY <1>4, <1>6, <1>7, <1>8 DEF s

--------------------------------------------------------------------------------
(* The documented order *)

Urgent(p) == [low |-> 1, medium |-> 2, high |-> 3, urgent |-> 4][p]
Overdue(c) == table[c].due < now /\ table[c].status \notin Terminal

LEMMA Urgencies ==
  ASSUME NEW p \in Priority
  PROVE  /\ Urgent(p) \in 1..4
         /\ Urgent(p) = [urgent |-> 4, high |-> 3, medium |-> 2, low |-> 1][p]
<1>1. CASE p = "low"
  BY <1>1 DEF Urgent
<1>2. CASE p = "medium"
  BY <1>2 DEF Urgent
<1>3. CASE p = "high"
  BY <1>3 DEF Urgent
<1>4. CASE p = "urgent"
  BY <1>4 DEF Urgent
<1> QED
  BY <1>1, <1>2, <1>3, <1>4 DEF Priority

\* What a selected case holds
LEMMA SelectedRows ==
  ASSUME table \in [CaseId -> QueueRow \cup {None}]
  PROVE  /\ Selected \subseteq CaseId
         /\ IsFiniteSet(Selected)
         /\ Size \in 0..Cardinality(CaseId)
         /\ \A c \in Selected : /\ c \in Nat
                                /\ table[c].status \in Status
                                /\ table[c].priority \in Priority
                                /\ table[c].due \in Nat
                                /\ table[c].created \in Nat
                                /\ Urgent(table[c].priority) \in 1..4
<1>1. Selected \subseteq CaseId /\ IsFiniteSet(CaseId) /\ CaseId \subseteq Nat
  BY QueueAssumption DEF Selected
<1>2. IsFiniteSet(Selected) /\ Size \in 0..Cardinality(CaseId)
  <2>1. IsFiniteSet(Selected) /\ Size <= Cardinality(CaseId)
    BY <1>1, FS_Subset DEF Size
  <2> QED
    BY <1>1, <2>1, FS_CardinalityType DEF Size
<1>3. ASSUME NEW c \in Selected
      PROVE  /\ c \in Nat
             /\ table[c].status \in Status
             /\ table[c].priority \in Priority
             /\ table[c].due \in Nat
             /\ table[c].created \in Nat
             /\ Urgent(table[c].priority) \in 1..4
  <2>1. c \in CaseId /\ table[c] # None
    BY DEF Selected
  <2>2. table[c] \in QueueRow
    BY <2>1
  <2>3. table[c] \in [status : Status, priority : Priority,
                      label : RiskLabel \cup {None}, due : Nat, created : Nat]
    BY <2>2, QueueAssumption
  <2> QED
    BY <1>1, <2>1, <2>3, Urgencies
<1> QED
  BY <1>1, <1>2, <1>3

\* A case that is overdue comes first, ...
LEMMA MoreIs ==
  ASSUME table \in [CaseId -> QueueRow \cup {None}],
         NEW a \in Selected, NEW b \in Selected
  PROVE  More(a, b) <=>
           \/ Overdue(a) /\ ~Overdue(b)
           \/ /\ Overdue(a) <=> Overdue(b)
              /\ \/ Urgent(table[a].priority) > Urgent(table[b].priority)
                 \/ /\ Urgent(table[a].priority) = Urgent(table[b].priority)
                    /\ \/ table[a].due < table[b].due
                       \/ /\ table[a].due = table[b].due
                          /\ \/ table[a].created < table[b].created
                             \/ table[a].created = table[b].created /\ a < b
<1> DEFINE P == Urgent(table[a].priority)
           Q == Urgent(table[b].priority)
           Later == \/ table[a].due < table[b].due
                    \/ /\ table[a].due = table[b].due
                       /\ \/ table[a].created < table[b].created
                          \/ table[a].created = table[b].created /\ a < b
<1>1. More(a, b) <=> IF Overdue(a) # Overdue(b) THEN Overdue(a)
                     ELSE IF P # Q THEN P > Q ELSE Later
  BY Zenon DEF More, Overdue, Urgent
<1>2. P \in Int /\ Q \in Int
  BY SelectedRows
<1>3. Overdue(a) \in BOOLEAN /\ Overdue(b) \in BOOLEAN /\ Later \in BOOLEAN
  BY DEF Overdue, Later
<1> HIDE DEF P, Q, Later
<1>4. More(a, b) <=> \/ Overdue(a) /\ ~Overdue(b)
                     \/ /\ Overdue(a) <=> Overdue(b)
                        /\ P > Q \/ (P = Q /\ Later)
  <2>1. CASE Overdue(a) # Overdue(b)
    BY <1>1, <1>3, <2>1
  <2>2. CASE Overdue(a) = Overdue(b)
    <3>1. More(a, b) <=> IF P # Q THEN P > Q ELSE Later
      BY <1>1, <2>2
    <3>2. More(a, b) <=> P > Q \/ (P = Q /\ Later)
      BY <1>2, <1>3, <3>1
    <3> QED
      BY <1>3, <2>2, <3>2
  <2> QED
    BY <2>1, <2>2
<1> QED
  BY <1>4 DEF P, Q, Later

\* A strict total order
LEMMA MoreIsOrder ==
  ASSUME table \in [CaseId -> QueueRow \cup {None}]
  PROVE  /\ \A a, b \in Selected : a # b => More(a, b) \/ More(b, a)
         /\ \A a, b \in Selected : ~(More(a, b) /\ More(b, a))
         /\ \A a, b, c \in Selected : More(a, b) /\ More(b, c) => More(a, c)
<1>1. ASSUME NEW a \in Selected, NEW b \in Selected
      PROVE  /\ a # b => More(a, b) \/ More(b, a)
             /\ ~(More(a, b) /\ More(b, a))
  BY SelectedRows, MoreIs
<1>2. ASSUME NEW a \in Selected, NEW b \in Selected, NEW c \in Selected,
             More(a, b), More(b, c)
      PROVE  More(a, c)
  BY <1>2, SelectedRows, MoreIs
<1> QED
  BY <1>1, <1>2

\* Keys of five numbers, compared at the first place where they differ
LEMMA KeyLessIs ==
  ASSUME NEW k, NEW l, DOMAIN k = 1..5,
         \A i \in 1..5 : k[i] \in Int /\ l[i] \in Int
  PROVE  KeyLess(k, l) <=>
           \/ k[1] < l[1]
           \/ k[1] = l[1] /\ k[2] < l[2]
           \/ k[1] = l[1] /\ k[2] = l[2] /\ k[3] < l[3]
           \/ k[1] = l[1] /\ k[2] = l[2] /\ k[3] = l[3] /\ k[4] < l[4]
           \/ k[1] = l[1] /\ k[2] = l[2] /\ k[3] = l[3] /\ k[4] = l[4] /\ k[5] < l[5]
<1>1. KeyLess(k, l) <=> \E i \in 1..5 : k[i] < l[i] /\ \A j \in 1..(i - 1) : k[j] = l[j]
  BY DEF KeyLess
<1>2. ASSUME NEW i \in 1..5, k[i] < l[i], \A j \in 1..(i - 1) : k[j] = l[j]
      PROVE  \/ k[1] < l[1]
             \/ k[1] = l[1] /\ k[2] < l[2]
             \/ k[1] = l[1] /\ k[2] = l[2] /\ k[3] < l[3]
             \/ k[1] = l[1] /\ k[2] = l[2] /\ k[3] = l[3] /\ k[4] < l[4]
             \/ k[1] = l[1] /\ k[2] = l[2] /\ k[3] = l[3] /\ k[4] = l[4] /\ k[5] < l[5]
  <2>1. i = 1 \/ i = 2 \/ i = 3 \/ i = 4 \/ i = 5
    OBVIOUS
  <2> QED
    BY <1>2, <2>1
<1>3. k[1] < l[1] => KeyLess(k, l)
  BY <1>1
<1>4. k[1] = l[1] /\ k[2] < l[2] => KeyLess(k, l)
  BY <1>1
<1>5. k[1] = l[1] /\ k[2] = l[2] /\ k[3] < l[3] => KeyLess(k, l)
  BY <1>1
<1>6. k[1] = l[1] /\ k[2] = l[2] /\ k[3] = l[3] /\ k[4] < l[4] => KeyLess(k, l)
  BY <1>1
<1>7. k[1] = l[1] /\ k[2] = l[2] /\ k[3] = l[3] /\ k[4] = l[4] /\ k[5] < l[5] => KeyLess(k, l)
  BY <1>1
<1> QED
  BY <1>1, <1>2, <1>3, <1>4, <1>5, <1>6, <1>7

\* What order_by sorts by is the documented order, at the time of the listing.
LEMMA KeyIsMore ==
  ASSUME table \in [CaseId -> QueueRow \cup {None}], asOf \in Nat, asOf = now,
         NEW a \in Selected, NEW b \in Selected
  PROVE  KeyLess(SortKey(a), SortKey(b)) <=> More(a, b)
<1>1. ASSUME NEW c \in Selected
      PROVE  /\ BreachedRank(c) = IF Overdue(c) THEN 1 ELSE 0
             /\ PriorityRank(c) = Urgent(table[c].priority)
             /\ -BreachedRank(c) \in Int /\ -PriorityRank(c) \in Int
  <2>1. table[c].status \in Active <=> table[c].status \notin Terminal
    BY SelectedRows DEF Active, Terminal, Status
  <2>2. BreachedRank(c) = IF Overdue(c) THEN 1 ELSE 0
    BY <2>1 DEF BreachedRank, Overdue
  <2>3. PriorityRank(c) = Urgent(table[c].priority)
    BY SelectedRows, Urgencies DEF PriorityRank
  <2> QED
    BY <2>2, <2>3, SelectedRows
<1>2. KeyLess(SortKey(a), SortKey(b)) <=>
        \/ -BreachedRank(a) < -BreachedRank(b)
        \/ /\ -BreachedRank(a) = -BreachedRank(b)
           /\ -PriorityRank(a) < -PriorityRank(b)
        \/ /\ -BreachedRank(a) = -BreachedRank(b)
           /\ -PriorityRank(a) = -PriorityRank(b)
           /\ table[a].due < table[b].due
        \/ /\ -BreachedRank(a) = -BreachedRank(b)
           /\ -PriorityRank(a) = -PriorityRank(b)
           /\ table[a].due = table[b].due
           /\ table[a].created < table[b].created
        \/ /\ -BreachedRank(a) = -BreachedRank(b)
           /\ -PriorityRank(a) = -PriorityRank(b)
           /\ table[a].due = table[b].due
           /\ table[a].created = table[b].created
           /\ a < b
  <2>1. ASSUME NEW c \in Selected
        PROVE  /\ DOMAIN SortKey(c) = 1..5
               /\ SortKey(c)[1] = -BreachedRank(c)
               /\ SortKey(c)[2] = -PriorityRank(c)
               /\ SortKey(c)[3] = table[c].due
               /\ SortKey(c)[4] = table[c].created
               /\ SortKey(c)[5] = c
    BY DEF SortKey
  <2>2. ASSUME NEW c \in Selected, NEW i \in 1..5
        PROVE  SortKey(c)[i] \in Int
    <3>1. i = 1 \/ i = 2 \/ i = 3 \/ i = 4 \/ i = 5
      OBVIOUS
    <3> QED
      BY <1>1, <2>1, <3>1, SelectedRows
  <2> DEFINE k == SortKey(a)
             l == SortKey(b)
  <2>3. KeyLess(k, l) <=>
          \/ k[1] < l[1]
          \/ k[1] = l[1] /\ k[2] < l[2]
          \/ k[1] = l[1] /\ k[2] = l[2] /\ k[3] < l[3]
          \/ k[1] = l[1] /\ k[2] = l[2] /\ k[3] = l[3] /\ k[4] < l[4]
          \/ k[1] = l[1] /\ k[2] = l[2] /\ k[3] = l[3] /\ k[4] = l[4] /\ k[5] < l[5]
    BY <2>1, <2>2, KeyLessIs
  <2> QED
    BY <2>1, <2>3
<1>3. /\ BreachedRank(a) = IF Overdue(a) THEN 1 ELSE 0
      /\ BreachedRank(b) = IF Overdue(b) THEN 1 ELSE 0
      /\ PriorityRank(a) = Urgent(table[a].priority)
      /\ PriorityRank(b) = Urgent(table[b].priority)
      /\ Urgent(table[a].priority) \in 1..4 /\ Urgent(table[b].priority) \in 1..4
  BY <1>1, SelectedRows
<1> QED
  BY <1>2, <1>3, MoreIs

--------------------------------------------------------------------------------
(* Ranks *)

LEMMA Ranks ==
  ASSUME table \in [CaseId -> QueueRow \cup {None}]
  PROVE  \A a \in Selected :
           /\ Rank(a) \in 0..(Size - 1)
           /\ \A b \in Selected : /\ More(a, b) <=> Rank(a) < Rank(b)
                                  /\ Rank(a) = Rank(b) => a = b
<1>1. ASSUME NEW a \in Selected
      PROVE  /\ Before(a) \subseteq Selected /\ a \notin Before(a)
             /\ IsFiniteSet(Before(a)) /\ Rank(a) \in 0..(Size - 1)
  <2>1. Before(a) \subseteq Selected /\ a \notin Before(a)
    BY MoreIsOrder DEF Before
  <2>2. IsFiniteSet(Selected) /\ Size \in Nat
    BY SelectedRows, FS_CardinalityType DEF Size
  <2>3. /\ IsFiniteSet(Before(a))
        /\ Cardinality(Before(a)) <= Cardinality(Selected)
        /\ Cardinality(Before(a)) = Cardinality(Selected) => Selected = Before(a)
    BY <2>1, <2>2, FS_Subset
  <2>4. Cardinality(Before(a)) \in Nat /\ Cardinality(Before(a)) # Cardinality(Selected)
    BY <2>1, <2>3, FS_CardinalityType
  <2> QED
    BY <2>1, <2>2, <2>3, <2>4 DEF Rank, Size
<1>2. ASSUME NEW a \in Selected, NEW b \in Selected, More(a, b)
      PROVE  Rank(a) < Rank(b)
  <2>1. Before(a) \subseteq Before(b) /\ a \in Before(b)
    BY <1>2, MoreIsOrder DEF Before
  <2>2. /\ Cardinality(Before(a)) <= Cardinality(Before(b))
        /\ Cardinality(Before(a)) = Cardinality(Before(b)) => Before(b) = Before(a)
    BY <1>1, <2>1, FS_Subset
  <2>3. Cardinality(Before(a)) # Cardinality(Before(b))
    BY <1>1, <2>1, <2>2
  <2> QED
    BY <1>1, <2>2, <2>3 DEF Rank
<1>3. ASSUME NEW a \in Selected, NEW b \in Selected
      PROVE  /\ More(a, b) <=> Rank(a) < Rank(b)
             /\ Rank(a) = Rank(b) => a = b
  <2>1. Rank(a) \in Int /\ Rank(b) \in Int
    BY <1>1
  <2>2. a = b \/ More(a, b) \/ More(b, a)
    BY MoreIsOrder
  <2> QED
    BY <1>2, <2>1, <2>2
<1> QED
  BY <1>1, <1>3

\* The order leaves the database no choice: each case has the place of its rank.
LEMMA OrderRanks ==
  ASSUME table \in [CaseId -> QueueRow \cup {None}], asOf \in Nat, asOf = now,
         NEW o \in QueueOrders
  PROVE  /\ o \in Seq(Selected) /\ Len(o) = Size
         /\ \A i \in 1..Size : Rank(o[i]) = i - 1
<1>1. Size \in Nat /\ IsFiniteSet(Selected)
  BY SelectedRows, FS_CardinalityType DEF Size
<1>2. /\ o \in [1..Size -> Selected]
      /\ \A i, j \in 1..Size : i # j => o[i] # o[j]
      /\ \A i, j \in 1..Size : i < j => ~KeyLess(SortKey(o[j]), SortKey(o[i]))
  BY DEF QueueOrders, SetToSeqs, Size
<1>3. o \in Seq(Selected) /\ Len(o) = Size
  BY <1>1, <1>2
<1>4. \A c \in Selected : \E i \in 1..Size : o[i] = c
  <2>1. o \in Injection(1..Size, Selected)
    BY <1>2 DEF Injection, IsInjective
  <2>2. IsFiniteSet(1..Size) /\ Cardinality(1..Size) = Size
    BY <1>1, FS_Interval
  <2>3. o \in Surjection(1..Size, Selected)
    BY <1>1, <2>1, <2>2, FS_Injection DEF Size
  <2> QED
    BY <2>3 DEF Surjection
<1>5. ASSUME NEW i \in 1..Size, NEW j \in 1..Size, i < j
      PROVE  More(o[i], o[j])
  <2>1. o[i] \in Selected /\ o[j] \in Selected /\ o[i] # o[j]
    BY <1>2, <1>5
  <2>2. ~More(o[j], o[i])
    BY <1>2, <1>5, <2>1, KeyIsMore
  <2> QED
    BY <2>1, <2>2, MoreIsOrder
<1>6. ASSUME NEW i \in 1..Size
      PROVE  Rank(o[i]) = i - 1
  <2> DEFINE f == [j \in 1..(i - 1) |-> o[j]]
  <2>1. ASSUME NEW c \in Before(o[i])
        PROVE  \E j \in 1..(i - 1) : f[j] = c
    <3>1. c \in Selected /\ More(c, o[i])
      BY DEF Before
    <3>2. PICK j \in 1..Size : o[j] = c
      BY <1>4, <3>1
    <3>3. j < i
      <4>1. CASE i < j
        BY <1>2, <1>5, <3>1, <3>2, <4>1, MoreIsOrder
      <4>2. CASE i = j
        BY <1>2, <3>1, <3>2, <4>2, MoreIsOrder
      <4> QED
        BY <1>1, <4>1, <4>2
    <3> QED
      BY <1>1, <3>2, <3>3
  <2>2. ASSUME NEW j \in 1..(i - 1)
        PROVE  f[j] = o[j] /\ f[j] \in Before(o[i])
    <3>1. j \in 1..Size /\ j < i
      BY <1>1
    <3> QED
      BY <1>2, <1>5, <3>1 DEF Before
  <2>3. f \in Surjection(1..(i - 1), Before(o[i]))
    BY <2>1, <2>2 DEF Surjection
  <2>4. f \in Injection(1..(i - 1), Before(o[i]))
    <3>1. \A j, k \in 1..(i - 1) : f[j] = f[k] => j = k
      BY <1>1, <1>2, <2>2
    <3> QED
      BY <2>2, <3>1 DEF Injection, IsInjective
  <2>5. ExistsBijection(1..(i - 1), Before(o[i]))
    BY <2>3, <2>4 DEF ExistsBijection, Bijection
  <2> QED
    BY <1>1, <2>5, FS_CountingElements DEF Rank
<1> QED
  BY <1>3, <1>6

\* A page of such an order is placed by rank.
LEMMA PagePlaced ==
  ASSUME table \in [CaseId -> QueueRow \cup {None}], asOf \in Nat, asOf = now,
         NEW o \in QueueOrders, NEW p \in 1..NumPages(Size)
  PROVE  /\ Placed(p, PageOf(o, p, Size))
         /\ Size > 0 => PageOf(o, p, Size) # <<>>
<1>1. /\ o \in Seq(Selected) /\ Len(o) = Size /\ Size \in Nat
      /\ \A i \in 1..Size : Rank(o[i]) = i - 1
  BY OrderRanks, SelectedRows
<1>2. p \in Nat \ {0} /\ p <= NumPages(Size) /\ PageSize \in Nat
  BY <1>1, Pages, QueueAssumption
<1> DEFINE s == PageOf(o, p, Size)
           before == (p - 1) * PageSize
<1>3. /\ s \in Seq(Selected)
      /\ Size = Len(o) /\ p <= NumPages(Size) =>
           /\ Len(s) = IF p * PageSize <= Size THEN PageSize ELSE Size - (p - 1) * PageSize
           /\ \A i \in 1..Len(s) : before + i \in 1..Size /\ s[i] = o[before + i]
           /\ Size > 0 => s # <<>>
  <2>1. o \in Seq(Selected) /\ p \in Nat \ {0} /\ Size \in Nat
    BY <1>1, <1>2
  <2>2. /\ PageOf(o, p, Size) \in Seq(Selected)
        /\ Len(PageOf(o, p, Size)) <= PageSize
        /\ Size = Len(o) /\ p <= NumPages(Size) =>
              /\ Len(PageOf(o, p, Size)) =
                   IF p * PageSize <= Size THEN PageSize ELSE Size - (p - 1) * PageSize
              /\ \A i \in 1..Len(PageOf(o, p, Size)) :
                   /\ (p - 1) * PageSize + i \in 1..Size
                   /\ PageOf(o, p, Size)[i] = o[(p - 1) * PageSize + i]
              /\ Size > 0 => PageOf(o, p, Size) # <<>>
    BY <2>1, PageSlice
  <2> QED
    BY <2>2
<1>4. before \in Nat
  BY <1>2
<1> HIDE DEF s
<1>5. ASSUME NEW i \in 1..Len(s)
      PROVE  Rank(s[i]) = (p - 1) * PageSize + i - 1
  <2> HIDE DEF before
  <2>1. before + i \in 1..Size /\ s[i] = o[before + i] /\ i \in Int
    BY <1>1, <1>2, <1>3, LenProperties
  <2>2. Rank(s[i]) = (before + i) - 1
    BY <1>1, <2>1
  <2>3. Rank(s[i]) = before + i - 1
    BY <1>4, <2>1, <2>2
  <2> QED
    BY <2>3 DEF before
<1> QED
  BY <1>1, <1>2, <1>3, <1>5 DEF Placed, s

--------------------------------------------------------------------------------
(* Steps *)

LEMMA StepKinds ==
  ASSUME [QueueAndReports]_<<vars, report>>
  PROVE  \/ CreateCase \/ ChangeCase \/ PassTime
         \/ StartListing \/ CountCases \/ FetchPage \/ CountTotal \/ CountByStatus \/ Answer
         \/ AskReport
         \/ UNCHANGED vars
BY DEF QueueAndReports, ReportNext, CountStatuses, CountPriorities, CountReported, AnswerReport

LEMMA TypeStart ==
  ASSUME Init
  PROVE  TypeOK
<1>1. /\ Cardinality(CaseId) \in Nat /\ PageSize \in Nat
      /\ <<>> \in Seq(CaseId) /\ Len(<<>>) = 0
  BY QueueAssumption, FS_CardinalityType
<1>2. [s \in Status |-> 0] \in [Status -> 0..Cardinality(CaseId)]
  BY <1>1
<1>3. DOMAIN <<>> = {}
  OBVIOUS
<1> QED
  BY <1>1, <1>2, <1>3 DEF Init, TypeOK

LEMMA TypeStep ==
  ASSUME TypeOK, [QueueAndReports]_<<vars, report>>
  PROVE  TypeOK'
<1> USE DEF TypeOK
<1>1. /\ Cardinality(CaseId) \in Nat /\ PageSize \in Nat
      /\ <<>> \in Seq(CaseId) /\ Len(<<>>) = 0 /\ DOMAIN <<>> = {}
  BY QueueAssumption, FS_CardinalityType
<1>2. /\ Selected \subseteq CaseId
      /\ Size \in 0..Cardinality(CaseId)
  BY SelectedRows
<1>3. CASE CreateCase
  BY <1>1, <1>3 DEF CreateCase, Disturbed, reader
<1>4. CASE ChangeCase
  BY <1>1, <1>4 DEF ChangeCase, Disturbed, reader
<1>5. CASE PassTime
  BY <1>1, <1>5 DEF PassTime, Disturbed, reader
<1>6. CASE StartListing
  <2>1. page' \in Int \cup {None}
    BY <1>6, QueueAssumption DEF StartListing
  <2>2. \A p \in DOMAIN shown' : shown'[p] \in Seq(CaseId)
    BY <1>1, <1>6 DEF StartListing
  <2> QED
    BY <1>6, <2>1, <2>2 DEF StartListing
<1>7. CASE CountCases
  <2>1. count' \in 0..Cardinality(CaseId)
    BY <1>2, <1>7 DEF CountCases, Size
  <2>2. page' \in Nat \ {0}
    <3>1. NumPages(count') \in Nat /\ NumPages(count') >= 1
      BY <1>1, <2>1, Pages
    <3> QED
      BY <1>7, <3>1 DEF CountCases, ResolvedPage
  <2> QED
    BY <1>7, <2>1, <2>2 DEF CountCases
<1>8. CASE FetchPage
  <2>1. PICK o \in QueueOrders : rows' = PageOf(o, page, count)
    BY <1>8 DEF FetchPage
  <2>2. o \in Seq(CaseId)
    <3>1. o \in [1..Size -> Selected]
      BY DEF QueueOrders, SetToSeqs, Size
    <3> QED
      BY <1>1, <1>2, <3>1
  <2>3. page \in Nat \ {0} /\ count \in Nat
    BY <1>1, <1>8 DEF FetchPage
  <2>4. rows' \in Seq(CaseId) /\ Len(rows') <= PageSize
    BY <2>1, <2>2, <2>3, PageSlice
  <2>5. \A p \in DOMAIN shown' : shown'[p] \in Seq(CaseId)
    BY <1>8, <2>4 DEF FetchPage
  <2> QED
    BY <1>8, <2>4, <2>5 DEF FetchPage
<1>9. CASE CountTotal
  BY <1>2, <1>9 DEF CountTotal, Size
<1>10. CASE CountByStatus
  <2>1. PICK o \in QueueOrders : counts' = [s \in Status |-> Cardinality(LastGroup(o, s))]
    BY <1>10 DEF CountByStatus
  <2>2. \A i \in DOMAIN o : o[i] \in CaseId
    BY <1>2 DEF QueueOrders, SetToSeqs
  <2>3. ASSUME NEW s \in Status
        PROVE  Cardinality(LastGroup(o, s)) \in 0..Cardinality(CaseId)
    <3>1. LastGroup(o, s) \subseteq CaseId
      BY <2>2 DEF LastGroup
    <3>2. IsFiniteSet(LastGroup(o, s)) /\ Cardinality(LastGroup(o, s)) <= Cardinality(CaseId)
      BY <3>1, QueueAssumption, FS_Subset
    <3> QED
      BY <1>1, <3>2, FS_CardinalityType
  <2>4. counts' \in [Status -> 0..Cardinality(CaseId)]
    BY <2>1, <2>3
  <2> QED
    BY <1>10, <2>4 DEF CountByStatus
<1>11. CASE Answer
  <2>1. counts' \in [Status -> 0..Cardinality(CaseId)]
    BY <1>1, <1>11 DEF Answer
  <2> QED
    BY <1>1, <1>11, <2>1 DEF Answer
<1>12. CASE AskReport
  BY <1>1, <1>12 DEF AskReport, reader
<1>13. CASE UNCHANGED vars
  BY <1>13 DEF vars, reader
<1> QED
  BY <1>3, <1>4, <1>5, <1>6, <1>7, <1>8, <1>9, <1>10, <1>11, <1>12, <1>13, StepKinds

\* Every variable of the queue has its type.
THEOREM QueueTypeCorrect == ReportSpec => []TypeOK
<1>1. ReportInit => TypeOK
  BY TypeStart DEF ReportInit
<1>2. TypeOK /\ [QueueAndReports]_<<vars, report>> => TypeOK'
  BY TypeStep
<1> QED
  BY <1>1, <1>2, PTL DEF ReportSpec

--------------------------------------------------------------------------------
(* The pages shown *)

LEMMA QueueStart ==
  ASSUME Init
  PROVE  QueueInv
<1>1. DOMAIN <<>> = {}
  OBVIOUS
<1> QED
  BY <1>1 DEF Init, QueueInv, Resolved, Fetched

\* What reads the cases and the filter only stays as long as they do.
LEMMA SamePlaces ==
  ASSUME UNCHANGED <<table, now, filter>>
  PROVE  /\ Size' = Size
         /\ \A p, s : Placed(p, s)' <=> Placed(p, s)
<1>1. Selected' = Selected
  BY DEF Selected, Parsed, Selects
<1>2. \A a, b : More(a, b)' <=> More(a, b)
  BY DEF More
<1>3. \A c : Before(c)' = Before(c)
  BY <1>1, <1>2 DEF Before
<1>4. Size' = Size /\ \A c : Rank(c)' = Rank(c)
  BY <1>1, <1>3 DEF Size, Rank
<1> QED
  BY <1>1, <1>4 DEF Placed

LEMMA QueueStep ==
  ASSUME TypeOK, QueueInv, [QueueAndReports]_<<vars, report>>
  PROVE  QueueInv'
<1> DEFINE Shown == \A p \in DOMAIN shown : Placed(p, shown[p])
<1>1. ASSUME shown' = <<>>
      PROVE  Shown'
  BY <1>1
<1>2. ASSUME UNCHANGED <<table, now, filter, shown>>
      PROVE  Shown'
  BY <1>2, SamePlaces DEF QueueInv
<1>3. ASSUME UNCHANGED <<table, now, filter>>
      PROVE  Size' = Size
  BY <1>3, SamePlaces
<1>4. CASE CreateCase
  <2>1. Disturbed
    BY <1>4 DEF CreateCase
  <2> QED
    BY <1>1, <2>1 DEF QueueInv, Disturbed, reader, Resolved, Fetched
<1>5. CASE ChangeCase
  <2>1. Disturbed
    BY <1>5 DEF ChangeCase
  <2> QED
    BY <1>1, <2>1 DEF QueueInv, Disturbed, reader, Resolved, Fetched
<1>6. CASE PassTime
  <2>1. Disturbed
    BY <1>6 DEF PassTime
  <2> QED
    BY <1>1, <2>1 DEF QueueInv, Disturbed, reader, Resolved, Fetched
<1>7. CASE StartListing
  <2>1. Shown'
    <3>1. CASE filter' = filter
      BY <1>2, <1>7, <3>1 DEF StartListing
    <3>2. CASE filter' # filter
      BY <1>1, <1>7, <3>2 DEF StartListing
    <3> QED
      BY <3>1, <3>2
  <2> QED
    BY <1>7, <2>1 DEF QueueInv, StartListing, Resolved, Fetched
<1>8. CASE CountCases
  <2>1. Shown'
    BY <1>2, <1>8 DEF CountCases
  <2>2. count' = Size /\ Size' = Size /\ count' \in Nat
    <3>1. Size \in Nat
      BY SelectedRows, QueueAssumption, FS_CardinalityType DEF TypeOK
    <3> QED
      BY <1>3, <1>8, <3>1 DEF CountCases, Size
  <2>3. page' \in 1..NumPages(count')
    <3>1. NumPages(count') \in Nat /\ NumPages(count') >= 1
      BY <2>2, Pages
    <3>2. page \in Int \cup {None}
      BY DEF TypeOK
    <3> QED
      BY <1>8, <3>1, <3>2 DEF CountCases, ResolvedPage
  <2>4. stable' => asOf' = now'
    BY <1>8 DEF CountCases, QueueInv
  <2>5. at' = "rows"
    BY <1>8 DEF CountCases
  <2>6. NumPages(count)' = NumPages(count')
    BY DEF NumPages
  <2> QED
    BY <2>1, <2>2, <2>3, <2>4, <2>5, <2>6 DEF QueueInv, Resolved, Fetched
<1>9. CASE FetchPage
  <2>1. /\ at = "rows" /\ at' = "total"
        /\ UNCHANGED <<table, now, filter, asOf, page, count, stable>>
    BY <1>9 DEF FetchPage
  <2>2. PICK o \in QueueOrders : rows' = PageOf(o, page, count)
    BY <1>9 DEF FetchPage
  <2>3. stable => /\ count = Size /\ asOf = now /\ asOf \in Nat
                  /\ page \in 1..NumPages(Size)
    BY <2>1, QueueAssumption DEF QueueInv, Resolved, TypeOK
  <2>4. stable => Placed(page, rows') /\ (count > 0 => rows' # <<>>)
    BY <2>2, <2>3, PagePlaced DEF TypeOK
  <2>5. Shown'
    <3>1. CASE stable
      <4>1. ASSUME NEW p \in DOMAIN shown'
            PROVE  Placed(p, shown'[p])
        <5>1. shown' = [q \in DOMAIN shown \cup {page} |->
                          IF q = page THEN rows' ELSE shown[q]]
          BY <1>9, <3>1 DEF FetchPage
        <5>2. \/ p = page /\ shown'[p] = rows'
              \/ p \in DOMAIN shown /\ shown'[p] = shown[p]
          BY <5>1
        <5> QED
          BY <2>4, <3>1, <5>2 DEF QueueInv
      <4>2. \A p, s : Placed(p, s)' <=> Placed(p, s)
        BY <2>1, SamePlaces
      <4> QED
        BY <4>1, <4>2
    <3>2. CASE ~stable
      BY <1>2, <1>9, <2>1, <3>2 DEF FetchPage
    <3> QED
      BY <3>1, <3>2
  <2>6. Size' = Size
    BY <1>3, <2>1
  <2>7. page \in 1..NumPages(count)
    BY <2>1 DEF QueueInv, Resolved
  <2>8. NumPages(count)' = NumPages(count)
    BY <2>1 DEF NumPages
  <2> QED
    BY <2>1, <2>3, <2>4, <2>5, <2>6, <2>7, <2>8 DEF QueueInv, Resolved, Fetched
<1>10. ASSUME UNCHANGED <<table, now, filter, asOf, page, count, rows, stable, shown>>,
              at # "idle", at \in Resolved, at' \in Resolved, at \in Fetched
       PROVE  QueueInv'
  <2>1. Shown' /\ Size' = Size
    BY <1>2, <1>3, <1>10
  <2>2. NumPages(count)' = NumPages(count)
    BY <1>10 DEF NumPages
  <2> QED
    BY <1>10, <2>1, <2>2 DEF QueueInv
<1>11. CASE CountTotal
  BY <1>10, <1>11 DEF CountTotal, Resolved, Fetched
<1>12. CASE CountByStatus
  BY <1>10, <1>12 DEF CountByStatus, Resolved, Fetched
<1>13. CASE Answer
  <2>1. Shown'
    BY <1>2, <1>13 DEF Answer
  <2> QED
    BY <1>13, <2>1 DEF QueueInv, Answer, Resolved, Fetched
<1>14. CASE AskReport
  BY <1>1, <1>14 DEF AskReport, reader, QueueInv, Resolved, Fetched
<1>15. CASE UNCHANGED vars
  <2>1. Shown' /\ Size' = Size
    BY <1>2, <1>3, <1>15 DEF vars, reader
  <2>2. NumPages(count)' = NumPages(count)
    BY <1>15 DEF NumPages, vars, reader
  <2> QED
    BY <1>15, <2>1, <2>2 DEF QueueInv, vars, reader
<1> QED
  BY <1>4, <1>5, <1>6, <1>7, <1>8, <1>9, <1>11, <1>12, <1>13, <1>14, <1>15, StepKinds

\* Ranks that fall to a place of a page
LEMMA PlaceOfRank ==
  ASSUME NEW n \in Nat, NEW r \in Nat, r < n
  PROVE  \E p \in 1..NumPages(n) : \E i \in 1..PageSize : r = (p - 1) * PageSize + i - 1
<1>1. /\ PageSize \in Nat \ {0} /\ NumPages(n) \in Nat
      /\ NumPages(n) * PageSize >= n
  BY QueueAssumption, Pages
<1> DEFINE q == r \div PageSize
           m == r % PageSize
<1>2. q \in Nat /\ m \in 0..(PageSize - 1) /\ r = q * PageSize + m
  BY <1>1
<1> HIDE DEF q, m
<1>3. q < NumPages(n)
  <2>1. SUFFICES ASSUME q >= NumPages(n) PROVE FALSE
    BY <1>1, <1>2
  <2>2. q * PageSize >= NumPages(n) * PageSize
    BY <1>1, <1>2, <2>1
  <2>3. q * PageSize \in Nat /\ NumPages(n) * PageSize \in Nat
    BY <1>1, <1>2
  <2> QED
    BY <1>1, <1>2, <2>2, <2>3
<1>4. q + 1 \in 1..NumPages(n) /\ m + 1 \in 1..PageSize
  BY <1>1, <1>2, <1>3
<1>5. r = ((q + 1) - 1) * PageSize + (m + 1) - 1
  <2>1. (q + 1) - 1 = q /\ q * PageSize \in Nat
    BY <1>1, <1>2
  <2> QED
    BY <1>2, <2>1
<1> QED
  BY <1>4, <1>5

\* Places are in the order of the ranks.
LEMMA RankOfPlace ==
  ASSUME NEW p \in Nat \ {0}, NEW q \in Nat \ {0},
         NEW i \in 1..PageSize, NEW j \in 1..PageSize
  PROVE  /\ p < q \/ (p = q /\ i < j) =>
              (p - 1) * PageSize + i - 1 < (q - 1) * PageSize + j - 1
         /\ (p - 1) * PageSize + i - 1 \in Nat
<1>1. PageSize \in Nat \ {0}
  BY QueueAssumption
<1>2. (p - 1) * PageSize \in Nat /\ (q - 1) * PageSize \in Nat
  BY <1>1
<1>3. p < q => (p - 1) * PageSize + PageSize <= (q - 1) * PageSize
  BY <1>1
<1> QED
  BY <1>1, <1>2, <1>3

\* Of the cases of a page shown
LEMMA OnPage ==
  ASSUME TypeOK, NEW p \in 1..NumPages(Size), NEW s, Placed(p, s), NEW i \in DOMAIN s
  PROVE  /\ p \in Nat \ {0} /\ i \in 1..PageSize
         /\ s[i] \in Selected
         /\ Rank(s[i]) = (p - 1) * PageSize + i - 1
<1>1. /\ PageSize \in Nat \ {0} /\ Size \in Nat /\ NumPages(Size) \in Nat
      /\ (p - 1) * PageSize \in Int /\ p * PageSize = (p - 1) * PageSize + PageSize
  <2>1. Size \in Nat
    BY SelectedRows, QueueAssumption, FS_CardinalityType DEF TypeOK
  <2> QED
    BY <2>1, Pages, QueueAssumption
<1>2. /\ s \in Seq(Selected) /\ DOMAIN s = 1..Len(s) /\ Len(s) \in Nat
      /\ Len(s) = IF p * PageSize <= Size THEN PageSize ELSE Size - (p - 1) * PageSize
  BY LenProperties DEF Placed
<1>3. Len(s) <= PageSize
  BY <1>1, <1>2
<1>4. i \in 1..Len(s)
  BY <1>2
<1> QED
  BY <1>1, <1>2, <1>3, <1>4, ElementOfSeq DEF Placed

LEMMA InOrder ==
  ASSUME TypeOK, QueueInv
  PROVE  PagesFollowDocumentedOrder
<1>1. ASSUME NEW p \in DOMAIN shown, NEW q \in DOMAIN shown,
             NEW i \in DOMAIN shown[p], NEW j \in DOMAIN shown[q],
             p < q \/ (p = q /\ i < j)
      PROVE  More(shown[p][i], shown[q][j])
  <2>1. /\ p \in 1..NumPages(Size) /\ Placed(p, shown[p])
        /\ q \in 1..NumPages(Size) /\ Placed(q, shown[q])
    BY DEF QueueInv, Placed
  <2>2. /\ p \in Nat \ {0} /\ i \in 1..PageSize /\ shown[p][i] \in Selected
        /\ Rank(shown[p][i]) = (p - 1) * PageSize + i - 1
        /\ q \in Nat \ {0} /\ j \in 1..PageSize /\ shown[q][j] \in Selected
        /\ Rank(shown[q][j]) = (q - 1) * PageSize + j - 1
    BY <2>1, OnPage
  <2>3. Rank(shown[p][i]) < Rank(shown[q][j])
    BY <1>1, <2>2, RankOfPlace
  <2> QED
    BY <2>2, <2>3, Ranks DEF TypeOK
<1> QED
  BY <1>1 DEF PagesFollowDocumentedOrder

LEMMA EachOnce ==
  ASSUME TypeOK, QueueInv
  PROVE  PagesShowEachCaseOnce
<1>1. ASSUME NEW p \in DOMAIN shown
      PROVE  p \in 1..NumPages(Size) /\ Placed(p, shown[p])
  BY DEF QueueInv, Placed
<1>2. ASSUME NEW p \in DOMAIN shown, NEW q \in DOMAIN shown,
             NEW i \in DOMAIN shown[p], NEW j \in DOMAIN shown[q],
             shown[p][i] = shown[q][j]
      PROVE  p = q /\ i = j
  <2>1. /\ p \in Nat \ {0} /\ i \in 1..PageSize
        /\ Rank(shown[p][i]) = (p - 1) * PageSize + i - 1
        /\ q \in Nat \ {0} /\ j \in 1..PageSize
        /\ Rank(shown[q][j]) = (q - 1) * PageSize + j - 1
    BY <1>1, OnPage
  <2>2. (p - 1) * PageSize + i - 1 = (q - 1) * PageSize + j - 1
    BY <1>2, <2>1
  <2>3. ~(p < q \/ (p = q /\ i < j))
    BY <2>1, <2>2, RankOfPlace
  <2>4. ~(q < p \/ (q = p /\ j < i))
    BY <2>1, <2>2, RankOfPlace
  <2> QED
    BY <2>1, <2>3, <2>4
<1>3. ASSUME NEW p \in DOMAIN shown, NEW q \in DOMAIN shown, p # q
      PROVE  ToSet(shown[p]) \cap ToSet(shown[q]) = {}
  BY <1>2, <1>3 DEF ToSet
<1>4. ASSUME NEW p \in DOMAIN shown
      PROVE  Cardinality(ToSet(shown[p])) = Len(shown[p])
  <2> DEFINE s == shown[p]
  <2>1. s \in Seq(Selected) /\ Len(s) \in Nat /\ DOMAIN s = 1..Len(s)
    BY <1>1, LenProperties DEF Placed
  <2>2. \A i, j \in DOMAIN s : s[i] = s[j] => i = j
    BY <1>2
  <2> HIDE DEF s
  <2>3. s \in [1..Len(s) -> ToSet(s)]
    BY <2>1 DEF ToSet
  <2>4. s \in Bijection(1..Len(s), ToSet(s))
    BY <2>1, <2>2, <2>3 DEF Bijection, Injection, Surjection, IsInjective, ToSet
  <2>5. ExistsBijection(1..Len(s), ToSet(s))
    BY <2>4 DEF ExistsBijection
  <2>6. Cardinality(ToSet(s)) = Len(s)
    BY <2>1, <2>5, FS_CountingElements
  <2> QED
    BY <2>6 DEF s
<1>5. ASSUME DOMAIN shown = 1..NumPages(Size)
      PROVE  UNION {ToSet(shown[p]) : p \in 1..NumPages(Size)} = Selected
  <2>1. ASSUME NEW p \in 1..NumPages(Size)
        PROVE  ToSet(shown[p]) \subseteq Selected
    BY <1>1, <1>5, OnPage DEF ToSet
  <2>2. ASSUME NEW c \in Selected
        PROVE  \E p \in 1..NumPages(Size) : c \in ToSet(shown[p])
    <3>1. /\ Size \in Nat /\ Rank(c) \in Nat /\ Rank(c) < Size
          /\ PageSize \in Nat \ {0} /\ NumPages(Size) \in Nat
      <4>1. Rank(c) \in 0..(Size - 1)
        BY Ranks DEF TypeOK
      <4>2. Size \in Nat
        BY SelectedRows, QueueAssumption, FS_CardinalityType DEF TypeOK
      <4> QED
        BY <4>1, <4>2, Pages, QueueAssumption
    <3>2. PICK p \in 1..NumPages(Size), i \in 1..PageSize :
            Rank(c) = (p - 1) * PageSize + i - 1
      BY <3>1, PlaceOfRank
    <3>3. /\ Placed(p, shown[p])
          /\ DOMAIN shown[p] = 1..Len(shown[p])
          /\ Len(shown[p]) = IF p * PageSize <= Size THEN PageSize
                             ELSE Size - (p - 1) * PageSize
      BY <1>1, <1>5, LenProperties DEF Placed
    <3>4. i \in DOMAIN shown[p]
      <4>1. (p - 1) * PageSize \in Int
        BY <3>1
      <4>2. i <= Size - (p - 1) * PageSize
        BY <3>1, <3>2, <4>1
      <4> QED
        BY <3>1, <3>3, <4>1, <4>2
    <3>5. shown[p][i] \in Selected /\ Rank(shown[p][i]) = Rank(c)
      BY <3>2, <3>3, <3>4, OnPage
    <3>6. shown[p][i] = c
      BY <3>5, Ranks DEF TypeOK
    <3> QED
      BY <3>4, <3>6 DEF ToSet
  <2> QED
    BY <2>1, <2>2
<1>6. NumPages(Cardinality(Selected)) = NumPages(Size)
  BY DEF Size
<1> QED
  BY <1>3, <1>4, <1>5, <1>6, Zenon DEF PagesShowEachCaseOnce

LEMMA QueueInvHolds == ReportSpec => [](TypeOK /\ QueueInv)
<1>1. ReportInit => TypeOK /\ QueueInv
  BY TypeStart, QueueStart DEF ReportInit
<1>2. TypeOK /\ QueueInv /\ [QueueAndReports]_<<vars, report>> => TypeOK' /\ QueueInv'
  BY TypeStep, QueueStep
<1> QED
  BY <1>1, <1>2, PTL DEF ReportSpec

\* While no case changes and no due date passes, the pages of the queue show every
\* selected case exactly once, in whatever sequence they are opened and however
\* many times: paginate_queryset slices an order that leaves the database no choice.
THEOREM PagesAlwaysFit == ReportSpec => []PagesShowEachCaseOnce
<1>1. TypeOK /\ QueueInv => PagesShowEachCaseOnce
  BY EachOnce
<1> QED
  BY <1>1, QueueInvHolds, PTL

\* The order of the pages is the documented one: overdue open cases first, then the
\* more urgent, then the earlier due, created and numbered.
THEOREM PagesAlwaysInOrder == ReportSpec => []PagesFollowDocumentedOrder
<1>1. TypeOK /\ QueueInv => PagesFollowDocumentedOrder
  BY InOrder
<1> QED
  BY <1>1, QueueInvHolds, PTL

\* The page answered exists by the count of its own answer, whatever page was asked
\* for, and is empty only if the queue is, unless cases changed since that count.
THEOREM PageAlwaysExists == ReportSpec => []AnswersExistingPage
<1>1. TypeOK /\ QueueInv => AnswersExistingPage
  BY DEF TypeOK, QueueInv, AnswersExistingPage, Resolved, Fetched
<1> QED
  BY <1>1, QueueInvHolds, PTL

--------------------------------------------------------------------------------
(* The report *)

\* Counted by any of their fields, the cases of a finite set add up to the set.
LEMMA CountsAddUp ==
  ASSUME NEW S, IsFiniteSet(S), NEW K, NEW f \in [S -> K]
  PROVE  TotalOf([k \in K |-> Cardinality({c \in S : f[c] = k})]) = Cardinality(S)
<1> DEFINE Of(k) == {c \in S : f[c] = k}
           D == [k \in K |-> Cardinality(Of(k))]
           Units(k) == {k} \X (1..D[k])
           Unit == UNION {Units(k) : k \in DOMAIN D}
           number == [k \in K |-> CHOOSE g : g \in Bijection(Of(k), 1..D[k])]
           unit == [c \in S |-> <<f[c], number[f[c]][c]>>]
<1>1. ASSUME NEW k \in K
      PROVE  D[k] \in Nat /\ number[k] \in Bijection(Of(k), 1..D[k])
  <2>1. IsFiniteSet(Of(k))
    BY FS_Subset, Of(k) \in SUBSET S
  <2>2. D[k] = Cardinality(Of(k)) /\ D[k] \in Nat
    BY <2>1, FS_CardinalityType
  <2>3. IsFiniteSet(1..D[k]) /\ Cardinality(1..D[k]) = D[k]
    <3> HIDE DEF D
    <3>1. 1 \in Int /\ D[k] \in Int
      BY <2>2
    <3>2. IsFiniteSet(1..D[k]) /\ Cardinality(1..D[k]) = IF 1 > D[k] THEN 0 ELSE D[k] - 1 + 1
      BY <3>1, FS_Interval
    <3> QED
      BY <2>2, <3>2
  <2>4. ExistsBijection(Of(k), 1..D[k])
    <3> HIDE DEF D, Of
    <3> QED
      BY <2>1, <2>2, <2>3, FS_SameCardinalityBij
  <2>5. \E g : g \in Bijection(Of(k), 1..D[k])
    BY <2>4 DEF ExistsBijection
  <2>6. number[k] = CHOOSE g : g \in Bijection(Of(k), 1..D[k])
    BY Zenon
  <2> HIDE DEF number, D, Of
  <2> QED
    BY <2>2, <2>5, <2>6
<1>2. DOMAIN D = K
  OBVIOUS
<1>3. \A c \in S : f[c] \in K /\ c \in Of(f[c]) /\ unit[c] = <<f[c], number[f[c]][c]>>
  OBVIOUS
<1>4. \A T : (\A c \in S : unit[c] \in T) => unit \in [S -> T]
  <2> HIDE DEF number, D
  <2> QED
    OBVIOUS
<1>5. \A k \in K : Of(k) \subseteq S /\ \A c \in Of(k) : f[c] = k
  OBVIOUS
<1> HIDE DEF Of, D, number, unit
<1>6. ASSUME NEW k \in K
      PROVE  /\ \A c \in Of(k) : number[k][c] \in 1..D[k]
             /\ \A c, d \in Of(k) : number[k][c] = number[k][d] => c = d
             /\ \A i \in 1..D[k] : \E c \in Of(k) : number[k][c] = i
  BY <1>1 DEF Bijection, Injection, Surjection, IsInjective
<1>7. unit \in Bijection(S, Unit)
  <2>1. ASSUME NEW c \in S PROVE unit[c] \in Unit
    <3>1. PICK k \in DOMAIN D : k = f[c] /\ number[k][c] \in 1..D[k]
      BY <1>2, <1>3, <1>6
    <3>2. unit[c] \in Units(k)
      <4>1. unit[c] = <<k, number[k][c]>>
        BY <1>3, <3>1
      <4> QED
        BY <3>1, <4>1
    <3> HIDE DEF Units
    <3> QED
      BY <3>2
  <2>2. ASSUME NEW c \in S, NEW d \in S, unit[c] = unit[d] PROVE c = d
    <3>1. f[c] = f[d] /\ number[f[c]][c] = number[f[d]][d]
      BY <1>3, <2>2
    <3>2. c \in Of(f[c]) /\ d \in Of(f[c]) /\ f[c] \in K
      BY <1>3, <3>1
    <3> QED
      BY <1>6, <3>1, <3>2
  <2>3. ASSUME NEW u \in Unit PROVE \E c \in S : unit[c] = u
    <3>0. PICK k \in K : u \in Units(k)
      BY <1>2
    <3>1. PICK i \in 1..D[k] : u = <<k, i>>
      BY <3>0
    <3>2. PICK c \in Of(k) : number[k][c] = i
      BY <1>6
    <3>3. c \in S /\ f[c] = k
      BY <1>5
    <3> QED
      BY <1>3, <3>1, <3>2, <3>3
  <2> HIDE DEF Unit
  <2>4. unit \in [S -> Unit]
    BY <1>4, <2>1
  <2> QED
    BY <2>2, <2>3, <2>4 DEF Bijection, Injection, Surjection, IsInjective
<1>8. Cardinality(Unit) = Cardinality(S)
  <2> HIDE DEF Unit
  <2> QED
    BY <1>7, FS_Bijection DEF ExistsBijection
<1> QED
  BY <1>8, Zenon DEF TotalOf, D, Unit, Units, Of

\* What the report has counted is what the window held at the time: none of those
\* cases goes, and if none came since the report began, none is missing.
ReportInv ==
  /\ known \subseteq CasesNow
  /\ query \in {"priority", "total", "answered"} =>
       /\ TotalOf(byStatus) \in Nat /\ TotalOf(byStatus) <= Cardinality(InWindow)
       /\ CasesNow = known => TotalOf(byStatus) = Cardinality(InWindow)
  /\ query \in {"total", "answered"} =>
       /\ TotalOf(byPriority) \in Nat /\ TotalOf(byStatus) <= TotalOf(byPriority)
       /\ TotalOf(byPriority) <= Cardinality(InWindow)
  /\ query = "answered" =>
       /\ reported \in Nat /\ TotalOf(byPriority) <= reported
       /\ CasesNow = known => TotalOf(byStatus) = reported
  /\ query \in {"none", "refused", "status", "priority", "total", "answered"}

\* The window at any time
LEMMA Windows ==
  ASSUME TypeOK
  PROVE  /\ IsFiniteSet(InWindow) /\ Cardinality(InWindow) \in Nat
         /\ \A c \in InWindow : table[c].status \in Status /\ table[c].priority \in Priority
<1>1. InWindow \subseteq CaseId
  BY DEF InWindow, CasesNow
<1>2. IsFiniteSet(InWindow) /\ Cardinality(InWindow) \in Nat
  BY <1>1, QueueAssumption, FS_Subset, FS_CardinalityType
<1>3. \A c \in InWindow : table[c] \in QueueRow
  BY DEF InWindow, CasesNow, TypeOK
<1> QED
  BY <1>2, <1>3, QueueAssumption

\* Cases come, and keep their day: the window only gains cases.
LEMMA WindowGrows ==
  ASSUME TypeOK, window' = window,
         \/ CreateCase \/ ChangeCase \/ table' = table
  PROVE  /\ CasesNow \subseteq CasesNow' /\ InWindow \subseteq InWindow'
         /\ CreateCase => CasesNow' # CasesNow
         /\ ~CreateCase => InWindow' = InWindow /\ CasesNow' = CasesNow
<1>0. table \in [CaseId -> QueueRow \cup {None}]
  BY DEF TypeOK
<1>1. CASE CreateCase
  <2>1. PICK c \in CaseId, r \in QueueRow : table[c] = None /\ table' = [table EXCEPT ![c] = r]
    BY <1>1 DEF CreateCase
  <2>2. \A d \in CaseId : table[d] # None => table'[d] = table[d]
    BY <1>0, <2>1
  <2>3. r # None
    BY QueueAssumption
  <2>4. c \in CasesNow' /\ c \notin CasesNow
    BY <1>0, <2>1, <2>3 DEF CasesNow
  <2>5. CasesNow \subseteq CasesNow'
    BY <2>2 DEF CasesNow
  <2>6. InWindow \subseteq InWindow'
    BY <2>2, <2>5 DEF InWindow, CasesNow
  <2> QED
    BY <1>1, <2>4, <2>5, <2>6
<1>2. CASE ChangeCase
  <2>1. PICK c \in CaseId, r \in QueueRow :
          /\ table[c] # None /\ table[c].created = r.created
          /\ table' = [table EXCEPT ![c] = r]
    BY <1>2 DEF ChangeCase
  <2>2. r # None
    BY QueueAssumption
  <2>3. \A d \in CaseId : /\ table'[d] # None <=> table[d] # None
                          /\ table[d] # None => table'[d].created = table[d].created
    BY <1>0, <2>1, <2>2
  <2>4. CasesNow' = CasesNow
    BY <2>3 DEF CasesNow
  <2>5. InWindow' = InWindow
    BY <2>3, <2>4 DEF InWindow, CasesNow
  <2>6. ~CreateCase
    <3>1. CreateCase => CasesNow' # CasesNow
      <4>1. ASSUME NEW d \in CaseId, NEW s \in QueueRow, table[d] = None,
                   table' = [table EXCEPT ![d] = s]
            PROVE  FALSE
        BY <1>0, <2>3, <4>1, QueueAssumption
      <4> QED
        BY <4>1 DEF CreateCase
    <3> QED
      BY <2>4, <3>1
  <2> QED
    BY <2>4, <2>5, <2>6
<1>3. CASE table' = table
  <2>1. CasesNow' = CasesNow /\ InWindow' = InWindow
    BY <1>3 DEF InWindow, CasesNow
  <2>2. ~CreateCase
    BY <1>0, <1>3, QueueAssumption DEF CreateCase
  <2> QED
    BY <2>1, <2>2
<1> QED
  BY <1>1, <1>2, <1>3

\* A query of the report counts the window as it is.
LEMMA Counts ==
  ASSUME TypeOK
  PROVE  /\ CountStatuses => TotalOf(byStatus') = Cardinality(InWindow)
         /\ CountPriorities => TotalOf(byPriority') = Cardinality(InWindow)
<1>1. /\ IsFiniteSet(InWindow)
      /\ [c \in InWindow |-> table[c].status] \in [InWindow -> Status]
      /\ [c \in InWindow |-> table[c].priority] \in [InWindow -> Priority]
  BY Windows
<1>2. ASSUME CountStatuses PROVE TotalOf(byStatus') = Cardinality(InWindow)
  <2> DEFINE f == [c \in InWindow |-> table[c].status]
  <2>1. \A s \in Status : {c \in InWindow : f[c] = s} = {c \in InWindow : table[c].status = s}
    OBVIOUS
  <2>2. byStatus' = [s \in Status |-> Cardinality({c \in InWindow : f[c] = s})]
    BY <1>2, <2>1 DEF CountStatuses
  <2>3. f \in [InWindow -> Status]
    BY <1>1
  <2> HIDE DEF f
  <2> QED
    BY <1>1, <2>2, <2>3, CountsAddUp
<1>3. ASSUME CountPriorities PROVE TotalOf(byPriority') = Cardinality(InWindow)
  <2> DEFINE f == [c \in InWindow |-> table[c].priority]
  <2>1. \A s \in Priority : {c \in InWindow : f[c] = s} = {c \in InWindow : table[c].priority = s}
    OBVIOUS
  <2>2. byPriority' = [s \in Priority |-> Cardinality({c \in InWindow : f[c] = s})]
    BY <1>3, <2>1 DEF CountPriorities
  <2>3. f \in [InWindow -> Priority]
    BY <1>1
  <2> HIDE DEF f
  <2> QED
    BY <1>1, <2>2, <2>3, CountsAddUp
<1> QED
  BY <1>2, <1>3

\* While the report waits, what it has counted stays within the window.
LEMMA ReportWaits ==
  ASSUME TypeOK, TypeOK', ReportInv, UNCHANGED report, CreateCase \/ ChangeCase \/ table' = table
  PROVE  ReportInv'
<1>1. UNCHANGED <<query, window, byStatus, byPriority, reported, known>>
  BY DEF report
<1>2. /\ CasesNow \subseteq CasesNow' /\ InWindow \subseteq InWindow'
      /\ CreateCase => CasesNow' # CasesNow
      /\ ~CreateCase => InWindow' = InWindow /\ CasesNow' = CasesNow
  BY <1>1, WindowGrows
<1>3. IsFiniteSet(InWindow') /\ Cardinality(InWindow') \in Nat /\ Cardinality(InWindow) \in Nat
  <2>1. InWindow' \subseteq CaseId
    BY DEF InWindow, CasesNow
  <2> QED
    BY <2>1, Windows, QueueAssumption, FS_Subset, FS_CardinalityType
<1>4. Cardinality(InWindow) <= Cardinality(InWindow')
  BY <1>2, <1>3, FS_Subset
<1>5. CasesNow' = known => ~CreateCase
  BY <1>2 DEF ReportInv
<1>6. /\ TotalOf(byStatus)' = TotalOf(byStatus) /\ TotalOf(byPriority)' = TotalOf(byPriority)
      /\ Cardinality(InWindow)' = Cardinality(InWindow')
  BY <1>1
<1> QED
  BY <1>1, <1>2, <1>3, <1>4, <1>5, <1>6 DEF ReportInv

\* No report has counted anything yet.
LEMMA ReportStart ==
  ASSUME ReportInit
  PROVE  ReportInv
BY DEF ReportInit, ReportInv

\* Every step of the queue and of the report keeps the invariant.
LEMMA ReportStep ==
  ASSUME TypeOK, TypeOK', ReportInv, [QueueAndReports]_<<vars, report>>
  PROVE  ReportInv'
<1>1. CASE /\ CreateCase \/ ChangeCase \/ PassTime
           /\ UNCHANGED report
  BY <1>1, ReportWaits DEF PassTime
<1>2. CASE /\ StartListing \/ CountCases \/ FetchPage \/ CountTotal \/ CountByStatus \/ Answer
           /\ UNCHANGED report
  <2>1. table' = table
    BY <1>2 DEF StartListing, CountCases, FetchPage, CountTotal, CountByStatus, Answer
  <2> QED
    BY <1>2, <2>1, ReportWaits
<1>3. CASE AskReport
  <2>1. CasesNow' = CasesNow /\ known' = CasesNow /\ query' \in {"refused", "status"}
    BY <1>3 DEF AskReport, CasesNow
  <2> QED
    BY <2>1 DEF ReportInv
<1> DEFINE N == Cardinality(InWindow)
<1>4. ASSUME UNCHANGED <<table, window>>
      PROVE  CasesNow' = CasesNow /\ Cardinality(InWindow)' = N
  BY <1>4 DEF CasesNow, InWindow
<1>5. N \in Nat
  BY Windows
<1>6. CASE CountStatuses
  <2>1. query' = "priority" /\ known' = known /\ UNCHANGED <<table, window>>
    BY <1>6 DEF CountStatuses, NextQuery, vars
  <2>2. TotalOf(byStatus)' = N
    BY <1>6, Counts
  <2> HIDE DEF N
  <2> QED
    BY <1>4, <1>5, <2>1, <2>2 DEF ReportInv
<1>7. CASE CountPriorities
  <2>1. /\ query = "priority" /\ query' = "total" /\ UNCHANGED <<table, window, known, byStatus>>
    BY <1>7 DEF CountPriorities, NextQuery, vars
  <2>2. TotalOf(byPriority)' = N /\ TotalOf(byStatus)' = TotalOf(byStatus)
    BY <1>7, <2>1, Counts
  <2>3. TotalOf(byStatus) \in Nat /\ TotalOf(byStatus) <= N /\ (CasesNow = known => TotalOf(byStatus) = N)
    BY <2>1 DEF ReportInv
  <2>4. known \subseteq CasesNow
    BY DEF ReportInv
  <2> HIDE DEF N
  <2> QED
    BY <1>4, <1>5, <2>1, <2>2, <2>3, <2>4 DEF ReportInv
<1>8. CASE CountReported
  <2>1. /\ query = "total" /\ query' = "answered" /\ reported' = N
        /\ UNCHANGED <<table, window, known, byStatus, byPriority>>
    BY <1>8 DEF CountReported, NextQuery, vars
  <2>2. TotalOf(byPriority)' = TotalOf(byPriority) /\ TotalOf(byStatus)' = TotalOf(byStatus)
    BY <2>1
  <2>3. /\ TotalOf(byStatus) \in Nat /\ TotalOf(byStatus) <= N /\ (CasesNow = known => TotalOf(byStatus) = N)
        /\ TotalOf(byPriority) \in Nat /\ TotalOf(byStatus) <= TotalOf(byPriority)
        /\ TotalOf(byPriority) <= N
    BY <2>1 DEF ReportInv
  <2>4. known \subseteq CasesNow
    BY DEF ReportInv
  <2> HIDE DEF N
  <2> QED
    BY <1>4, <1>5, <2>1, <2>2, <2>3, <2>4 DEF ReportInv
<1>9. CASE AnswerReport
  BY <1>9 DEF AnswerReport, ReportInv
<1>10. CASE UNCHANGED <<vars, report>>
  BY <1>10, ReportWaits DEF vars
<1> QED
  BY <1>1, <1>2, <1>3, <1>6, <1>7, <1>8, <1>9, <1>10 DEF QueueAndReports, ReportNext

\* A report counts the cases of its window by status, by priority and in total, in three
\* queries: each finds at least what the one before found, and all the same unless a
\* case was created since the report began, whatever was changed meanwhile.
THEOREM ReportAlwaysAddsUp == ReportSpec => []ReportAddsUp
<1>1. ReportInit => TypeOK /\ ReportInv
  BY TypeStart, ReportStart DEF ReportInit
<1>2. TypeOK /\ ReportInv /\ [QueueAndReports]_<<vars, report>> => TypeOK' /\ ReportInv'
  BY TypeStep, ReportStep
<1>3. ReportInv => ReportAddsUp
  BY DEF ReportInv, ReportAddsUp
<1> QED
  BY <1>1, <1>2, <1>3, PTL DEF ReportSpec
================================================================================

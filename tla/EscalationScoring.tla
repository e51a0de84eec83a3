---------------------------- MODULE EscalationScoring ----------------------------
(***************************************************************************)
(* Escalation scores over the life of a customer's cases: what is stored in   *)
(* RiskScore when cases are created, documents arrive, merchants answer and   *)
(* time passes.                                                              *)
(*                                                                          *)
(* Requests are served one after the other here (ReturnCaseWorkflow is about   *)
(* requests that overlap); what is modelled is the content of a score, and     *)
(* how it follows the facts it was computed from.                             *)
(***************************************************************************)
EXTENDS Integers, Sequences, FiniteSets

CONSTANTS
  None,
  CaseId,       \* primary keys
  Customer,     \* customer profiles
  Facts,        \* bound: what customers enter
  Time,         \* bound: the seconds at which things happen
  Probability,  \* bound: what a trained model may return, in thousandths
  MaxDocuments  \* bound: documents of all cases together

ASSUME ScoringAssumption ==
  /\ IsFiniteSet(CaseId)
  /\ Facts \subseteq [days : Int, message : Nat, value : Nat, reason : STRING]
  /\ Time \subseteq Nat
  /\ Probability \subseteq 0..1000
  /\ MaxDocuments \in Nat

Role  == {"customer", "merchant", "ops", "admin"}
Label == {"low", "medium", "high"}

\* What of a code depends on the facts entered alone; what can only come about
\* as returns are added; what documents take away
FixedCode   == {"delayed_return_window", "detailed_customer_message",
                "high_order_value", "damaged_item_reason"}
GrowingCode == {"repeat_return_history", "repeat_return_customer"}
AbsenceCode == {"missing_customer_evidence", "merchant_has_not_replied"}
Code == FixedCode \cup GrowingCode \cup AbsenceCode
          \cup {"slow_evidence_follow_up", "baseline_low_signal"}

CaseRow == [customer : Customer, facts : Facts, created : Time]

Scores == [scorer : {"placeholder", "model"}, score : 0..100, label : Label,
           codes : SUBSET Code]

ASSUME NoneAssumption == None \notin CaseRow /\ None \notin Scores

VARIABLES
  now,      \* the second
  cases,    \* the case of each primary key, None where there is none
  docs,     \* its documents, in the order of created_at and id
  risk,     \* its RiskScore, None where there is none
  current   \* did the last rescoring of the case go through?

vars == <<now, cases, docs, risk, current>>

Existing == {c \in CaseId : cases[c] # None}

--------------------------------------------------------------------------------
(* ml/features.py *)

Day == 24 * 3600

ReasonCodeOf(reason) ==
  CASE reason = "damaged"          -> 1
    [] reason = "wrong_item"       -> 2
    [] reason = "wrong_size"       -> 3
    [] reason = "not_as_described" -> 4
    [] reason = "changed_mind"     -> 5
    [] OTHER                       -> 99

\* The bands of a number: how many of the limits it has reached, from 1 on
Band(limits, number) == 1 + Cardinality({i \in DOMAIN limits : number >= limits[i]})

MessageBucket(length) == Band(<<40, 120, 240>>, length)
OrderValueBand(value) == Band(<<50, 150, 400>>, value)

\* faulty: the customer's returns of the last twelve hours
PriorReturns_Fault(c) ==
  Cardinality({d \in Existing \ {c} : /\ cases[d].customer = cases[c].customer
                                      /\ cases[d].created > now - Day \div 2})

\* The other returns of the customer
PriorReturns(c) ==
  Cardinality({d \in Existing \ {c} : cases[d].customer = cases[c].customer})

\* faulty: all documents of the case
DocumentsBy_Fault(c, role) == DOMAIN docs[c]

DocumentsBy(c, role) == {i \in DOMAIN docs[c] : docs[c][i].role = role}

\* Hundredths of an hour: round(max(seconds, 0) / 3600, 2).  An exact half is
\* rounded up here; the float of 23.995 hours, the half that decides about a day,
\* is rounded up too.
Hours(seconds) == (IF seconds < 0 THEN 18 ELSE seconds + 18) \div 36

\* faulty: order_by("-created_at", "-id")
HoursToFirstEvidence_Fault(c) ==
  LET given == DocumentsBy(c, "customer")
      first == CHOOSE i \in given : \A j \in given : i >= j
  IN  IF given = {} THEN 0 ELSE Hours(docs[c][first].at - cases[c].created)

HoursToFirstEvidence(c) ==
  LET given == DocumentsBy(c, "customer")
      first == CHOOSE i \in given : \A j \in given : i <= j
  IN  IF given = {} THEN 0 ELSE Hours(docs[c][first].at - cases[c].created)

\* extract_case_features
Features(c) ==
  [days     |-> IF cases[c].facts.days < 0 THEN 0 ELSE cases[c].facts.days,
   reason   |-> ReasonCodeOf(cases[c].facts.reason),
   message  |-> MessageBucket(cases[c].facts.message),
   prior    |-> PriorReturns(c),
   band     |-> OrderValueBand(cases[c].facts.value),
   evidence |-> Cardinality(DocumentsBy(c, "customer")),
   hours    |-> HoursToFirstEvidence(c),
   merchant |-> Cardinality(DocumentsBy(c, "merchant"))]

--------------------------------------------------------------------------------
(* ml/reason_codes.py: the rules that apply, or that none does *)

Applies(code, f) ==
  CASE code = "delayed_return_window"     -> f.days > 14
    [] code = "detailed_customer_message" -> f.message >= 3
    [] code = "repeat_return_history"     -> f.prior >= 2
    [] code = "high_order_value"          -> f.band >= 4
    [] code = "missing_customer_evidence" -> f.evidence = 0
    [] code = "damaged_item_reason"       -> f.reason = 1
    [] code = "slow_evidence_follow_up"   -> f.hours >= 2400
    [] code = "repeat_return_customer"    -> f.prior >= 3
    [] code = "merchant_has_not_replied"  -> f.merchant = 0
    [] OTHER                              -> FALSE

ReasonCodes(f) ==
  LET codes == {code \in Code : Applies(code, f)}
  IN  IF codes = {} THEN {"baseline_low_signal"} ELSE codes

--------------------------------------------------------------------------------
(* The scorers; a score is in hundredths *)

Clamp(low, high, n) == IF n < low THEN low ELSE IF n > high THEN high ELSE n

\* ml/scoring.py: the weighted placeholder, labelled by its rounded score
PlaceholderScore(f) ==
  Clamp(5, 95, 2 * f.days + 12 * f.message + 18 * f.prior + 10 * f.band
                 + IF f.reason = 1 THEN 20 ELSE 0)

Placeholder(f) ==
  LET score == PlaceholderScore(f)
  IN  [scorer |-> "placeholder", score |-> score, codes |-> ReasonCodes(f),
       label |-> IF score >= 70 THEN "high" ELSE IF score >= 40 THEN "medium" ELSE "low"]

\* faulty: thousandths kept
Quantised_Fault(p) == p

\* quantise_score: half up to two places
Quantised(p) == (p + 5) \div 10

\* ml/services/scoring.py: a trained model, labelled by its probability
Trained(f, p) ==
  [scorer |-> "model", score |-> Quantised(p), codes |-> ReasonCodes(f),
   label |-> IF p >= 750 THEN "high" ELSE IF p >= 450 THEN "medium" ELSE "low"]

\* What scoring case c may store: by the active model or, without one, the
\* placeholder
Results(c) ==
  UNION {{Placeholder(f)} \cup {Trained(f, p) : p \in Probability} : f \in {Features(c)}}

--------------------------------------------------------------------------------
Init ==
  /\ now \in Time
  /\ cases = [c \in CaseId |-> None]
  /\ docs = [c \in CaseId |-> <<>>]
  /\ risk = [c \in CaseId |-> None]
  /\ current = [c \in CaseId |-> FALSE]

\* score_case_and_persist, of what the transaction has written so far.  Where an
\* error of it is not swallowed the request is rolled back: nothing happens.
Rescore(c) ==
  /\ \E r \in Results(c)' : risk' = [risk EXCEPT ![c] = r]
  /\ current' = [current EXCEPT ![c] = TRUE]

\* create_return_case
CreateCase(c) ==
  /\ cases[c] = None
  /\ \E u \in Customer, f \in Facts :
       cases' = [cases EXCEPT ![c] = [customer |-> u, facts |-> f, created |-> now]]
  /\ UNCHANGED <<now, docs>>
  /\ Rescore(c)

\* update_return_case_status, which rescores, whatever the statuses
UpdateStatus(c) ==
  /\ c \in Existing
  /\ UNCHANGED <<now, cases, docs>>
  /\ Rescore(c)

\* upload_document_for_case, by itself and as part of a merchant's response;
\* an error of the scoring is swallowed and the document stays.  (A response by a
\* note alone is only an event: it changes no feature and does not rescore.)
Upload(c, role) ==
  /\ c \in Existing
  /\ Cardinality(UNION {{d} \X DOMAIN docs[d] : d \in CaseId}) < MaxDocuments
  /\ docs' = [docs EXCEPT ![c] = Append(@, [role |-> role, at |-> now])]
  /\ UNCHANGED <<now, cases>>
  /\ \/ Rescore(c)
     \/ current' = [current EXCEPT ![c] = FALSE] /\ UNCHANGED risk

PassTime ==
  /\ \E t \in Time : t > now /\ now' = t
  /\ UNCHANGED <<cases, docs, risk, current>>

Next ==
  \/ \E c \in CaseId :
       \/ CreateCase(c) \/ UpdateStatus(c)
       \/ \E role \in Role : Upload(c, role)
  \/ PassTime

Spec == Init /\ [][Next]_vars

--------------------------------------------------------------------------------
(* Properties *)

\* Every variable has its type: a score is one that DecimalField(5, 2) holds and
\* that is at most 1.
TypeOK ==
  /\ now \in Time
  /\ cases \in [CaseId -> CaseRow \cup {None}]
  /\ docs \in [CaseId -> Seq([role : Role, at : Time])]
  /\ risk \in [CaseId -> Scores \cup {None}]
  /\ current \in [CaseId -> BOOLEAN]

\* Some document of role on case c
Has(c, role) == \E i \in DOMAIN docs[c] : docs[c][i].role = role

\* The codes of a score speak of the documents the case has now, however many
\* have come in and whoever sent them, unless the last rescoring failed: every
\* way for a document to arrive rescores.  Evidence is slow from 24 hours on, less
\* the 18 seconds that rounding to hundredths of an hour makes up for.
CodesExplainDocuments ==
  \A c \in CaseId :
    risk[c] # None /\ current[c] =>
      LET codes == risk[c].codes
      IN  /\ "missing_customer_evidence" \in codes <=> ~Has(c, "customer")
          /\ "merchant_has_not_replied" \in codes <=> ~Has(c, "merchant")
          /\ "slow_evidence_follow_up" \in codes <=>
               /\ Has(c, "customer")
               /\ \A i \in DOMAIN docs[c] : docs[c][i].role = "customer" =>
                    docs[c][i].at >= cases[c].created + (Day - 18)

\* However often a case is rescored: what follows from the facts entered stays,
\* what has been supplied is never missed again, and first evidence that was in
\* time never becomes slow.
CodesOnlyProgress ==
  [][\A c \in CaseId :
       risk[c] # None =>
         /\ risk'[c] # None
         /\ LET old == risk[c].codes
                new == risk'[c].codes
            IN  /\ old \cap FixedCode = new \cap FixedCode
                /\ new \cap AbsenceCode \subseteq old
                /\ "slow_evidence_follow_up" \in new =>
                     old \cap {"slow_evidence_follow_up", "missing_customer_evidence"} # {}
    ]_vars

\* A history of returns is never taken back: no rescoring removes its codes, and
\* none by the placeholder lowers the placeholder's score.
HistoryNeverShrinks ==
  [][\A c \in CaseId :
       risk[c] # None =>
         /\ risk[c].codes \cap GrowingCode \subseteq risk'[c].codes
         /\ risk[c].scorer = "placeholder" /\ risk'[c].scorer = "placeholder" =>
              risk'[c].score >= risk[c].score]_vars
================================================================================

------------------------- MODULE EscalationScoringProofs -------------------------
(***************************************************************************)
(* Theorems about stored scores, for any number of cases, customers and         *)
(* documents.                                                               *)
(*                                                                          *)
(* A score never outruns the history of returns: with an invariant that       *)
(* bounds what is stored by what a scoring would find now, the action          *)
(* property HistoryNeverShrinks holds.                                        *)
(***************************************************************************)
EXTENDS EscalationScoring, FiniteSetTheorems, WellFoundedInduction, TLAPS

\* Returns are never removed or moved: what cases may become.
CasesGrow == \A c \in Existing : cases'[c] = cases[c]

\* What is stored for case c is covered by what is known of it now
Covered(c) ==
  /\ cases[c] # None
  /\ "repeat_return_history" \in risk[c].codes => PriorReturns(c) >= 2
  /\ "repeat_return_customer" \in risk[c].codes => PriorReturns(c) >= 3
  /\ risk[c].scorer = "placeholder" => risk[c].score <= PlaceholderScore(Features(c))

CasesTyped == cases \in [CaseId -> CaseRow \cup {None}]

\* Whatever scoring a case may give is a score, and says what is known now
ResultsTrue ==
  \A c \in Existing : \A r \in Results(c) :
    /\ r \in Scores
    /\ "repeat_return_history" \in r.codes <=> PriorReturns(c) >= 2
    /\ "repeat_return_customer" \in r.codes <=> PriorReturns(c) >= 3
    /\ r.scorer = "placeholder" => r.score = PlaceholderScore(Features(c))

\* What the placeholder weighs are numbers
FeaturesTyped ==
  \A c \in Existing :
    /\ Features(c).days \in Nat /\ Features(c).message \in Nat
    /\ Features(c).band \in Nat /\ Features(c).prior \in Nat

HistoryInv ==
  /\ now \in Time
  /\ cases \in [CaseId -> CaseRow \cup {None}]
  /\ risk \in [CaseId -> Scores \cup {None}]
  /\ \A c \in CaseId : risk[c] # None => Covered(c)

--------------------------------------------------------------------------------
(* Lemmas about the features *)

\* A band is a number, whatever the limits.
LEMMA BandType ==
  ASSUME NEW limits, NEW n \in Nat, DOMAIN limits = 1..n, NEW number
  PROVE  Band(limits, number) \in Nat
<1> DEFINE reached == {i \in DOMAIN limits : number >= limits[i]}
<1>1. IsFiniteSet(1..n)
  BY FS_Interval
<1>2. IsFiniteSet(reached)
  BY <1>1, FS_Subset
<1>3. Cardinality(reached) \in Nat
  BY <1>2, FS_CardinalityType
<1> QED
  BY <1>3 DEF Band

\* The number of prior returns is a number.
LEMMA PriorType ==
  ASSUME NEW c
  PROVE  PriorReturns(c) \in Nat
<1> DEFINE others == {d \in Existing \ {c} : cases[d].customer = cases[c].customer}
<1>1. IsFiniteSet(others)
  BY ScoringAssumption, FS_Subset DEF Existing
<1> QED
  BY <1>1, FS_CardinalityType DEF PriorReturns

\* As returns are only added, no case loses prior returns.
LEMMA PriorGrows ==
  ASSUME CasesGrow, NEW c \in Existing, Existing \subseteq Existing'
  PROVE  PriorReturns(c)' >= PriorReturns(c)
<1> DEFINE before == {d \in Existing \ {c} : cases[d].customer = cases[c].customer}
           after  == {d \in Existing' \ {c} : cases'[d].customer = cases'[c].customer}
<1>1. before \subseteq after
  BY DEF CasesGrow
<1>2. IsFiniteSet(after)
  BY ScoringAssumption, FS_Subset DEF Existing
<1>3. Cardinality(before) <= Cardinality(after)
  BY <1>1, <1>2, FS_Subset
<1>4. Cardinality(before) \in Nat /\ Cardinality(after) \in Nat
  BY <1>1, <1>2, FS_Subset, FS_CardinalityType
<1> QED
  BY <1>3, <1>4 DEF PriorReturns

\* The placeholder's score is a probability in hundredths.
LEMMA ScoreType ==
  ASSUME NEW f, f.days \in Nat, f.message \in Nat, f.band \in Nat, f.prior \in Nat
  PROVE  PlaceholderScore(f) \in 0..100
<1> DEFINE raw == 2 * f.days + 12 * f.message + 18 * f.prior + 10 * f.band
                    + IF f.reason = 1 THEN 20 ELSE 0
<1>1. raw \in Nat
  OBVIOUS
<1>2. PlaceholderScore(f) = Clamp(5, 95, raw)
  BY DEF PlaceholderScore
<1> HIDE DEF raw
<1> QED
  BY <1>1, <1>2 DEF Clamp

\* More prior returns never make the placeholder's score smaller.
LEMMA ScoreMonotone ==
  ASSUME NEW f, NEW g,
         f.days \in Nat, f.message \in Nat, f.band \in Nat,
         f.prior \in Nat, g.prior \in Nat, f.prior <= g.prior,
         g.days = f.days, g.message = f.message, g.band = f.band, g.reason = f.reason
  PROVE  PlaceholderScore(f) <= PlaceholderScore(g)
<1> DEFINE plus == IF f.reason = 1 THEN 20 ELSE 0
           raw(h) == 2 * h.days + 12 * h.message + 18 * h.prior + 10 * h.band + plus
<1>1. plus \in Nat
  OBVIOUS
<1>2. raw(f) \in Nat /\ raw(g) \in Nat /\ raw(f) <= raw(g)
  BY <1>1
<1>3. PlaceholderScore(f) = Clamp(5, 95, raw(f)) /\ PlaceholderScore(g) = Clamp(5, 95, raw(g))
  BY DEF PlaceholderScore
<1> HIDE DEF raw
<1> QED
  BY <1>2, <1>3 DEF Clamp

\* What the placeholder weighs of an existing case are numbers.
LEMMA FeatureTypes ==
  CasesTyped => FeaturesTyped
<1> SUFFICES ASSUME CasesTyped, NEW c \in Existing
             PROVE  /\ Features(c).days \in Nat /\ Features(c).message \in Nat
                    /\ Features(c).band \in Nat /\ Features(c).prior \in Nat
  BY DEF FeaturesTyped
<1>1. cases[c].facts \in Facts
  BY DEF CasesTyped, CaseRow, Existing
<1>2. cases[c].facts.days \in Int
  BY <1>1, ScoringAssumption
<1>3. Features(c).days \in Nat
  BY <1>2 DEF Features
<1>4. DOMAIN <<40, 120, 240>> = 1..3 /\ DOMAIN <<50, 150, 400>> = 1..3
  OBVIOUS
<1>5. Features(c).message \in Nat
  BY <1>4, BandType DEF Features, MessageBucket
<1>6. Features(c).band \in Nat
  BY <1>4, BandType DEF Features, OrderValueBand
<1>7. Features(c).prior \in Nat
  BY PriorType DEF Features
<1> QED
  BY <1>3, <1>5, <1>6, <1>7

--------------------------------------------------------------------------------
(* The steps *)

\* No step removes a return or changes what is known of it.
LEMMA StepKeepsCases ==
  ASSUME HistoryInv, [Next]_vars
  PROVE  /\ cases' \in [CaseId -> CaseRow \cup {None}]
         /\ CasesGrow
         /\ Existing \subseteq Existing'
         /\ now' \in Time
<1>1. ASSUME NEW c \in CaseId, CreateCase(c)
      PROVE  cases' \in [CaseId -> CaseRow \cup {None}] /\ CasesGrow /\ Existing \subseteq Existing'
  <2>1. PICK u \in Customer, f \in Facts :
          cases' = [cases EXCEPT ![c] = [customer |-> u, facts |-> f, created |-> now]]
    BY <1>1 DEF CreateCase
  <2> DEFINE row == [customer |-> u, facts |-> f, created |-> now]
  <2>2. row \in CaseRow
    BY DEF HistoryInv, CaseRow
  <2>3. row # None
    BY <2>2, NoneAssumption
  <2>4. cases[c] = None
    BY <1>1 DEF CreateCase
  <2>5. cases' = [cases EXCEPT ![c] = row]
    BY <2>1
  <2> HIDE DEF row
  <2> QED
    BY <2>2, <2>3, <2>4, <2>5 DEF HistoryInv, CasesGrow, Existing
<1>2. ASSUME UNCHANGED cases
      PROVE  cases' \in [CaseId -> CaseRow \cup {None}] /\ CasesGrow /\ Existing \subseteq Existing'
  BY <1>2 DEF HistoryInv, CasesGrow, Existing
<1>3. (\E c \in CaseId : CreateCase(c)) \/ UNCHANGED cases
  BY DEF Next, vars, UpdateStatus, Upload, PassTime
<1>4. now' \in Time
  BY DEF HistoryInv, Next, vars, CreateCase, UpdateStatus, Upload, PassTime
<1> QED
  BY <1>1, <1>2, <1>3, <1>4

\* The score of a case stays as it is, or is what scoring the case as it now is
\* gives.
LEMMA StepRescores ==
  ASSUME HistoryInv, [Next]_vars, NEW c \in CaseId
  PROVE  /\ \/ risk'[c] = risk[c]
            \/ risk'[c] \in Results(c)' /\ c \in Existing'
         /\ risk[c] # None => c \in Existing
         /\ risk' = [d \in CaseId |-> risk'[d]]
<1>1. risk[c] # None => c \in Existing
  BY DEF HistoryInv, Covered, Existing
<1>2. ASSUME NEW d \in CaseId, Rescore(d), d \in Existing'
      PROVE  risk'[c] = risk[c] \/ (risk'[c] \in Results(c)' /\ c \in Existing')
  <2>1. PICK r \in Results(d)' : risk' = [risk EXCEPT ![d] = r]
    BY <1>2 DEF Rescore
  <2>2. CASE c = d
    BY <2>1, <2>2, <1>2 DEF HistoryInv
  <2>3. CASE c # d
    BY <2>1, <2>3 DEF HistoryInv
  <2> QED
    BY <2>2, <2>3
<1>3. (\E d \in CaseId : Rescore(d) /\ d \in Existing') \/ UNCHANGED risk
  <2>1. ASSUME NEW d \in CaseId, CreateCase(d)
        PROVE  Rescore(d) /\ d \in Existing'
    <3>1. PICK u \in Customer, f \in Facts :
            cases' = [cases EXCEPT ![d] = [customer |-> u, facts |-> f, created |-> now]]
      BY <2>1 DEF CreateCase
    <3>2. [customer |-> u, facts |-> f, created |-> now] \in CaseRow
      BY DEF HistoryInv, CaseRow
    <3>3. cases'[d] # None
      BY <3>1, <3>2, NoneAssumption DEF HistoryInv
    <3> QED
      BY <2>1, <3>3 DEF CreateCase, Existing
  <2>2. ASSUME NEW d \in CaseId, UpdateStatus(d)
        PROVE  Rescore(d) /\ d \in Existing'
    BY <2>2 DEF UpdateStatus, Existing
  <2>3. ASSUME NEW d \in CaseId, NEW role \in Role, Upload(d, role)
        PROVE  (Rescore(d) /\ d \in Existing') \/ UNCHANGED risk
    BY <2>3 DEF Upload, Existing
  <2>4. CASE PassTime \/ UNCHANGED vars
    BY <2>4 DEF PassTime, vars
  <2> QED
    BY <2>1, <2>2, <2>3, <2>4 DEF Next
<1>4. risk' = [d \in CaseId |-> risk'[d]]
  BY <1>3 DEF Rescore, HistoryInv
<1> QED
  BY <1>1, <1>2, <1>3, <1>4

\* What scoring a case gives is a score, and is covered.
LEMMA ResultsAreTrue ==
  CasesTyped => ResultsTrue
<1> SUFFICES ASSUME CasesTyped, NEW c \in Existing, NEW r \in Results(c)
             PROVE  /\ r \in Scores
                    /\ "repeat_return_history" \in r.codes <=> PriorReturns(c) >= 2
                    /\ "repeat_return_customer" \in r.codes <=> PriorReturns(c) >= 3
                    /\ r.scorer = "placeholder" => r.score = PlaceholderScore(Features(c))
  BY DEF ResultsTrue
<1> DEFINE f == Features(c)
<1>1. /\ "repeat_return_history" \in ReasonCodes(f) <=> f.prior >= 2
      /\ "repeat_return_customer" \in ReasonCodes(f) <=> f.prior >= 3
      /\ ReasonCodes(f) \in SUBSET Code
  BY DEF ReasonCodes, Applies, Code, GrowingCode, FixedCode, AbsenceCode
<1>2. f.prior = PriorReturns(c)
  BY DEF Features
<1>3. PlaceholderScore(f) \in 0..100
  <2>1. f.days \in Nat /\ f.message \in Nat /\ f.band \in Nat /\ f.prior \in Nat
    BY FeatureTypes DEF FeaturesTyped
  <2> HIDE DEF f
  <2> QED
    BY <2>1, ScoreType
<1> HIDE DEF f
<1>4. CASE r = Placeholder(f)
  BY <1>1, <1>2, <1>3, <1>4 DEF Placeholder, Scores, Label, f
<1>5. ASSUME NEW p \in Probability, r = Trained(f, p)
      PROVE  /\ r \in Scores
             /\ r.scorer # "placeholder"
             /\ r.codes = ReasonCodes(f)
  <2>1. Quantised(p) \in 0..100
    BY ScoringAssumption DEF Quantised
  <2> QED
    BY <1>1, <1>5, <2>1 DEF Trained, Scores, Label
<1>6. r = Placeholder(f) \/ \E p \in Probability : r = Trained(f, p)
  BY DEF Results, f
<1> QED
  BY <1>1, <1>2, <1>4, <1>5, <1>6 DEF f

\* The same of the next state.
LEMMA NextStateFacts ==
  CasesTyped' => ResultsTrue' /\ FeaturesTyped'
BY ResultsAreTrue, FeatureTypes, PTL

\* A step keeps what is stored covered, and takes back nothing.
LEMMA HistoryStep ==
  ASSUME HistoryInv, [Next]_vars
  PROVE  /\ HistoryInv'
         /\ \A c \in CaseId :
              risk[c] # None =>
                /\ risk[c].codes \cap GrowingCode \subseteq risk'[c].codes
                /\ risk[c].scorer = "placeholder" /\ risk'[c].scorer = "placeholder" =>
                     risk'[c].score >= risk[c].score
<1>1. /\ CasesTyped /\ CasesTyped'
      /\ CasesGrow /\ Existing \subseteq Existing'
      /\ now' \in Time
  BY StepKeepsCases DEF HistoryInv, CasesTyped
<1>2. ResultsTrue' /\ FeaturesTyped /\ FeaturesTyped'
  BY <1>1, NextStateFacts, FeatureTypes
<1>3. risk' \in [CaseId -> Scores \cup {None}]
  <2>1. ASSUME NEW c \in CaseId
        PROVE  risk'[c] \in Scores \cup {None} /\ risk' = [d \in CaseId |-> risk'[d]]
    BY <1>2, StepRescores DEF HistoryInv, ResultsTrue
  <2>2. CASE CaseId = {}
    <3>1. risk' = risk
      BY <2>2 DEF Next, vars, PassTime
    <3> QED
      BY <3>1 DEF HistoryInv
  <2> QED
    BY <2>1, <2>2
<1>4. ASSUME NEW c \in Existing
      PROVE  /\ PriorReturns(c) \in Nat /\ PriorReturns(c)' \in Nat
             /\ PriorReturns(c) <= PriorReturns(c)'
             /\ PlaceholderScore(Features(c)) \in Int /\ PlaceholderScore(Features(c))' \in Int
             /\ PlaceholderScore(Features(c)) <= PlaceholderScore(Features(c))'
  <2>1. PriorReturns(c) \in Nat
    BY PriorType
  <2>2. c \in Existing' /\ c \in CaseId
    BY <1>1 DEF Existing
  <2>3. PriorReturns(c)' \in Nat
    BY <1>2, <2>2 DEF FeaturesTyped, Features
  <2>4. PriorReturns(c) <= PriorReturns(c)'
    BY <1>1, <2>1, <2>3, PriorGrows
  <2>5. cases'[c] = cases[c]
    BY <1>1 DEF CasesGrow
  <2> DEFINE f == Features(c)
             g == Features(c)'
  <2>6. /\ g.days = f.days /\ g.message = f.message
        /\ g.band = f.band /\ g.reason = f.reason
        /\ f.prior = PriorReturns(c) /\ g.prior = PriorReturns(c)'
    BY <2>5 DEF Features
  <2>7. f.days \in Nat /\ f.message \in Nat /\ f.band \in Nat
    BY <1>2 DEF FeaturesTyped
  <2> HIDE DEF f, g
  <2>8. PlaceholderScore(f) <= PlaceholderScore(g)
    BY <2>1, <2>3, <2>4, <2>6, <2>7, ScoreMonotone
  <2>9. PlaceholderScore(f) \in Int /\ PlaceholderScore(g) \in Int
    BY <2>1, <2>3, <2>6, <2>7, ScoreType
  <2> QED
    BY <2>1, <2>3, <2>4, <2>8, <2>9 DEF f, g
<1>5. ASSUME NEW c \in CaseId, risk'[c] # None
      PROVE  Covered(c)'
  <2>1. CASE risk'[c] \in Results(c)' /\ c \in Existing'
    <3>1. /\ "repeat_return_history" \in risk'[c].codes => PriorReturns(c)' >= 2
          /\ "repeat_return_customer" \in risk'[c].codes => PriorReturns(c)' >= 3
          /\ risk'[c].scorer = "placeholder" =>
               risk'[c].score = PlaceholderScore(Features(c))'
          /\ risk'[c] \in Scores
      BY <1>2, <2>1 DEF ResultsTrue
    <3>2. risk'[c].score \in Int
      BY <3>1 DEF Scores
    <3>3. cases'[c] # None
      BY <2>1 DEF Existing
    <3> QED
      BY <3>1, <3>2, <3>3 DEF Covered
  <2>2. CASE risk'[c] = risk[c]
    <3>1. Covered(c) /\ c \in Existing
      BY <1>5, <2>2 DEF HistoryInv, Covered, Existing
    <3>2. cases'[c] # None
      BY <1>1, <3>1 DEF CasesGrow, Existing
    <3>3. risk'[c].score \in Int
      BY <1>3, <1>5 DEF Scores
    <3>4. /\ PriorReturns(c) \in Nat /\ PriorReturns(c)' \in Nat
          /\ PriorReturns(c) <= PriorReturns(c)'
      BY <1>4, <3>1
    <3>5. /\ PlaceholderScore(Features(c)) \in Int /\ PlaceholderScore(Features(c))' \in Int
          /\ PlaceholderScore(Features(c)) <= PlaceholderScore(Features(c))'
      BY <1>4, <3>1
    <3> QED
      BY <2>2, <3>1, <3>2, <3>3, <3>4, <3>5 DEF Covered
  <2> QED
    BY <2>1, <2>2, StepRescores
<1>6. ASSUME NEW c \in CaseId, risk[c] # None
      PROVE  /\ risk[c].codes \cap GrowingCode \subseteq risk'[c].codes
             /\ risk[c].scorer = "placeholder" /\ risk'[c].scorer = "placeholder" =>
                  risk'[c].score >= risk[c].score
  <2>1. Covered(c) /\ c \in Existing /\ risk[c] \in Scores
    BY <1>6 DEF HistoryInv, Covered, Existing
  <2>2. CASE risk'[c] = risk[c]
    BY <2>1, <2>2 DEF Scores
  <2>3. CASE risk'[c] \in Results(c)' /\ c \in Existing'
    <3>1. /\ "repeat_return_history" \in risk'[c].codes <=> PriorReturns(c)' >= 2
          /\ "repeat_return_customer" \in risk'[c].codes <=> PriorReturns(c)' >= 3
          /\ risk'[c].scorer = "placeholder" =>
               risk'[c].score = PlaceholderScore(Features(c))'
      BY <1>2, <2>3 DEF ResultsTrue
    <3>2. /\ PriorReturns(c) \in Nat /\ PriorReturns(c)' \in Nat
          /\ PriorReturns(c) <= PriorReturns(c)'
          /\ PlaceholderScore(Features(c)) \in Int /\ PlaceholderScore(Features(c))' \in Int
          /\ PlaceholderScore(Features(c)) <= PlaceholderScore(Features(c))'
      BY <1>4, <2>1
    <3>3. risk[c].codes \cap GrowingCode \subseteq risk'[c].codes
      BY <2>1, <3>1, <3>2 DEF Covered, GrowingCode
    <3>4. risk[c].score \in Int
      BY <2>1 DEF Scores
    <3> QED
      BY <2>1, <3>1, <3>2, <3>3, <3>4 DEF Covered
  <2> QED
    BY <2>2, <2>3, StepRescores
<1>7. HistoryInv'
  BY <1>1, <1>3, <1>5 DEF HistoryInv, CasesTyped
<1> QED
  BY <1>6, <1>7

\* Every reachable state satisfies the invariant.
THEOREM HistoryHolds == Spec => []HistoryInv
<1>1. Init => HistoryInv
  BY DEF Init, HistoryInv
<1>2. HistoryInv /\ [Next]_vars => HistoryInv'
  BY HistoryStep
<1> QED
  BY <1>1, <1>2, PTL DEF Spec

\* A history of returns is never taken back: no rescoring removes its codes or,
\* by the placeholder, lowers its score, for any number of cases, customers and
\* documents and any trained model.
THEOREM HistoryKept == Spec => HistoryNeverShrinks
<1>1. HistoryInv /\ [Next]_vars =>
        [\A c \in CaseId :
           risk[c] # None =>
             /\ risk[c].codes \cap GrowingCode \subseteq risk'[c].codes
             /\ risk[c].scorer = "placeholder" /\ risk'[c].scorer = "placeholder" =>
                  risk'[c].score >= risk[c].score]_vars
  BY HistoryStep
<1> QED
  BY <1>1, HistoryHolds, PTL DEF Spec, HistoryNeverShrinks

--------------------------------------------------------------------------------
(* The reason codes of a score tell of the documents there are, and from one     *)
(* score to the next they only move with what has been supplied.                *)
(*                                                                          *)
(* A score may be older than the documents of its case, when a rescoring failed. *)
(* CodesInv says what remains true of it then: documents and cases are only      *)
(* added, so what it found supplied still is.                                  *)


Document == [role : Role, at : Time]

\* The documents of a case are in the order they came in
DocsInv ==
  /\ docs \in [CaseId -> Seq(Document)]
  /\ \A c \in CaseId : \A i, j \in DOMAIN docs[c] :
       i <= j => docs[c][i].at <= docs[c][j].at
  /\ \A c \in CaseId : \A i \in DOMAIN docs[c] : docs[c][i].at <= now

\* Did the customer's evidence begin a day or more, up to rounding, after the case?
Late(c) == \A i \in DOMAIN docs[c] :
             docs[c][i].role = "customer" =>
               docs[c][i].at >= cases[c].created + (Day - 18)

\* The codes that follow from the facts entered
FixedOf(c) == {code \in FixedCode : Applies(code, Features(c))}

\* The codes say what is known of the case now
CodesTrue(c, codes) ==
  /\ codes \cap FixedCode = FixedOf(c)
  /\ "missing_customer_evidence" \in codes <=> ~Has(c, "customer")
  /\ "merchant_has_not_replied" \in codes <=> ~Has(c, "merchant")
  /\ "slow_evidence_follow_up" \in codes <=> Has(c, "customer") /\ Late(c)

\* What they say once more documents may have come in
CodesHold(c, codes) ==
  /\ codes \cap FixedCode = FixedOf(c)
  /\ "missing_customer_evidence" \notin codes => Has(c, "customer")
  /\ "merchant_has_not_replied" \notin codes => Has(c, "merchant")
  /\ {"slow_evidence_follow_up", "missing_customer_evidence"} \cap codes = {} => ~Late(c)

\* What is stored of case c holds, and is true if the last rescoring went through
Explained(c) == /\ CodesHold(c, risk[c].codes)
                /\ current[c] => CodesTrue(c, risk[c].codes)

CodesInv ==
  /\ DocsInv
  /\ current \in [CaseId -> BOOLEAN]
  /\ \A c \in CaseId : risk[c] # None => Explained(c)

--------------------------------------------------------------------------------
(* Scoring tells the truth *)

\* A set of numbers has a least one, unless it is empty.
LEMMA LeastNumber ==
  ASSUME NEW S, S \subseteq Nat, S # {}
  PROVE  \E i \in S : \A j \in S : i <= j
<1>1. PICK i \in S : \A j \in S : <<j, i>> \notin OpToRel(<, Nat)
  BY NatLessThanWellFounded, WFMin
<1>2. ASSUME NEW j \in S
      PROVE  i <= j
  <2>1. SUFFICES ASSUME j < i
                 PROVE  FALSE
    OBVIOUS
  <2>2. <<j, i>>[1] < <<j, i>>[2] /\ <<j, i>> \in Nat \X Nat
    BY <2>1
  <2>3. <<j, i>> \in {p \in Nat \X Nat : p[1] < p[2]}
    BY <2>2
  <2> QED
    BY <1>1, <2>3 DEF OpToRel
<1> QED
  BY <1>2

\* The documents of a role are counted as none only if there are none.
LEMMA CountedIfThere ==
  ASSUME DocsInv, NEW c \in CaseId, NEW role
  PROVE  Cardinality(DocumentsBy(c, role)) = 0 <=> ~Has(c, role)
<1>1. docs[c] \in Seq(Document)
  BY DEF DocsInv
<1>2. Len(docs[c]) \in Nat /\ DOMAIN docs[c] = 1..Len(docs[c])
  BY <1>1
<1>3. IsFiniteSet(DOMAIN docs[c])
  BY <1>2, FS_Interval
<1>4. IsFiniteSet(DocumentsBy(c, role))
  BY <1>3, FS_Subset DEF DocumentsBy
<1>5. Cardinality(DocumentsBy(c, role)) = 0 <=> DocumentsBy(c, role) = {}
  BY <1>4, FS_EmptySet
<1> QED
  BY <1>5 DEF DocumentsBy, Has

\* Rounding makes up for 18 seconds of a day, and no more.
LEMMA DayInHours ==
  ASSUME NEW seconds \in Int
  PROVE  Hours(seconds) >= 2400 <=> seconds >= Day - 18
BY DEF Hours, Day

\* The first document of the customer tells whether all of them are late.
LEMMA FirstTellsAll ==
  ASSUME DocsInv, CasesTyped, NEW c \in Existing
  PROVE  HoursToFirstEvidence(c) >= 2400 <=> Has(c, "customer") /\ Late(c)
<1> DEFINE given == DocumentsBy(c, "customer")
           first == CHOOSE i \in given : \A j \in given : i <= j
<1>0. c \in CaseId
  BY DEF Existing
<1>1. docs[c] \in Seq(Document)
  BY <1>0 DEF DocsInv
<1>2. DOMAIN docs[c] \subseteq Nat
  BY <1>1
<1>3. \A i \in DOMAIN docs[c] : docs[c][i] \in Document
  BY <1>1
<1>4. cases[c].created \in Nat
  BY <1>0, ScoringAssumption DEF CasesTyped, Existing, CaseRow
<1>5. \A i \in DOMAIN docs[c] : docs[c][i].at \in Nat
  BY <1>3, ScoringAssumption DEF Document
<1>6. CASE given = {}
  <2>1. ~Has(c, "customer")
    BY <1>6 DEF Has, DocumentsBy
  <2>2. HoursToFirstEvidence(c) = 0
    BY <1>6 DEF HoursToFirstEvidence
  <2> QED
    BY <2>1, <2>2
<1>7. CASE given # {}
  <2>1. given \subseteq DOMAIN docs[c]
    BY DEF DocumentsBy
  <2>2. \E i \in given : \A j \in given : i <= j
    BY <1>2, <1>7, <2>1, LeastNumber
  <2>3. first \in given /\ \A j \in given : first <= j
    BY <2>2
  <2>4. HoursToFirstEvidence(c) = Hours(docs[c][first].at - cases[c].created)
    BY <1>7 DEF HoursToFirstEvidence
  <2> HIDE DEF first
  <2>5. /\ first \in DOMAIN docs[c] /\ docs[c][first].role = "customer"
        /\ \A j \in DOMAIN docs[c] :
             docs[c][j].role = "customer" => docs[c][first].at <= docs[c][j].at
    BY <1>0, <2>1, <2>3 DEF DocumentsBy, DocsInv
  <2>6. Has(c, "customer")
    BY <2>5 DEF Has
  <2>7. Late(c) <=> docs[c][first].at >= cases[c].created + (Day - 18)
    BY <1>4, <1>5, <2>5 DEF Late, Day
  <2>8. docs[c][first].at - cases[c].created \in Int
    BY <1>4, <1>5, <2>5
  <2>9. HoursToFirstEvidence(c) >= 2400 <=>
          docs[c][first].at - cases[c].created >= Day - 18
    BY <2>4, <2>8, DayInHours
  <2> QED
    BY <1>4, <1>5, <2>5, <2>6, <2>7, <2>9 DEF Day
<1> QED
  BY <1>6, <1>7

\* Whatever a scoring may store, by either scorer, has true codes.
ResultsTell == \A c \in Existing : \A r \in Results(c) : CodesTrue(c, r.codes)

LEMMA ResultsDoTell ==
  DocsInv /\ CasesTyped => ResultsTell
<1> SUFFICES ASSUME DocsInv, CasesTyped, NEW c \in Existing, NEW r \in Results(c)
             PROVE  CodesTrue(c, r.codes)
  BY DEF ResultsTell
<1> DEFINE f == Features(c)
<1>1. r.codes = ReasonCodes(f)
  BY DEF Results, Placeholder, Trained
<1>2. /\ f.evidence = Cardinality(DocumentsBy(c, "customer"))
      /\ f.merchant = Cardinality(DocumentsBy(c, "merchant"))
      /\ f.hours = HoursToFirstEvidence(c)
  BY DEF Features
<1> HIDE DEF f
<1>3. ReasonCodes(f) \cap FixedCode = {code \in FixedCode : Applies(code, f)}
  BY DEF ReasonCodes, Code, FixedCode
<1>4. /\ "missing_customer_evidence" \in ReasonCodes(f) <=> f.evidence = 0
      /\ "merchant_has_not_replied" \in ReasonCodes(f) <=> f.merchant = 0
      /\ "slow_evidence_follow_up" \in ReasonCodes(f) <=> f.hours >= 2400
  BY DEF ReasonCodes, Applies, Code, AbsenceCode
<1>5. c \in CaseId
  BY DEF Existing
<1>6. /\ f.evidence = 0 <=> ~Has(c, "customer")
      /\ f.merchant = 0 <=> ~Has(c, "merchant")
  BY <1>2, <1>5, CountedIfThere
<1>7. f.hours >= 2400 <=> Has(c, "customer") /\ Late(c)
  BY <1>2, FirstTellsAll
<1> QED
  BY <1>1, <1>3, <1>4, <1>6, <1>7 DEF CodesTrue, FixedOf, f

\* The same of the next state.
LEMMA NextResultsTell ==
  DocsInv' /\ CasesTyped' => ResultsTell'
BY ResultsDoTell, PTL

--------------------------------------------------------------------------------
(* The steps *)

\* Documents are only added, with the time they come in at.
DocsGrow ==
  \A c \in CaseId : \A i \in DOMAIN docs[c] :
    i \in DOMAIN docs'[c] /\ docs'[c][i] = docs[c][i]

LEMMA StepKeepsDocs ==
  ASSUME HistoryInv, DocsInv, [Next]_vars
  PROVE  DocsInv' /\ DocsGrow
<1>1. now \in Nat /\ now' \in Nat /\ now <= now'
  <2>1. now \in Nat /\ now' \in Nat
    BY StepKeepsCases, ScoringAssumption DEF HistoryInv
  <2>2. now' = now \/ now' > now
    BY DEF Next, vars, CreateCase, UpdateStatus, Upload, PassTime
  <2> QED
    BY <2>1, <2>2
<1>2. \A c \in CaseId : \A i \in DOMAIN docs[c] : docs[c][i].at \in Nat
  <2> SUFFICES ASSUME NEW c \in CaseId, NEW i \in DOMAIN docs[c]
               PROVE  docs[c][i].at \in Nat
    OBVIOUS
  <2>1. docs[c] \in Seq(Document)
    BY DEF DocsInv
  <2>2. docs[c][i] \in Document
    BY <2>1
  <2> QED
    BY <2>2, ScoringAssumption DEF Document
<1>3. CASE UNCHANGED docs
  <2>1. \A c \in CaseId : \A i \in DOMAIN docs[c] : docs[c][i].at <= now'
    BY <1>1, <1>2 DEF DocsInv
  <2> QED
    BY <1>3, <2>1 DEF DocsInv, DocsGrow
<1>4. ASSUME NEW c \in CaseId, NEW role \in Role, Upload(c, role)
      PROVE  DocsInv' /\ DocsGrow
  <2> DEFINE new == [role |-> role, at |-> now]
  <2>1. new \in Document /\ new.at = now
    BY DEF Document, HistoryInv
  <2>2. docs' = [docs EXCEPT ![c] = Append(docs[c], new)] /\ now' = now
    BY <1>4 DEF Upload
  <2> HIDE DEF new
  <2>3. docs \in [CaseId -> Seq(Document)]
    BY DEF DocsInv
  <2>4. docs[c] \in Seq(Document)
    BY <2>3
  <2>5. docs' \in [CaseId -> Seq(Document)]
    BY <2>1, <2>2, <2>3
  <2>6. /\ docs'[c] = Append(docs[c], new)
        /\ \A d \in CaseId : d # c => docs'[d] = docs[d]
    BY <2>2, <2>3
  <2>7. /\ DOMAIN docs[c] = 1..Len(docs[c]) /\ Len(docs[c]) \in Nat
        /\ DOMAIN docs'[c] = 1..(Len(docs[c]) + 1)
        /\ docs'[c][Len(docs[c]) + 1] = new
        /\ \A i \in 1..Len(docs[c]) : docs'[c][i] = docs[c][i]
    BY <2>1, <2>4, <2>6
  <2>8. DocsGrow
    BY <2>6, <2>7 DEF DocsGrow
  <2>9. \A d \in CaseId : \A i \in DOMAIN docs'[d] : docs'[d][i].at <= now
    <3> SUFFICES ASSUME NEW d \in CaseId, NEW i \in DOMAIN docs'[d]
                 PROVE  docs'[d][i].at <= now
      OBVIOUS
    <3>1. CASE d # c
      BY <2>6, <3>1 DEF DocsInv
    <3>2. CASE d = c /\ i \in 1..Len(docs[c])
      BY <2>7, <3>2 DEF DocsInv
    <3>3. CASE d = c /\ i = Len(docs[c]) + 1
      BY <1>1, <2>1, <2>7, <3>3
    <3> QED
      BY <2>7, <3>1, <3>2, <3>3
  <2>10. ASSUME NEW d \in CaseId, NEW i \in DOMAIN docs'[d], NEW j \in DOMAIN docs'[d],
                i <= j
         PROVE  docs'[d][i].at <= docs'[d][j].at
    <3>1. CASE d # c
      BY <2>6, <2>10, <3>1 DEF DocsInv
    <3>2. CASE d = c /\ j \in 1..Len(docs[c])
      <4>1. i \in 1..Len(docs[c])
        BY <2>7, <2>10, <3>2
      <4> QED
        BY <2>7, <2>10, <3>2, <4>1 DEF DocsInv
    <3>3. CASE d = c /\ j = Len(docs[c]) + 1
      BY <2>1, <2>7, <2>9, <3>3
    <3> QED
      BY <2>7, <3>1, <3>2, <3>3
  <2> QED
    BY <2>2, <2>5, <2>8, <2>9, <2>10 DEF DocsInv
<1>5. UNCHANGED docs \/ \E c \in CaseId, role \in Role : Upload(c, role)
  BY DEF Next, vars, CreateCase, UpdateStatus, PassTime
<1> QED
  BY <1>3, <1>4, <1>5

\* A case is rescored, or keeps its score: then either its documents are the
\* same, or it is marked as not rescored.
LEMMA StepMarksScores ==
  ASSUME HistoryInv, CodesInv, [Next]_vars, NEW c \in CaseId
  PROVE  /\ \/ risk'[c] \in Results(c)' /\ c \in Existing'
            \/ /\ risk'[c] = risk[c]
               /\ ~current'[c] \/ (current'[c] = current[c] /\ docs'[c] = docs[c])
         /\ current' \in [CaseId -> BOOLEAN]
<1> USE DEF HistoryInv, CodesInv
<1>1. ASSUME NEW d \in CaseId, Rescore(d), d \in Existing',
             \A b \in CaseId : b # d => docs'[b] = docs[b]
      PROVE  /\ \/ risk'[c] \in Results(c)' /\ c \in Existing'
                \/ risk'[c] = risk[c] /\ current'[c] = current[c] /\ docs'[c] = docs[c]
             /\ current' \in [CaseId -> BOOLEAN]
  <2>1. PICK r \in Results(d)' : risk' = [risk EXCEPT ![d] = r]
    BY <1>1 DEF Rescore
  <2>2. current' = [current EXCEPT ![d] = TRUE]
    BY <1>1 DEF Rescore
  <2>3. CASE c = d
    BY <1>1, <2>1, <2>2, <2>3
  <2>4. CASE c # d
    BY <1>1, <2>1, <2>2, <2>4
  <2> QED
    BY <2>3, <2>4
<1>2. ASSUME NEW d \in CaseId, CreateCase(d)
      PROVE  Rescore(d) /\ d \in Existing' /\ docs' = docs
  <2>1. PICK u \in Customer, f \in Facts :
          cases' = [cases EXCEPT ![d] = [customer |-> u, facts |-> f, created |-> now]]
    BY <1>2 DEF CreateCase
  <2>2. [customer |-> u, facts |-> f, created |-> now] \in CaseRow
    BY DEF CaseRow
  <2>3. cases'[d] # None
    BY <2>1, <2>2, NoneAssumption
  <2> QED
    BY <1>2, <2>3 DEF CreateCase, Existing
<1>3. ASSUME NEW d \in CaseId, UpdateStatus(d)
      PROVE  Rescore(d) /\ d \in Existing' /\ docs' = docs
  BY <1>3 DEF UpdateStatus, Existing
<1>4. ASSUME NEW d \in CaseId, NEW role \in Role, Upload(d, role)
      PROVE  /\ d \in Existing'
             /\ \A b \in CaseId : b # d => docs'[b] = docs[b]
             /\ \/ Rescore(d)
                \/ current' = [current EXCEPT ![d] = FALSE] /\ risk' = risk
  BY <1>4 DEF Upload, Existing, DocsInv
<1>5. CASE PassTime \/ UNCHANGED vars
  BY <1>5 DEF PassTime, vars
<1>6. CASE \E d \in CaseId, role \in Role : Upload(d, role) /\ ~Rescore(d)
  BY <1>4, <1>6
<1> QED
  BY <1>1, <1>2, <1>3, <1>4, <1>5, <1>6 DEF Next

\* What a score says goes on holding as documents come in.
LEMMA HoldsOn ==
  ASSUME HistoryInv, CodesInv, [Next]_vars, NEW c \in CaseId, risk[c] # None, NEW codes,
         CodesHold(c, codes)
  PROVE  CodesHold(c, codes)'
<1>1. cases'[c] = cases[c]
  BY StepKeepsCases DEF CasesGrow, HistoryInv, Covered, Existing
<1>2. DocsGrow
  BY StepKeepsDocs DEF CodesInv
<1>3. \A role \in Role : Has(c, role) => Has(c, role)'
  BY <1>2 DEF Has, DocsGrow
<1>4. ~Late(c) => ~Late(c)'
  BY <1>1, <1>2 DEF Late, DocsGrow
<1>5. FixedOf(c)' = FixedOf(c)
  <2> DEFINE f == Features(c)
             g == Features(c)'
  <2>1. g.days = f.days /\ g.message = f.message /\ g.band = f.band /\ g.reason = f.reason
    BY <1>1 DEF Features
  <2> HIDE DEF f, g
  <2>2. \A code \in FixedCode : Applies(code, g) <=> Applies(code, f)
    BY <2>1 DEF FixedCode, Applies
  <2> QED
    BY <2>2 DEF FixedOf, f, g
<1> QED
  BY <1>3, <1>4, <1>5 DEF CodesHold, Role

\* How the codes of a score may follow on those of the one before
OnlyProgress(old, new) ==
  /\ old \cap FixedCode = new \cap FixedCode
  /\ new \cap AbsenceCode \subseteq old
  /\ "slow_evidence_follow_up" \in new =>
       old \cap {"slow_evidence_follow_up", "missing_customer_evidence"} # {}

\* The invariant is kept, and codes only progress.
LEMMA CodesStep ==
  ASSUME HistoryInv, CodesInv, [Next]_vars
  PROVE  /\ CodesInv'
         /\ \A c \in CaseId :
              risk[c] # None => /\ risk'[c] # None
                                /\ OnlyProgress(risk[c].codes, risk'[c].codes)
<1>1. DocsInv' /\ CasesTyped'
  BY StepKeepsDocs, StepKeepsCases DEF CodesInv, CasesTyped
<1>2. ResultsTell' /\ ResultsTrue'
  BY <1>1, NextResultsTell, NextStateFacts
<1>3. ASSUME NEW c \in CaseId
      PROVE  current' \in [CaseId -> BOOLEAN]
  BY StepMarksScores
<1>4. current' \in [CaseId -> BOOLEAN]
  <2>1. CASE CaseId = {}
    BY <2>1 DEF Next, vars, PassTime, CodesInv
  <2> QED
    BY <1>3, <2>1
<1>5. ASSUME NEW c \in CaseId, risk'[c] \in Results(c)', c \in Existing'
      PROVE  /\ risk'[c] # None
             /\ Explained(c)'
             /\ CodesTrue(c, risk[c].codes)'
  <2>1. CodesTrue(c, risk[c].codes)'
    BY <1>2, <1>5 DEF ResultsTell
  <2>2. CodesHold(c, risk[c].codes)'
    BY <2>1 DEF CodesTrue, CodesHold
  <2>3. risk'[c] # None
    BY <1>2, <1>5, NoneAssumption DEF ResultsTrue
  <2> QED
    BY <2>1, <2>2, <2>3 DEF Explained
<1>6. ASSUME NEW c \in CaseId, risk[c] # None
      PROVE  \E old : old = risk[c].codes /\ CodesHold(c, old)'
  <2>1. PICK old : old = risk[c].codes
    OBVIOUS
  <2>2. CodesHold(c, old)
    BY <1>6, <2>1 DEF CodesInv, Explained
  <2> QED
    BY <1>6, <2>1, <2>2, HoldsOn
<1>7. ASSUME NEW c \in CaseId, risk'[c] = risk[c], risk[c] # None,
             ~current'[c] \/ (current'[c] = current[c] /\ docs'[c] = docs[c])
      PROVE  Explained(c)'
  <2>1. CodesHold(c, risk[c].codes)'
    BY <1>6, <1>7
  <2>2. ASSUME current'[c]
        PROVE  CodesTrue(c, risk[c].codes)'
    <3>1. current[c] /\ docs'[c] = docs[c]
      BY <1>7, <2>2
    <3>2. CodesTrue(c, risk[c].codes)
      BY <1>7, <3>1 DEF CodesInv, Explained
    <3>3. cases'[c] = cases[c]
      BY <1>7, StepKeepsCases DEF CasesGrow, HistoryInv, Covered, Existing
    <3>4. /\ \A role : Has(c, role)' <=> Has(c, role)
          /\ Late(c)' <=> Late(c)
      BY <3>1, <3>3 DEF Has, Late
    <3> QED
      BY <1>7, <2>1, <3>2, <3>4 DEF CodesTrue, CodesHold
  <2> QED
    BY <2>1, <2>2 DEF Explained
<1>8. CodesInv'
  BY <1>1, <1>4, <1>5, <1>7, StepMarksScores DEF CodesInv
<1>9. ASSUME NEW c \in CaseId, risk[c] # None
      PROVE  risk'[c] # None /\ OnlyProgress(risk[c].codes, risk'[c].codes)
  <2>1. CASE risk'[c] = risk[c]
    BY <1>9, <2>1 DEF OnlyProgress
  <2>2. CASE risk'[c] \in Results(c)' /\ c \in Existing'
    <3>1. risk'[c] # None /\ CodesTrue(c, risk[c].codes)'
      BY <1>5, <2>2
    <3>2. PICK old : old = risk[c].codes /\ CodesHold(c, old)'
      BY <1>6, <1>9
    <3> QED
      BY <3>1, <3>2 DEF CodesTrue, CodesHold, OnlyProgress, AbsenceCode
  <2> QED
    BY <2>1, <2>2, StepMarksScores
<1> QED
  BY <1>8, <1>9

--------------------------------------------------------------------------------
\* Every reachable state satisfies both invariants.
THEOREM CodesHoldAlways == Spec => [](HistoryInv /\ CodesInv)
<1>1. Init => CodesInv
  BY DEF Init, CodesInv, DocsInv
<1>2. HistoryInv /\ CodesInv /\ [Next]_vars => CodesInv'
  BY CodesStep
<1> QED
  BY <1>1, <1>2, HistoryHolds, PTL DEF Spec

\* Every variable has its type; above all, a score is one the column holds.
THEOREM ScoringTypeCorrect == Spec => []TypeOK
<1>1. HistoryInv /\ CodesInv => TypeOK
  BY DEF HistoryInv, CodesInv, DocsInv, Document, TypeOK
<1> QED
  BY <1>1, CodesHoldAlways, PTL

\* The codes of a score speak of the documents the case has, unless its last
\* rescoring failed.
THEOREM CodesAlwaysExplain == Spec => []CodesExplainDocuments
<1>1. HistoryInv /\ CodesInv => CodesExplainDocuments
  BY DEF CodesInv, Explained, CodesTrue, Late, CodesExplainDocuments
<1> QED
  BY <1>1, CodesHoldAlways, PTL

\* From one score of a case to the next, what follows from the facts entered stays
\* and what has been supplied is never missed again.
THEOREM CodesAlwaysProgress == Spec => CodesOnlyProgress
<1>1. HistoryInv /\ CodesInv /\ [Next]_vars =>
        [\A c \in CaseId :
           risk[c] # None =>
             /\ risk'[c] # None
             /\ LET old == risk[c].codes
                    new == risk'[c].codes
                IN  /\ old \cap FixedCode = new \cap FixedCode
                    /\ new \cap AbsenceCode \subseteq old
                    /\ "slow_evidence_follow_up" \in new =>
                         old \cap {"slow_evidence_follow_up", "missing_customer_evidence"} # {}
        ]_vars
  BY CodesStep DEF OnlyProgress
<1> QED
  BY <1>1, CodesHoldAlways, PTL DEF CodesOnlyProgress, Spec
================================================================================

SPECIFICATION Spec
CONSTANTS
  None = None
  CaseId = {c1, c2, c3}
  Customer = {u}
  Facts <- MCFacts
  Time = {0, 86381, 86382}
  Probability = {1000}
  MaxDocuments = 2
INVARIANTS TypeOK 
PROPERTIES  HistoryNeverShrinks
SYMMETRY MCSymmetry

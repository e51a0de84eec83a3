SPECIFICATION Spec
CONSTANTS
  None = None
  Worker = {w1, w2}
  Case = {c1}
  Doc = {d1, d2}
  RequestedStatus = {"in_review", "waiting_customer", "approved"}
  RequestedPriority = {"medium", "urgent"}
  MaxRequests = 3
SYMMETRY Interchangeable
PROPERTIES TerminalIsFinal

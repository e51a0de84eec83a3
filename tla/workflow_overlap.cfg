SPECIFICATION FairSpec
CONSTANTS
  None = None
  Worker = {w1, w2}
  Case = {c1}
  Doc = {d1, d2}
  RequestedStatus = {"in_review", "waiting_customer", "approved"}
  RequestedPriority = {"medium", "urgent"}
  MaxRequests = 3
INVARIANTS TypeOK RowMatchesAudit RiskMatchesAudit CreatedWhole DocumentsAudited AuditChain 
PROPERTIES PriorityOnlyOnRequest DecisionsHold FollowsLifecycle EveryRequestEnds

SPECIFICATION ReportSpec
CONSTANTS
  None = None
  CaseId = {1, 2, 3}
  PageSize = 2
  Time = {1, 2}
  QueueRow <- MCQueueRow
  Filter <- MCFilter
  RawPage <- MCRawPage
  Window <- MCWindow
INVARIANTS SummaryCounts

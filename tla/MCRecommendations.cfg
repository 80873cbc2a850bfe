SPECIFICATION Spec
CONSTANTS
  Caller = {"AGGRESSIVE", "CONSERVATIVE"}
  RepairAttempts = 2
  Thesis = {"view", "stock_view", "other_view"}
  Subject <- MCSubject
  Scope = "market"
  Draft <- MCDraft
  MinItems = 3
  MaxItems = 4
  MaxTheses = 2
INVARIANTS
  CallsAreAudited
  RecommendationsGrounded
  ReportTellsTheRun
CHECK_DEADLOCK FALSE

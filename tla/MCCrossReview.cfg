CONSTANTS
  Slot = {"action", "horizon"}
  Items <- MCItems
  Insistence <- MCInsistence
  Score <- MCScore
  MaxAttempts = 3
SPECIFICATION Spec
INVARIANTS BookkeepingAccepted HandsOver
PROPERTIES CorrectionsConverge AuditTrail

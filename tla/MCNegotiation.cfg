CONSTANTS
  Slot = {"action", "horizon"}
  Required = {"action", "horizon"}
  Items <- MCItems
  Score <- MCScore
  MaxRounds = 2
SPECIFICATION Spec
INVARIANTS AgreedOnCurrentText OneWinnerPerSlot AuditExplainsPool RecommendationFaithful
PROPERTIES ImplementsLifecycle EveryProposalDecided

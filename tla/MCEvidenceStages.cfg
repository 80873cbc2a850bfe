CONSTANTS
  Domain = {"TECHNICAL", "EVENT", "FUNDAMENTAL"}
  Stages <- MCStages
  MaxPerStage = 2
  MaxQueued = 3
SPECIFICATION Spec
INVARIANTS TypeOK StagesSettled RequestsAccounted
PROPERTY ClosedForGood

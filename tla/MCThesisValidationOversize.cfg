CONSTANTS
  Target = {"A", "B"}
  Benchmark = {"B"}
  Domain = {"TECHNICAL", "EVENT", "FUNDAMENTAL"}
  Technical = "TECHNICAL"
  Executable = {"TECHNICAL", "EVENT"}
  EvidenceId = {"e1", "e2", "e3", "e4", "ghost"}
  EvidenceRecords <- MCRecords
  Drafts <- MCDrafts
  RequestDrafts <- MCRequestDrafts
  Finalizations <- MCFinalizations
  Fingerprint = {"f1", "f2", "f3"}
  NoFingerprint = "none"
  MaxCandidates = 1
  MaxRounds = 2
  MaxRequests = 3
  MaxPerTurn = 1
  MaxDiscovered = 1
  MaxContextEvidence = 2
SPECIFICATION Spec
INVARIANT OversizedContextFailsClosed

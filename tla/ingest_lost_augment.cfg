\* An augmenting drop accepted while the worker is inside extract.
SPECIFICATION Spec
CONSTANTS
  Jobs = {j1}
  Posts = {p1, p2}
  MaxAssignments = 0
  MaxFaults = 0
  NoJob = NoJob
  NoRows = NoRows
INVARIANT AcceptedEvidenceProcessed

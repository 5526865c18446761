\* Approvals against augmentations and re-extractions of one meeting.
SPECIFICATION Spec
CONSTANTS
  Artifacts = {a1, a2}
  Adrs = {a1}
  Requests = {r1, r2}
  Length = 4
  Cuts <- MCCuts
  MaxProposals = 2
  None = None
SYMMETRY Symmetry
INVARIANTS PublishedIsExported CitationsAreLive
PROPERTIES ApprovedMomentsKeepDrafts OneWayLifecycle

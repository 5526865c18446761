\* Projections, approvals and a rebuild contending; a dead process, a failed store.
SPECIFICATION Spec
CONSTANTS
  Meetings = {m1}
  Artifacts = {a1, a2}
  MeetingOf <- FirstMeeting
  Rebuilds = {c1}
  Worker = Worker
  Nobody = Nobody
  Torn = Torn
  Ghost = Ghost
  MaxVersions = 2
  MaxFaults = 1
  MaxCrashes = 1
SYMMETRY Symmetry
INVARIANTS EvidenceReachesStores PublishedReachesStores
PROPERTY NoOlderView

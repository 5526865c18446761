\* A re-extraction reads the approved moments while an approval is at work.
SPECIFICATION Spec
CONSTANTS
  Artifacts = {a1, a2}
  Adrs = {a1}
  Requests = {r1}
  Length = 4
  Cuts <- MCCuts
  MaxProposals = 1
  None = None
PROPERTY NeverProposesOntoApproved

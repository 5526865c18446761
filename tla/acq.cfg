\* Launches, sweeps, deletions, killed processes, failed writes and a dead api.
SPECIFICATION FairSpec
CONSTANTS
  Acquisitions = {q1, q2}
  Videos = {v1}
  Sessions = {s1, s2}
  MaxFaults = 1
  MaxDeaths = 1
  MaxCrashes = 1
  None = None
INVARIANTS OneRunnerPerSource ClaimedBytesKept NoTerminalBesideBytes
PROPERTIES AcceptedSettles

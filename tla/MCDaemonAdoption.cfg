SPECIFICATION AdoptionSpec
CONSTANTS
  a1 = a1
  a2 = a2
  Apps <- TwoApps
  MaxProcesses = 2
  MaxPolls = 1
INVARIANT RequestsWaitForAdoption
PROPERTY AdoptionSettles
CHECK_DEADLOCK FALSE

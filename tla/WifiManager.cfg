SPECIFICATION Spec
CONSTANTS
  Totals <- MCTotals
  Received <- MCReceived
  MaxEvents = 3
INVARIANTS
  GreenMeansOnline
  ServerFollowsAddress
  NoGhostUpdate
  ProgressHonest
PROPERTY
  StatusSettles

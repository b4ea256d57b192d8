\* The daemon dies and loses the bus; one tick is 30 s, an outage at most 4 minutes.
\* No property of this run is about the deployment: its timer is short.
SPECIFICATION FairSpec
CONSTANTS
  StartLimitInterval = 20
  StartLimitBurst = 10
  LeopChecks = {1, 127}
  OnBootSec = 2
  LeopTargets = {"LEOP", "LEOP-now"}
  MaxOutage = 8
  MinCalm = 12
INVARIANTS
  TypeOK
  NotGivenUp
PROPERTIES
  ListensAgain

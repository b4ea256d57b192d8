\* A restart after the signal of the timer, 45 minutes after the boot.
SPECIFICATION FairSpec
CONSTANTS
  StartLimitInterval = 20
  StartLimitBurst = 10
  LeopChecks = {1, 127}
  OnBootSec = 90
  LeopTargets = {"LEOP"}
  MaxOutage = 2
  MinCalm = 12
INVARIANTS
  LeopRemembered

CONSTANTS
  n1 = n1
  n2 = n2
  Notifiers = {n1, n2}
  Uses <- MCUses
SPECIFICATION FairSpec
INVARIANTS VersionsMeet NothingMissed NothingExtra
PROPERTIES BlocksAreTold WaitsEnd

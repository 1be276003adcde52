\* A redeploy whose secrets write fails.
SPECIFICATION Spec
CONSTANTS
  Services = {a}
  Versions = {v1, v2}
  Clients = {p1}
  NoFile = NoFile
  Broken = Broken
  MaxFaults = 1
  MaxCrashes = 1
PROPERTY RollbackKeepsPriorRegistration

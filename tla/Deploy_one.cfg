\* One service, deployed again and again; failures, signals, a crash at every step.
SPECIFICATION Spec
CONSTANTS
  Services = {a}
  Versions = {d1, d2, d3, d4}
  Hosts = {h}
  BadHosts = {}
  Foreign = Foreign
  None = None
  NoFile = NoFile
  Broken = Broken
  NoConfig = NoConfig
  Down = Down
  MaxFaults = 2
  MaxCrashes = 1
INVARIANTS
  TypeOK
  OnlyProbedRegistered
PROPERTIES
  ZeroMeansServed
  WholeOrGone
  SixtyMeansRegistered
  RollbackRestores
  OutageWindows
  FreshDeploySparesForeign

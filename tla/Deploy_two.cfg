\* Two services that can ask for the same hostname, or for one Caddy cannot parse.
SPECIFICATION Spec
CONSTANTS
  Services = {a, b}
  Versions = {d1, d2, d3}
  Hosts = {h, x}
  BadHosts = {x}
  Foreign = Foreign
  None = None
  NoFile = NoFile
  Broken = Broken
  NoConfig = NoConfig
  Down = Down
  MaxFaults = 1
  MaxCrashes = 0
INVARIANTS
  DiskAcceptable
PROPERTIES
  Publishes

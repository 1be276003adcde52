\* One service, which can ask for a hostname Caddy refuses; the operator deploys until it is up.
SPECIFICATION FairSpec
CONSTANTS
  Services = {a}
  Versions = {d1, d2, d3, d4}
  Hosts = {h, x}
  BadHosts = {x}
  Foreign = Foreign
  None = None
  NoFile = NoFile
  Broken = Broken
  NoConfig = NoConfig
  Down = Down
  MaxFaults = 1
  MaxCrashes = 1
PROPERTY RetryConverges

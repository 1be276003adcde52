\* The operator repeats caddy reload, caddy up and caddy down; one hostname cannot be parsed.
SPECIFICATION FairSpec
CONSTANTS
  Services = {a}
  Publishers = {p, q}
  Hosts = {h, bad}
  BadHosts = {bad}
  NoConfig = NoConfig
  Down = Down
  MaxChanges = 1
  MaxFaults = 0
PROPERTIES UpConverges RoutesConverge

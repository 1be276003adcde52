\* Two commands publish at once, beside caddy up and caddy down.
SPECIFICATION Spec
CONSTANTS
  Services = {a, b}
  Publishers = {p, q}
  Hosts = {h}
  BadHosts = {}
  NoConfig = NoConfig
  Down = Down
  MaxChanges = 2
  MaxFaults = 1
INVARIANT TypeOK
PROPERTIES SoloIsExact OverlapIsBounded ManagerTellsTruth
SYMMETRY Interchangeable

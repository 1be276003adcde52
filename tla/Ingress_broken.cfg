\* Two commands, and a hostname Caddy cannot parse.
SPECIFICATION Spec
CONSTANTS
  Services = {a}
  Publishers = {p, q}
  Hosts = {bad}
  BadHosts = {bad}
  NoConfig = NoConfig
  Down = Down
  MaxChanges = 2
  MaxFaults = 0
INVARIANT BrokenNeverOnDisk
SYMMETRY Interchangeable

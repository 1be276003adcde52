\* Two services, two versions, two processes; one failed file-system call, one crash.
SPECIFICATION Spec
CONSTANTS
  Services = {a, b}
  Versions = {v1, v2}
  Clients = {p1, p2}
  NoFile = NoFile
  Broken = Broken
  MaxFaults = 1
  MaxCrashes = 1
SYMMETRY Symmetry
VIEW View
INVARIANTS
  TypeOK
  NoOrphanSecrets
  SettledIsExact
  ReadersSeeSettled
PROPERTY LoadableUntilRemoved

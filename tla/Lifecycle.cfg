\* Commands one at a time on one service, however it was left, beside a listing
\* and another registered service.
SPECIFICATION FairSpec
CONSTANTS
  Services = {a, b}
  Versions = {d1, d2}
  Foreign = Foreign
  None = None
  NoFile = NoFile
  Broken = Broken
  Down = Down
  Spoilt = {d2}
  Bystanders = {b}
  MaxFaults = 1
INVARIANT TypeOK
PROPERTIES
  RowsWereTrue
  UnregisterRemoves
  ZeroMeansRunning
  RestartKeepsUp
  StartConverges
  UnregisterConverges
ACTION_CONSTRAINT ListingsApart

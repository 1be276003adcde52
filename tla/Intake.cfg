\* Deploys and starts with the inputs of MCIntake.
SPECIFICATION Spec
CONSTANTS
  Names = {"APP", "KEY", "LANG"}
  Own = {"HOME", "LANG"}
  Early = {"APP"}
  Garbled = "?"
  AbsPaths <- MCAbsPaths
  VolumeNames <- MCVolumeNames
  CommandLines <- MCCommandLines
  Edits <- MCEdits
  Scripts <- MCScripts
  Nothing = Nothing
  MaxChanges = 1
INVARIANT TypeOK
PROPERTIES ChecksAgree MountsArrive ExplicitScriptOrNothing EnvIsExact

CONSTANTS
  Procs = {p1, p2}
  Manifests <- MCManifests
  Nothing = Nothing
  MaxEdits = 1
  MaxKills = 1
SPECIFICATION Spec
INVARIANTS
  OneSentinel
  OkMeansInstalled
  RunsOnlyWithOk
PROPERTIES
  EventuallySettled

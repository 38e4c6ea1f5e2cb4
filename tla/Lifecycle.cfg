SPECIFICATION Spec
CONSTANTS
  Environments <- MCEnvironments
  NoEnvironment = NoEnvironment
  Seeders = {s1, s2}
  Own = Own
  ScenarioLength = 2
  MaxRuns = 2
  MaxLaunches = 2
  MaxOutages = 1
INVARIANTS
  ServingIsPrepared
  StoppedMeansDrained
  SeedingStacksNothing
PROPERTIES
  EveryStopEnds
CHECK_DEADLOCK FALSE

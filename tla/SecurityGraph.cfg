SPECIFICATION Spec
CONSTANTS
  Workers = {w1, w2}
  Entities = {1, 2, 3, 4, 5, 6}
  Events <- MCEvents
  Telemetry <- MCTelemetry
  FindingOf <- MCFindingOf
  Rules <- MCRules
  Assets <- MCAssets
  AssetEdges <- MCAssetEdges
  MaxHops = 3
  MaxEdgeEvidence = 1
  MaxIngests = 4
  MaxRestarts = 1
  Nothing = Nothing
INVARIANTS
  TypeOK
  WalkIsTheGraph
  IncidentKeepsUp
PROPERTIES
  ScoreNeverFalls
CHECK_DEADLOCK FALSE
